----------------------------- MODULE NodeProofs -----------------------------
(***************************************************************************)
(* What NodeLifecycle guarantees for any sets of nodes, labs and requests, *)
(* and what is left of it when the tools of the AI builder work on the     *)
(* same nodes (AgentTools).  The invariant of the first part has three     *)
(* parts: OneAtWork relates a request to the node it serves, Agreement a   *)
(* row to its container, NetOwned a network to whoever will collect it.    *)
(***************************************************************************)
EXTENDS AgentTools, TLAPS

-----------------------------------------------------------------------------
(* The handlers alone *)


\* Requests of a node no fault hit do not overlap, and find its row.
OneAtWork ==
    /\ \A r, q \in Requests :
          r # q /\ target[r] = target[q] /\ target[r] # NoNode => target[r] \in excused
    /\ \A r \in Requests :
          target[r] # NoNode /\ target[r] \notin excused => HasRow(target[r])

\* What the container of a request's node is at the two steps between Docker and the row.
RowPending ==
    \A r \in Requests : target[r] # NoNode /\ target[r] \notin excused =>
        /\ at[r] = "markRunning" => cont[target[r]] = "up"
        /\ at[r] = "markStopped" => cont[target[r]] # "up"

Agreement == RowPending /\ NoPhantomRow /\ NoHiddenContainer

\* The requests at whose step a network that nobody uses yet, or any more, has an owner:
\* the start about to attach to it, the stops that have still to ask who uses it.
Owner(r, l) ==
    /\ target[r] # NoNode
    /\ Lab(r) = l
    /\ at[r] \in {"run", "markStopped", "count", "destroy"}

NetOwned ==
    \A l \in net \ leaky :
        Attached(l) \/ OthersRunning(l) \/ \E r \in Requests : Owner(r, l)

NodeInv == TypeOK /\ OneAtWork /\ Agreement /\ NetOwned

----------------------------------------------------------------------------
\* Every step keeps every variable in its range.
THEOREM TypeCorrect == Spec => []TypeOK
<1> USE LabOfAssumption, NoNodeAssumption
    DEF TypeOK, HasRow, NodesOf, Busy, Lab, Attached, OthersRunning, Goto, Finish, Begin,
        SetStatus, StartSteps, StopSteps, dbVars, dockerVars, history
<1>1. Init => TypeOK
  BY DEF Init
<1>2. TypeOK /\ [Next]_vars => TypeOK'
  <2> SUFFICES ASSUME TypeOK, [Next]_vars PROVE TypeOK'
    OBVIOUS
  <2>1. ASSUME NEW n \in Nodes, AddNode(n) \/ DeleteNode(n) PROVE TypeOK'
    BY <2>1 DEF AddNode, DeleteNode
  <2>2. ASSUME NEW n \in Nodes, SetRdpConfig(n) \/ StopUnreachable(n) \/ ContainerDies(n)
        PROVE TypeOK'
    BY <2>2 DEF SetRdpConfig, StopUnreachable, ContainerDies
  <2>3. ASSUME NEW l \in Labs, DeleteLab(l) PROVE TypeOK'
    BY <2>3 DEF DeleteLab
  <2>4. ASSUME NEW r \in Requests, NEW n \in Nodes, StartLookup(r, n) \/ StopLookup(r, n)
        PROVE TypeOK'
    BY <2>4 DEF StartLookup, StopLookup
  <2>5. ASSUME NEW r \in Requests, StartStep(r) PROVE TypeOK'
    BY <2>5 DEF StartStep, CreateLabNetwork, RunContainer, ContainerStarts, StartFailed, MarkRunning
  <2>6. ASSUME NEW r \in Requests, StopStep(r) PROVE TypeOK'
    BY <2>6
    DEF StopStep, RemoveContainer, ContainerRemoved, RemovedInPart, MarkStopped, CountOthers,
        DestroyLabNetwork, DestroyNetwork
  <2>7. CASE Crash
    <3>1. {n \in Nodes : Busy(n)} \subseteq Nodes
      OBVIOUS
    <3>2. {LabOf[n] : n \in {m \in Nodes : Busy(m)}} \subseteq Labs
      BY LabOfAssumption
    <3>3. QED
      BY <2>7, <3>1, <3>2 DEF Crash
  <2>8. CASE UNCHANGED vars
    BY <2>8 DEF vars
  <2>9. QED
    BY <2>1, <2>2, <2>3, <2>4, <2>5, <2>6, <2>7, <2>8 DEF Next, HandlerNext
<1>3. QED
  BY <1>1, <1>2, PTL DEF Spec

----------------------------------------------------------------------------
\* Two requests on one node are noticed by the second one's Begin.
LEMMA OneAtWorkStep == TypeOK /\ OneAtWork /\ [Next]_vars => OneAtWork'
<1> SUFFICES ASSUME TypeOK, OneAtWork, [Next]_vars PROVE OneAtWork'
  OBVIOUS
<1> USE LabOfAssumption, NoNodeAssumption
    DEF TypeOK, OneAtWork, HasRow, NodesOf, Busy, Goto, Finish, Begin, SetStatus, dbVars,
        dockerVars, history
<1>1. ASSUME NEW n \in Nodes, AddNode(n) \/ DeleteNode(n) PROVE OneAtWork'
  BY <1>1 DEF AddNode, DeleteNode
<1>2. ASSUME NEW n \in Nodes, SetRdpConfig(n) \/ StopUnreachable(n) \/ ContainerDies(n)
      PROVE OneAtWork'
  BY <1>2 DEF SetRdpConfig, StopUnreachable, ContainerDies
<1>3. ASSUME NEW l \in Labs, DeleteLab(l) PROVE OneAtWork'
  BY <1>3 DEF DeleteLab
<1>4. ASSUME NEW r \in Requests, NEW n \in Nodes, StartLookup(r, n) \/ StopLookup(r, n)
      PROVE OneAtWork'
  BY <1>4 DEF StartLookup, StopLookup
<1>5. ASSUME NEW r \in Requests, StartStep(r) PROVE OneAtWork'
  BY <1>5 DEF StartStep, CreateLabNetwork, RunContainer, ContainerStarts, StartFailed, MarkRunning
<1>6. ASSUME NEW r \in Requests, StopStep(r) PROVE OneAtWork'
  BY <1>6
  DEF StopStep, RemoveContainer, ContainerRemoved, RemovedInPart, MarkStopped, CountOthers,
      DestroyLabNetwork, DestroyNetwork
<1>7. CASE Crash
  BY <1>7 DEF Crash
<1>8. CASE UNCHANGED vars
  BY <1>8 DEF vars
<1>9. QED
  BY <1>1, <1>2, <1>3, <1>4, <1>5, <1>6, <1>7, <1>8 DEF Next, HandlerNext

\* A step of one request leaves alone the row and the container of a node that another
\* request serves, unless the node is excused.
LEMMA AgreementStep == TypeOK /\ OneAtWork /\ Agreement /\ [Next]_vars => Agreement'
<1> SUFFICES ASSUME TypeOK, OneAtWork, Agreement, [Next]_vars PROVE Agreement'
  OBVIOUS
<1> USE LabOfAssumption, NoNodeAssumption
    DEF TypeOK, OneAtWork, Agreement, RowPending, NoPhantomRow, NoHiddenContainer, HasRow, NodesOf,
        Busy, Lab, Goto, Finish, Begin, SetStatus, dbVars, dockerVars, history
<1>1. ASSUME NEW n \in Nodes, AddNode(n) \/ DeleteNode(n) PROVE Agreement'
  BY <1>1 DEF AddNode, DeleteNode
<1>2. ASSUME NEW n \in Nodes, SetRdpConfig(n) \/ StopUnreachable(n) \/ ContainerDies(n)
      PROVE Agreement'
  BY <1>2 DEF SetRdpConfig, StopUnreachable, ContainerDies
<1>3. ASSUME NEW l \in Labs, DeleteLab(l) PROVE Agreement'
  BY <1>3 DEF DeleteLab
<1>4. ASSUME NEW r \in Requests, NEW n \in Nodes, StartLookup(r, n) \/ StopLookup(r, n)
      PROVE Agreement'
  BY <1>4 DEF StartLookup, StopLookup
<1>5. ASSUME NEW r \in Requests, StartStep(r) PROVE Agreement'
  <2>1. CASE CreateLabNetwork(r)
    BY <2>1 DEF CreateLabNetwork, StartFailed
  <2>2. CASE RunContainer(r)
    BY <2>2 DEF RunContainer, ContainerStarts, StartFailed
  <2>3. CASE MarkRunning(r)
    BY <2>3 DEF MarkRunning
  <2>4. QED
    BY <1>5, <2>1, <2>2, <2>3 DEF StartStep
<1>6. ASSUME NEW r \in Requests, StopStep(r) PROVE Agreement'
  <2>1. CASE RemoveContainer(r)
    BY <2>1 DEF RemoveContainer, ContainerRemoved, RemovedInPart
  <2>2. CASE MarkStopped(r)
    BY <2>2 DEF MarkStopped
  <2>3. CASE CountOthers(r) \/ DestroyLabNetwork(r)
    BY <2>3 DEF CountOthers, DestroyLabNetwork, DestroyNetwork
  <2>4. QED
    BY <1>6, <2>1, <2>2, <2>3 DEF StopStep
<1>7. CASE Crash
  BY <1>7 DEF Crash
<1>8. CASE UNCHANGED vars
  BY <1>8 DEF vars
<1>9. QED
  BY <1>1, <1>2, <1>3, <1>4, <1>5, <1>6, <1>7, <1>8 DEF Next, HandlerNext

\* Whoever stops owning an unused network hands it on: a start to its container or to the
\* label leaky, a stop to the row that made it leave the network alone.
LEMMA NetOwnedStep == TypeOK /\ NetOwned /\ [Next]_vars => NetOwned'
<1> SUFFICES ASSUME TypeOK, NetOwned, [Next]_vars,
                    NEW l \in net' \ leaky'
             PROVE  (Attached(l) \/ OthersRunning(l) \/ \E r \in Requests : Owner(r, l))'
  BY DEF NetOwned
<1> USE LabOfAssumption, NoNodeAssumption
    DEF TypeOK, NetOwned, Owner, HasRow, NodesOf, Busy, Lab, Attached, OthersRunning, Goto,
        Finish, Begin, SetStatus, dbVars, dockerVars, history
<1>1. ASSUME NEW n \in Nodes, AddNode(n) \/ DeleteNode(n)
      PROVE  (Attached(l) \/ OthersRunning(l) \/ \E r \in Requests : Owner(r, l))'
  BY <1>1 DEF AddNode, DeleteNode
<1>2. ASSUME NEW n \in Nodes, SetRdpConfig(n) \/ StopUnreachable(n) \/ ContainerDies(n)
      PROVE  (Attached(l) \/ OthersRunning(l) \/ \E r \in Requests : Owner(r, l))'
  BY <1>2 DEF SetRdpConfig, StopUnreachable, ContainerDies
<1>3. ASSUME NEW m \in Labs, DeleteLab(m)
      PROVE  (Attached(l) \/ OthersRunning(l) \/ \E r \in Requests : Owner(r, l))'
  BY <1>3 DEF DeleteLab
<1>4. ASSUME NEW r \in Requests, NEW n \in Nodes, StartLookup(r, n) \/ StopLookup(r, n)
      PROVE  (Attached(l) \/ OthersRunning(l) \/ \E q \in Requests : Owner(q, l))'
  BY <1>4 DEF StartLookup, StopLookup
<1>5. ASSUME NEW r \in Requests, StartStep(r)
      PROVE  (Attached(l) \/ OthersRunning(l) \/ \E q \in Requests : Owner(q, l))'
  <2>1. CASE CreateLabNetwork(r)
    BY <2>1 DEF CreateLabNetwork, StartFailed
  <2>2. CASE RunContainer(r)
    BY <2>2 DEF RunContainer, ContainerStarts, StartFailed
  <2>3. CASE MarkRunning(r)
    BY <2>3 DEF MarkRunning
  <2>4. QED
    BY <1>5, <2>1, <2>2, <2>3 DEF StartStep
<1>6. ASSUME NEW r \in Requests, StopStep(r)
      PROVE  (Attached(l) \/ OthersRunning(l) \/ \E q \in Requests : Owner(q, l))'
  <2>1. CASE RemoveContainer(r)
    BY <2>1 DEF RemoveContainer, ContainerRemoved, RemovedInPart
  <2>2. CASE MarkStopped(r)
    BY <2>2 DEF MarkStopped
  <2>3. CASE CountOthers(r)
    BY <2>3 DEF CountOthers
  <2>4. CASE DestroyLabNetwork(r)
    BY <2>4 DEF DestroyLabNetwork, DestroyNetwork
  <2>5. QED
    BY <1>6, <2>1, <2>2, <2>3, <2>4 DEF StopStep
<1>7. CASE Crash
  BY <1>7 DEF Crash
<1>8. CASE UNCHANGED vars
  BY <1>8 DEF vars
<1>9. QED
  BY <1>1, <1>2, <1>3, <1>4, <1>5, <1>6, <1>7, <1>8 DEF Next, HandlerNext

LEMMA NodeInitially == Init => OneAtWork /\ Agreement /\ NetOwned
BY NoNodeAssumption DEF Init, OneAtWork, Agreement, RowPending, NoPhantomRow, NoHiddenContainer, NetOwned

\* The inductive invariant.
THEOREM InvariantHolds == Spec => []NodeInv
<1>1. Init => OneAtWork /\ Agreement /\ NetOwned
  BY NodeInitially
<1>2. TypeOK /\ (OneAtWork /\ Agreement /\ NetOwned) /\ [Next]_vars
        => (OneAtWork /\ Agreement /\ NetOwned)'
  BY OneAtWorkStep, AgreementStep, NetOwnedStep
<1>3. QED
  BY <1>1, <1>2, TypeCorrect, PTL DEF Spec, NodeInv

----------------------------------------------------------------------------
\* A node whose requests never overlapped and that no fault hit has no row that says
\* running over a container that is not.
THEOREM NoPhantom == Spec => []NoPhantomRow
<1>1. NodeInv => NoPhantomRow
  BY DEF NodeInv, Agreement
<1>2. QED
  BY <1>1, InvariantHolds, PTL

\* Nor has it a container up behind a row that says stopped.
THEOREM NoHidden == Spec => []NoHiddenContainer
<1>1. NodeInv => NoHiddenContainer
  BY DEF NodeInv, Agreement
<1>2. QED
  BY <1>1, InvariantHolds, PTL

\* However many stops and starts of a lab interleave, its network does not survive the
\* last of them, unless a failure has leaked it.
THEOREM Teardown == Spec => []LastStopTearsDown
<1>1. NodeInv => LastStopTearsDown
  BY DEF NodeInv, NetOwned, LastStopTearsDown, Owner
<1>2. QED
  BY <1>1, InvariantHolds, PTL

-----------------------------------------------------------------------------
(* Handlers and tools: two invariants, IInv, by which no row says running over a container   *)
(* that is not, and SweepInv, which follows a delete_lab from the nodes it has still to stop  *)
(* to the lab it leaves.                                                                      *)


\* A plain slot has its node exactly while it is at a step of a node; a slot inside
\* delete_lab is at a step of the tools, on a node of its lab.
Slots ==
    \A r \in Requests :
        /\ at[r] = "idle" => target[r] = NoNode
        /\ at[r] \in StartSteps \union StopSteps \union ToolSteps => target[r] # NoNode
        /\ deleting[r] # NoLab =>
            /\ at[r] \in ToolSteps \union DeleteSteps
            /\ todo[r] \subseteq NodesOf(deleting[r])
            /\ target[r] # NoNode => Lab(r) = deleting[r]
        /\ at[r] \in {"labNetwork", "labRows"} => todo[r] = {}

\* Two requests serve one node only if it is excused.
Serial ==
    \A r, q \in Requests :
        r # q /\ target[r] = target[q] /\ target[r] # NoNode => target[r] \in excused

\* The handlers write the row after the container, the tools' stop before it.
AtRow ==
    \A r \in Requests : target[r] # NoNode /\ target[r] \notin excused =>
        /\ at[r] = "markRunning" => cont[target[r]] = "up"
        /\ at[r] \in {"toolCount", "toolRemove"} => row[target[r]] # "running"

IInv == ToolTypeOK /\ Slots /\ Serial /\ AtRow /\ NoPhantomRow

----------------------------------------------------------------------------
\* A node nobody has added yet has no container, and nobody works on it.
Unborn ==
    \A n \in Nodes : row[n] = "unborn" =>
        /\ cont[n] = "absent"
        /\ ~Busy(n)
        /\ \A r \in Requests : n \notin todo[r]

\* A row goes with an excuse, or with its lab.
Gone ==
    /\ \A n \in Nodes : row[n] = "gone" => n \in excused \/ LabOf[n] \in purged
    /\ \A n \in Nodes : LabOf[n] \in purged => row[n] = "gone"
    /\ purged \cap labs = {}

Noted ==
    \A r, q \in Requests, l \in Labs :
        r # q /\ deleting[r] = l /\ InFlightOn(q, l) => l \in contended

\* What a delete_lab has done with a node: it has no container any more, or its turn is to
\* come or has come, or somebody else took its row away, or the daemon did not answer.
Handled(r, n) ==
    \/ cont[n] = "absent"
    \/ n \in todo[r]
    \/ target[r] = n /\ at[r] \in {"toolMark", "toolCount", "toolRemove"}
    \/ n \in excused /\ (row[n] = "gone" \/ LabOf[n] \in leaky)

NetworkGone(l) == l \in leaky \/ Attached(l) \/ l \notin net

Sweeping ==
    \A r \in Requests : deleting[r] # NoLab /\ deleting[r] \notin contended =>
        /\ deleting[r] \notin purged
        /\ \A n \in NodesOf(deleting[r]) : Handled(r, n)
        /\ at[r] = "labRows" => NetworkGone(deleting[r])

Swept ==
    \A l \in purged \ contended :
        /\ \A r \in Requests : ~InFlightOn(r, l)
        /\ \A n \in NodesOf(l) \ excused : cont[n] = "absent"
        /\ NetworkGone(l)

SweepInv == Unborn /\ Gone /\ Noted /\ Sweeping /\ Swept

----------------------------------------------------------------------------
\* Every step keeps every variable in its range; the range of a slot's node depends on the
\* step it is at.
THEOREM ToolTypeCorrect == ToolSpec => [](ToolTypeOK /\ Slots)
<1> USE LabOfAssumption, NoNodeAssumption, NoLabAssumption
    DEF ToolTypeOK, Slots, HasRow, NodesOf, Busy, Lab, Attached, OthersRunning, Goto, Finish, Begin,
        SetStatus, StartSteps, StopSteps, ToolSteps, DeleteSteps, dbVars, dockerVars, history,
        toolVars
<1> DEFINE Goal == ToolTypeOK /\ Slots
<1>1. ToolInit => Goal
  BY DEF ToolInit, Init
<1>2. Goal /\ [ToolNext]_avars => Goal'
  <2> SUFFICES ASSUME Goal, [ToolNext]_avars PROVE Goal'
    OBVIOUS
  <2>1. contended' \subseteq Labs
    BY DEF ToolNext, NoteContention, avars
  <2> DEFINE Handler == UNCHANGED <<toolVars, purged>>
  <2>2. ASSUME NEW n \in Nodes, Handler,
               \/ AddNode(n) \/ DeleteNode(n) \/ SetRdpConfig(n) \/ StopUnreachable(n)
               \/ ContainerDies(n)
        PROVE  Goal'
    BY <2>1, <2>2 DEF AddNode, DeleteNode, SetRdpConfig, StopUnreachable, ContainerDies
  <2>3. ASSUME NEW l \in Labs, Handler, DeleteLab(l) PROVE Goal'
    BY <2>1, <2>3 DEF DeleteLab
  <2>4. ASSUME NEW r \in Requests, NEW n \in Nodes, Handler, StartLookup(r, n) \/ StopLookup(r, n)
        PROVE  Goal'
    BY <2>1, <2>4 DEF StartLookup, StopLookup
  <2>5. ASSUME NEW r \in Requests, Handler, StartStep(r) PROVE Goal'
    <3>1. CASE CreateLabNetwork(r)
      BY <2>1, <2>5, <3>1 DEF CreateLabNetwork, StartFailed
    <3>2. CASE RunContainer(r)
      BY <2>1, <2>5, <3>2 DEF RunContainer, ContainerStarts, StartFailed
    <3>3. CASE MarkRunning(r)
      BY <2>1, <2>5, <3>3 DEF MarkRunning
    <3>4. QED
      BY <2>5, <3>1, <3>2, <3>3 DEF StartStep
  <2>6. ASSUME NEW r \in Requests, Handler, StopStep(r) PROVE Goal'
    <3>1. CASE RemoveContainer(r)
      BY <2>1, <2>6, <3>1 DEF RemoveContainer, ContainerRemoved, RemovedInPart
    <3>2. CASE MarkStopped(r) \/ CountOthers(r)
      BY <2>1, <2>6, <3>2 DEF MarkStopped, CountOthers
    <3>3. CASE DestroyLabNetwork(r)
      BY <2>1, <2>6, <3>3 DEF DestroyLabNetwork, DestroyNetwork
    <3>4. QED
      BY <2>6, <3>1, <3>2, <3>3 DEF StopStep
  <2>7. ASSUME HttpNext PROVE Goal'
    <3>1. ASSUME Crash, UNCHANGED purged,
                 deleting' = [r \in Requests |-> NoLab],
                 todo' = [r \in Requests |-> {}],
                 others' = [r \in Requests |-> FALSE]
          PROVE  Goal'
      BY <2>1, <3>1 DEF Crash
    <3>2. QED
      BY <2>2, <2>3, <2>4, <2>5, <2>6, <2>7, <3>1 DEF HttpNext, HandlerNext
  <2>8. ASSUME NEW r \in Requests, NEW n \in Nodes, ToolStartLookup(r, n) \/ ToolStopLookup(r, n)
        PROVE  Goal'
    BY <2>1, <2>8 DEF ToolStartLookup, ToolStopLookup
  <2>9. ASSUME NEW r \in Requests, NEW l \in Labs, DeleteLookup(r, l) PROVE Goal'
    BY <2>1, <2>9 DEF DeleteLookup
  <2>10. ASSUME NEW r \in Requests, ToolStep(r) PROVE Goal'
    <3>1. CASE ToolMarkStopped(r)
      BY <2>1, <3>1 DEF ToolMarkStopped
    <3>2. CASE ToolCountOthers(r)
      <4>1. others' \in [Requests -> BOOLEAN]
        BY <3>2 DEF ToolCountOthers
      <4>2. QED
        BY <2>1, <3>2, <4>1 DEF ToolCountOthers
    <3>3. CASE ToolRemoveContainer(r)
      <4>1. CASE ToolFail(r)
        BY <2>1, <3>3, <4>1 DEF ToolRemoveContainer, ContainerRemoved, RemovedInPart, ToolFail
      <4>2. CASE ToolStopDone(r) /\ deleting[r] = NoLab
        BY <2>1, <3>3, <4>2 DEF ToolRemoveContainer, ContainerRemoved, RemovedInPart, ToolStopDone
      <4>3. CASE ToolStopDone(r) /\ deleting[r] # NoLab
        BY <2>1, <3>3, <4>3 DEF ToolRemoveContainer, ContainerRemoved, RemovedInPart, ToolStopDone
      <4>4. CASE Goto(r, "toolDestroy") /\ UNCHANGED toolVars
        BY <2>1, <3>3, <4>4 DEF ToolRemoveContainer, ContainerRemoved, RemovedInPart
      <4>5. QED
        BY <3>3, <4>1, <4>2, <4>3, <4>4 DEF ToolRemoveContainer, ContainerRemoved, RemovedInPart
    <3>4. CASE ToolDestroyLabNetwork(r)
      <4>1. net' \subseteq Labs
        BY <3>4 DEF ToolDestroyLabNetwork, DestroyNetwork
      <4>2. CASE ToolStopDone(r) /\ deleting[r] = NoLab
        BY <2>1, <3>4, <4>1, <4>2 DEF ToolDestroyLabNetwork, ToolStopDone
      <4>3. CASE ToolStopDone(r) /\ deleting[r] # NoLab
        BY <2>1, <3>4, <4>1, <4>3 DEF ToolDestroyLabNetwork, ToolStopDone
      <4>4. CASE ToolFail(r)
        BY <2>1, <3>4, <4>1, <4>4 DEF ToolDestroyLabNetwork, ToolFail
      <4>5. QED
        BY <3>4, <4>2, <4>3, <4>4 DEF ToolDestroyLabNetwork
    <3>5. CASE DeleteNextNode(r)
      BY <2>1, <3>5 DEF DeleteNextNode
    <3>6. CASE DeleteNodesDone(r)
      BY <2>1, <3>6 DEF DeleteNodesDone
    <3>7. CASE DeleteLabNetwork(r)
      <4>1. net' \subseteq Labs
        BY <3>7 DEF DeleteLabNetwork, DestroyNetwork
      <4>2. CASE Goto(r, "labRows") /\ UNCHANGED toolVars
        BY <2>1, <3>7, <4>1, <4>2 DEF DeleteLabNetwork
      <4>3. CASE ToolFail(r)
        BY <2>1, <3>7, <4>1, <4>3 DEF DeleteLabNetwork, ToolFail
      <4>4. QED
        BY <3>7, <4>2, <4>3 DEF DeleteLabNetwork
    <3>8. CASE DeleteLabRows(r)
      BY <2>1, <3>8 DEF DeleteLabRows, ToolFail
    <3>9. QED
      BY <2>10, <3>1, <3>2, <3>3, <3>4, <3>5, <3>6, <3>7, <3>8 DEF ToolStep
  <2>11. CASE UNCHANGED avars
    BY <2>11 DEF avars, vars
  <2>12. QED
    BY <2>7, <2>8, <2>9, <2>10, <2>11 DEF ToolNext
<1>3. QED
  BY <1>1, <1>2, PTL DEF ToolSpec

----------------------------------------------------------------------------
\* Two requests on one node are noticed by the second one's Begin.
LEMMA SerialStep == ToolTypeOK /\ Slots /\ Serial /\ [ToolNext]_avars => Serial'
<1> SUFFICES ASSUME ToolTypeOK, Slots, Serial, [ToolNext]_avars PROVE Serial'
  OBVIOUS
<1> USE LabOfAssumption, NoNodeAssumption, NoLabAssumption
    DEF ToolTypeOK, Slots, Serial, Busy, Goto, Finish, Begin, SetStatus, NodesOf,
        toolVars, dbVars, dockerVars, history
<1> DEFINE Handler == UNCHANGED <<toolVars, purged>>
<1>1. ASSUME NEW n \in Nodes, Handler, AddNode(n) \/ DeleteNode(n) PROVE Serial'
  BY <1>1 DEF AddNode, DeleteNode
<1>2. ASSUME NEW n \in Nodes, Handler,
             SetRdpConfig(n) \/ StopUnreachable(n) \/ ContainerDies(n)
      PROVE  Serial'
  BY <1>2 DEF SetRdpConfig, StopUnreachable, ContainerDies
<1>3. ASSUME NEW l \in Labs, Handler, DeleteLab(l) PROVE Serial'
  BY <1>3 DEF DeleteLab
<1>4. ASSUME NEW r \in Requests, NEW n \in Nodes, Handler, StartLookup(r, n) \/ StopLookup(r, n)
      PROVE  Serial'
  BY <1>4 DEF StartLookup, StopLookup
<1>5. ASSUME NEW r \in Requests, Handler, StartStep(r) PROVE Serial'
  <2>1. CASE CreateLabNetwork(r)
    BY <1>5, <2>1 DEF CreateLabNetwork, StartFailed
  <2>2. CASE RunContainer(r)
    BY <1>5, <2>2 DEF RunContainer, ContainerStarts, StartFailed
  <2>3. CASE MarkRunning(r)
    BY <1>5, <2>3 DEF MarkRunning
  <2>4. QED
    BY <1>5, <2>1, <2>2, <2>3 DEF StartStep
<1>6. ASSUME NEW r \in Requests, Handler, StopStep(r) PROVE Serial'
  <2>1. CASE RemoveContainer(r)
    BY <1>6, <2>1 DEF RemoveContainer, ContainerRemoved, RemovedInPart
  <2>2. CASE MarkStopped(r)
    BY <1>6, <2>2 DEF MarkStopped
  <2>3. CASE CountOthers(r)
    BY <1>6, <2>3 DEF CountOthers
  <2>4. CASE DestroyLabNetwork(r)
    BY <1>6, <2>4 DEF DestroyLabNetwork, DestroyNetwork
  <2>5. QED
    BY <1>6, <2>1, <2>2, <2>3, <2>4 DEF StopStep
<1>7. ASSUME Crash, UNCHANGED purged, deleting' = [r \in Requests |-> NoLab],
             todo' = [r \in Requests |-> {}], others' = [r \in Requests |-> FALSE]
      PROVE  Serial'
  BY <1>7 DEF Crash
<1>8. ASSUME NEW r \in Requests, NEW n \in Nodes, ToolStartLookup(r, n) \/ ToolStopLookup(r, n)
      PROVE  Serial'
  BY <1>8 DEF ToolStartLookup, ToolStopLookup
<1>9. ASSUME NEW r \in Requests, NEW l \in Labs, DeleteLookup(r, l) PROVE Serial'
  BY <1>9 DEF DeleteLookup
<1>10. ASSUME NEW r \in Requests, ToolStep(r) PROVE Serial'
  <2>1. CASE ToolMarkStopped(r)
    BY <1>10, <2>1 DEF ToolMarkStopped
  <2>2. CASE ToolCountOthers(r)
    BY <1>10, <2>2 DEF ToolCountOthers
  <2>3. CASE ToolRemoveContainer(r)
    BY <1>10, <2>3 DEF ToolRemoveContainer, ContainerRemoved, RemovedInPart, ToolStopDone, ToolFail
  <2>4. CASE ToolDestroyLabNetwork(r)
    BY <1>10, <2>4 DEF ToolDestroyLabNetwork, DestroyNetwork, ToolFail, ToolStopDone
  <2>5. CASE DeleteNextNode(r)
    BY <1>10, <2>5 DEF DeleteNextNode
  <2>6. CASE DeleteNodesDone(r)
    BY <1>10, <2>6 DEF DeleteNodesDone
  <2>7. CASE DeleteLabNetwork(r)
    BY <1>10, <2>7 DEF DeleteLabNetwork, DestroyNetwork, ToolFail
  <2>8. CASE DeleteLabRows(r)
    BY <1>10, <2>8 DEF DeleteLabRows, ToolFail
  <2>9. QED
    BY <1>10, <2>1, <2>2, <2>3, <2>4, <2>5, <2>6, <2>7, <2>8 DEF ToolStep
<1>11. CASE UNCHANGED avars
  BY <1>11 DEF avars, vars
<1>12. QED
  BY <1>1, <1>2, <1>3, <1>4, <1>5, <1>6, <1>7, <1>8, <1>9, <1>10, <1>11
  DEF ToolNext, HttpNext, HandlerNext

\* Only a node's own request moves its row against its container.
LEMMA AtRowStep == ToolTypeOK /\ Slots /\ Serial /\ AtRow /\ [ToolNext]_avars => AtRow'
<1> SUFFICES ASSUME ToolTypeOK, Slots, Serial, AtRow, [ToolNext]_avars PROVE AtRow'
  OBVIOUS
<1> USE LabOfAssumption, NoNodeAssumption, NoLabAssumption
    DEF ToolTypeOK, Slots, Serial, AtRow, HasRow, Busy, Goto, Finish, Begin,
        SetStatus, NodesOf, toolVars, dbVars, dockerVars, history
<1> DEFINE Handler == UNCHANGED <<toolVars, purged>>
<1>1. ASSUME NEW n \in Nodes, Handler, AddNode(n) \/ DeleteNode(n) PROVE AtRow'
  BY <1>1 DEF AddNode, DeleteNode
<1>2. ASSUME NEW n \in Nodes, Handler,
             SetRdpConfig(n) \/ StopUnreachable(n) \/ ContainerDies(n)
      PROVE  AtRow'
  BY <1>2 DEF SetRdpConfig, StopUnreachable, ContainerDies
<1>3. ASSUME NEW l \in Labs, Handler, DeleteLab(l) PROVE AtRow'
  BY <1>3 DEF DeleteLab
<1>4. ASSUME NEW r \in Requests, NEW n \in Nodes, Handler, StartLookup(r, n) \/ StopLookup(r, n)
      PROVE  AtRow'
  BY <1>4 DEF StartLookup, StopLookup
<1>5. ASSUME NEW r \in Requests, Handler, StartStep(r) PROVE AtRow'
  <2>1. CASE CreateLabNetwork(r)
    BY <1>5, <2>1 DEF CreateLabNetwork, StartFailed
  <2>2. CASE RunContainer(r)
    BY <1>5, <2>2 DEF RunContainer, ContainerStarts, StartFailed
  <2>3. CASE MarkRunning(r)
    BY <1>5, <2>3 DEF MarkRunning
  <2>4. QED
    BY <1>5, <2>1, <2>2, <2>3 DEF StartStep
<1>6. ASSUME NEW r \in Requests, Handler, StopStep(r) PROVE AtRow'
  <2>1. CASE RemoveContainer(r)
    BY <1>6, <2>1 DEF RemoveContainer, ContainerRemoved, RemovedInPart
  <2>2. CASE MarkStopped(r)
    BY <1>6, <2>2 DEF MarkStopped
  <2>3. CASE CountOthers(r)
    BY <1>6, <2>3 DEF CountOthers
  <2>4. CASE DestroyLabNetwork(r)
    BY <1>6, <2>4 DEF DestroyLabNetwork, DestroyNetwork
  <2>5. QED
    BY <1>6, <2>1, <2>2, <2>3, <2>4 DEF StopStep
<1>7. ASSUME Crash, UNCHANGED purged, deleting' = [r \in Requests |-> NoLab],
             todo' = [r \in Requests |-> {}], others' = [r \in Requests |-> FALSE]
      PROVE  AtRow'
  BY <1>7 DEF Crash
<1>8. ASSUME NEW r \in Requests, NEW n \in Nodes, ToolStartLookup(r, n) \/ ToolStopLookup(r, n)
      PROVE  AtRow'
  BY <1>8 DEF ToolStartLookup, ToolStopLookup
<1>9. ASSUME NEW r \in Requests, NEW l \in Labs, DeleteLookup(r, l) PROVE AtRow'
  BY <1>9 DEF DeleteLookup
<1>10. ASSUME NEW r \in Requests, ToolStep(r) PROVE AtRow'
  <2>1. CASE ToolMarkStopped(r)
    BY <1>10, <2>1 DEF ToolMarkStopped
  <2>2. CASE ToolCountOthers(r)
    BY <1>10, <2>2 DEF ToolCountOthers
  <2>3. CASE ToolRemoveContainer(r)
    BY <1>10, <2>3 DEF ToolRemoveContainer, ContainerRemoved, RemovedInPart, ToolStopDone, ToolFail
  <2>4. CASE ToolDestroyLabNetwork(r)
    BY <1>10, <2>4 DEF ToolDestroyLabNetwork, DestroyNetwork, ToolFail, ToolStopDone
  <2>5. CASE DeleteNextNode(r)
    BY <1>10, <2>5 DEF DeleteNextNode
  <2>6. CASE DeleteNodesDone(r)
    BY <1>10, <2>6 DEF DeleteNodesDone
  <2>7. CASE DeleteLabNetwork(r)
    BY <1>10, <2>7 DEF DeleteLabNetwork, DestroyNetwork, ToolFail
  <2>8. CASE DeleteLabRows(r)
    BY <1>10, <2>8 DEF DeleteLabRows, ToolFail
  <2>9. QED
    BY <1>10, <2>1, <2>2, <2>3, <2>4, <2>5, <2>6, <2>7, <2>8 DEF ToolStep
<1>11. CASE UNCHANGED avars
  BY <1>11 DEF avars, vars
<1>12. QED
  BY <1>1, <1>2, <1>3, <1>4, <1>5, <1>6, <1>7, <1>8, <1>9, <1>10, <1>11
  DEF ToolNext, HttpNext, HandlerNext

\* A row comes to say running when the container is up, and the container goes when the row
\* says so no more, or is about to.
LEMMA NoPhantomStep ==
    ToolTypeOK /\ Slots /\ Serial /\ AtRow /\ NoPhantomRow /\ [ToolNext]_avars => NoPhantomRow'
<1> SUFFICES ASSUME ToolTypeOK, Slots, Serial, AtRow, NoPhantomRow, [ToolNext]_avars
             PROVE  NoPhantomRow'
  OBVIOUS
<1> USE LabOfAssumption, NoNodeAssumption, NoLabAssumption
    DEF ToolTypeOK, Slots, Serial, AtRow, NoPhantomRow, HasRow, Busy, Goto, Finish,
        Begin, SetStatus, NodesOf, toolVars, dbVars, dockerVars, history
<1> DEFINE Handler == UNCHANGED <<toolVars, purged>>
<1>1. ASSUME NEW n \in Nodes, Handler, AddNode(n) \/ DeleteNode(n) PROVE NoPhantomRow'
  BY <1>1 DEF AddNode, DeleteNode
<1>2. ASSUME NEW n \in Nodes, Handler,
             SetRdpConfig(n) \/ StopUnreachable(n) \/ ContainerDies(n)
      PROVE  NoPhantomRow'
  BY <1>2 DEF SetRdpConfig, StopUnreachable, ContainerDies
<1>3. ASSUME NEW l \in Labs, Handler, DeleteLab(l) PROVE NoPhantomRow'
  BY <1>3 DEF DeleteLab
<1>4. ASSUME NEW r \in Requests, NEW n \in Nodes, Handler, StartLookup(r, n) \/ StopLookup(r, n)
      PROVE  NoPhantomRow'
  BY <1>4 DEF StartLookup, StopLookup
<1>5. ASSUME NEW r \in Requests, Handler, StartStep(r) PROVE NoPhantomRow'
  <2>1. CASE CreateLabNetwork(r)
    BY <1>5, <2>1 DEF CreateLabNetwork, StartFailed
  <2>2. CASE RunContainer(r)
    BY <1>5, <2>2 DEF RunContainer, ContainerStarts, StartFailed
  <2>3. CASE MarkRunning(r)
    BY <1>5, <2>3 DEF MarkRunning
  <2>4. QED
    BY <1>5, <2>1, <2>2, <2>3 DEF StartStep
<1>6. ASSUME NEW r \in Requests, Handler, StopStep(r) PROVE NoPhantomRow'
  <2>1. CASE RemoveContainer(r)
    BY <1>6, <2>1 DEF RemoveContainer, ContainerRemoved, RemovedInPart
  <2>2. CASE MarkStopped(r)
    BY <1>6, <2>2 DEF MarkStopped
  <2>3. CASE CountOthers(r)
    BY <1>6, <2>3 DEF CountOthers
  <2>4. CASE DestroyLabNetwork(r)
    BY <1>6, <2>4 DEF DestroyLabNetwork, DestroyNetwork
  <2>5. QED
    BY <1>6, <2>1, <2>2, <2>3, <2>4 DEF StopStep
<1>7. ASSUME Crash, UNCHANGED purged, deleting' = [r \in Requests |-> NoLab],
             todo' = [r \in Requests |-> {}], others' = [r \in Requests |-> FALSE]
      PROVE  NoPhantomRow'
  BY <1>7 DEF Crash
<1>8. ASSUME NEW r \in Requests, NEW n \in Nodes, ToolStartLookup(r, n) \/ ToolStopLookup(r, n)
      PROVE  NoPhantomRow'
  BY <1>8 DEF ToolStartLookup, ToolStopLookup
<1>9. ASSUME NEW r \in Requests, NEW l \in Labs, DeleteLookup(r, l) PROVE NoPhantomRow'
  BY <1>9 DEF DeleteLookup
<1>10. ASSUME NEW r \in Requests, ToolStep(r) PROVE NoPhantomRow'
  <2>1. CASE ToolMarkStopped(r)
    BY <1>10, <2>1 DEF ToolMarkStopped
  <2>2. CASE ToolCountOthers(r)
    BY <1>10, <2>2 DEF ToolCountOthers
  <2>3. CASE ToolRemoveContainer(r)
    BY <1>10, <2>3 DEF ToolRemoveContainer, ContainerRemoved, RemovedInPart, ToolStopDone, ToolFail
  <2>4. CASE ToolDestroyLabNetwork(r)
    BY <1>10, <2>4 DEF ToolDestroyLabNetwork, DestroyNetwork, ToolFail, ToolStopDone
  <2>5. CASE DeleteNextNode(r)
    BY <1>10, <2>5 DEF DeleteNextNode
  <2>6. CASE DeleteNodesDone(r)
    BY <1>10, <2>6 DEF DeleteNodesDone
  <2>7. CASE DeleteLabNetwork(r)
    BY <1>10, <2>7 DEF DeleteLabNetwork, DestroyNetwork, ToolFail
  <2>8. CASE DeleteLabRows(r)
    BY <1>10, <2>8 DEF DeleteLabRows, ToolFail
  <2>9. QED
    BY <1>10, <2>1, <2>2, <2>3, <2>4, <2>5, <2>6, <2>7, <2>8 DEF ToolStep
<1>11. CASE UNCHANGED avars
  BY <1>11 DEF avars, vars
<1>12. QED
  BY <1>1, <1>2, <1>3, <1>4, <1>5, <1>6, <1>7, <1>8, <1>9, <1>10, <1>11
  DEF ToolNext, HttpNext, HandlerNext

----------------------------------------------------------------------------
\* Every step that makes a container or is about a node has found its row.
LEMMA UnbornStep == ToolTypeOK /\ Slots /\ Unborn /\ [ToolNext]_avars => Unborn'
<1> SUFFICES ASSUME ToolTypeOK, Slots, Unborn, [ToolNext]_avars PROVE Unborn'
  OBVIOUS
<1> USE LabOfAssumption, NoNodeAssumption, NoLabAssumption
    DEF ToolTypeOK, Slots, Unborn, HasRow, Busy, Lab, Goto, Finish, Begin,
        SetStatus, NodesOf, StartSteps, StopSteps, ToolSteps, DeleteSteps, toolVars, dbVars, dockerVars, history
<1> DEFINE Handler == UNCHANGED <<toolVars, purged>>
<1>1. ASSUME NEW n \in Nodes, Handler, AddNode(n) \/ DeleteNode(n) PROVE Unborn'
  BY <1>1 DEF AddNode, DeleteNode
<1>2. ASSUME NEW n \in Nodes, Handler,
             SetRdpConfig(n) \/ StopUnreachable(n) \/ ContainerDies(n)
      PROVE  Unborn'
  BY <1>2 DEF SetRdpConfig, StopUnreachable, ContainerDies
<1>3. ASSUME NEW l \in Labs, Handler, DeleteLab(l) PROVE Unborn'
  BY <1>3 DEF DeleteLab
<1>4. ASSUME NEW r \in Requests, NEW n \in Nodes, Handler, StartLookup(r, n) \/ StopLookup(r, n)
      PROVE  Unborn'
  BY <1>4 DEF StartLookup, StopLookup
<1>5. ASSUME NEW r \in Requests, Handler, StartStep(r) PROVE Unborn'
  <2>1. CASE CreateLabNetwork(r)
    BY <1>5, <2>1 DEF CreateLabNetwork, StartFailed
  <2>2. CASE RunContainer(r)
    BY <1>5, <2>2 DEF RunContainer, ContainerStarts, StartFailed
  <2>3. CASE MarkRunning(r)
    BY <1>5, <2>3 DEF MarkRunning
  <2>4. QED
    BY <1>5, <2>1, <2>2, <2>3 DEF StartStep
<1>6. ASSUME NEW r \in Requests, Handler, StopStep(r) PROVE Unborn'
  <2>1. CASE RemoveContainer(r)
    BY <1>6, <2>1 DEF RemoveContainer, ContainerRemoved, RemovedInPart
  <2>2. CASE MarkStopped(r)
    BY <1>6, <2>2 DEF MarkStopped
  <2>3. CASE CountOthers(r)
    BY <1>6, <2>3 DEF CountOthers
  <2>4. CASE DestroyLabNetwork(r)
    BY <1>6, <2>4 DEF DestroyLabNetwork, DestroyNetwork
  <2>5. QED
    BY <1>6, <2>1, <2>2, <2>3, <2>4 DEF StopStep
<1>7. ASSUME Crash, UNCHANGED purged, deleting' = [r \in Requests |-> NoLab],
             todo' = [r \in Requests |-> {}], others' = [r \in Requests |-> FALSE]
      PROVE  Unborn'
  BY <1>7 DEF Crash
<1>8. ASSUME NEW r \in Requests, NEW n \in Nodes, ToolStartLookup(r, n) \/ ToolStopLookup(r, n)
      PROVE  Unborn'
  BY <1>8 DEF ToolStartLookup, ToolStopLookup
<1>9. ASSUME NEW r \in Requests, NEW l \in Labs, DeleteLookup(r, l) PROVE Unborn'
  BY <1>9 DEF DeleteLookup
<1>10. ASSUME NEW r \in Requests, ToolStep(r) PROVE Unborn'
  <2>1. CASE ToolMarkStopped(r)
    BY <1>10, <2>1 DEF ToolMarkStopped
  <2>2. CASE ToolCountOthers(r)
    BY <1>10, <2>2 DEF ToolCountOthers
  <2>3. CASE ToolRemoveContainer(r)
    BY <1>10, <2>3 DEF ToolRemoveContainer, ContainerRemoved, RemovedInPart, ToolStopDone, ToolFail
  <2>4. CASE ToolDestroyLabNetwork(r)
    BY <1>10, <2>4 DEF ToolDestroyLabNetwork, DestroyNetwork, ToolFail, ToolStopDone
  <2>5. CASE DeleteNextNode(r)
    BY <1>10, <2>5 DEF DeleteNextNode
  <2>6. CASE DeleteNodesDone(r)
    BY <1>10, <2>6 DEF DeleteNodesDone
  <2>7. CASE DeleteLabNetwork(r)
    BY <1>10, <2>7 DEF DeleteLabNetwork, DestroyNetwork, ToolFail
  <2>8. CASE DeleteLabRows(r)
    BY <1>10, <2>8 DEF DeleteLabRows, ToolFail
  <2>9. QED
    BY <1>10, <2>1, <2>2, <2>3, <2>4, <2>5, <2>6, <2>7, <2>8 DEF ToolStep
<1>11. CASE UNCHANGED avars
  BY <1>11 DEF avars, vars
<1>12. QED
  BY <1>1, <1>2, <1>3, <1>4, <1>5, <1>6, <1>7, <1>8, <1>9, <1>10, <1>11
  DEF ToolNext, HttpNext, HandlerNext

\* Rows are deleted by the handlers, with an excuse, and by delete_lab_rows.
LEMMA GoneStep == ToolTypeOK /\ Slots /\ Gone /\ [ToolNext]_avars => Gone'
<1> SUFFICES ASSUME ToolTypeOK, Slots, Gone, [ToolNext]_avars PROVE Gone'
  OBVIOUS
<1> USE LabOfAssumption, NoNodeAssumption, NoLabAssumption
    DEF ToolTypeOK, Slots, Gone, HasRow, Busy, Goto, Finish, Begin,
        SetStatus, NodesOf, DeleteSteps, toolVars, dbVars, dockerVars, history
<1> DEFINE Handler == UNCHANGED <<toolVars, purged>>
<1>1. ASSUME NEW n \in Nodes, Handler, AddNode(n) \/ DeleteNode(n) PROVE Gone'
  BY <1>1 DEF AddNode, DeleteNode
<1>2. ASSUME NEW n \in Nodes, Handler,
             SetRdpConfig(n) \/ StopUnreachable(n) \/ ContainerDies(n)
      PROVE  Gone'
  BY <1>2 DEF SetRdpConfig, StopUnreachable, ContainerDies
<1>3. ASSUME NEW l \in Labs, Handler, DeleteLab(l) PROVE Gone'
  BY <1>3 DEF DeleteLab
<1>4. ASSUME NEW r \in Requests, NEW n \in Nodes, Handler, StartLookup(r, n) \/ StopLookup(r, n)
      PROVE  Gone'
  BY <1>4 DEF StartLookup, StopLookup
<1>5. ASSUME NEW r \in Requests, Handler, StartStep(r) PROVE Gone'
  <2>1. CASE CreateLabNetwork(r)
    BY <1>5, <2>1 DEF CreateLabNetwork, StartFailed
  <2>2. CASE RunContainer(r)
    BY <1>5, <2>2 DEF RunContainer, ContainerStarts, StartFailed
  <2>3. CASE MarkRunning(r)
    BY <1>5, <2>3 DEF MarkRunning
  <2>4. QED
    BY <1>5, <2>1, <2>2, <2>3 DEF StartStep
<1>6. ASSUME NEW r \in Requests, Handler, StopStep(r) PROVE Gone'
  <2>1. CASE RemoveContainer(r)
    BY <1>6, <2>1 DEF RemoveContainer, ContainerRemoved, RemovedInPart
  <2>2. CASE MarkStopped(r)
    BY <1>6, <2>2 DEF MarkStopped
  <2>3. CASE CountOthers(r)
    BY <1>6, <2>3 DEF CountOthers
  <2>4. CASE DestroyLabNetwork(r)
    BY <1>6, <2>4 DEF DestroyLabNetwork, DestroyNetwork
  <2>5. QED
    BY <1>6, <2>1, <2>2, <2>3, <2>4 DEF StopStep
<1>7. ASSUME Crash, UNCHANGED purged, deleting' = [r \in Requests |-> NoLab],
             todo' = [r \in Requests |-> {}], others' = [r \in Requests |-> FALSE]
      PROVE  Gone'
  BY <1>7 DEF Crash
<1>8. ASSUME NEW r \in Requests, NEW n \in Nodes, ToolStartLookup(r, n) \/ ToolStopLookup(r, n)
      PROVE  Gone'
  BY <1>8 DEF ToolStartLookup, ToolStopLookup
<1>9. ASSUME NEW r \in Requests, NEW l \in Labs, DeleteLookup(r, l) PROVE Gone'
  BY <1>9 DEF DeleteLookup
<1>10. ASSUME NEW r \in Requests, ToolStep(r) PROVE Gone'
  <2>1. CASE ToolMarkStopped(r)
    BY <1>10, <2>1 DEF ToolMarkStopped
  <2>2. CASE ToolCountOthers(r)
    BY <1>10, <2>2 DEF ToolCountOthers
  <2>3. CASE ToolRemoveContainer(r)
    BY <1>10, <2>3 DEF ToolRemoveContainer, ContainerRemoved, RemovedInPart, ToolStopDone, ToolFail
  <2>4. CASE ToolDestroyLabNetwork(r)
    BY <1>10, <2>4 DEF ToolDestroyLabNetwork, DestroyNetwork, ToolFail, ToolStopDone
  <2>5. CASE DeleteNextNode(r)
    BY <1>10, <2>5 DEF DeleteNextNode
  <2>6. CASE DeleteNodesDone(r)
    BY <1>10, <2>6 DEF DeleteNodesDone
  <2>7. CASE DeleteLabNetwork(r)
    BY <1>10, <2>7 DEF DeleteLabNetwork, DestroyNetwork, ToolFail
  <2>8. CASE DeleteLabRows(r)
    BY <1>10, <2>8 DEF DeleteLabRows, ToolFail
  <2>9. QED
    BY <1>10, <2>1, <2>2, <2>3, <2>4, <2>5, <2>6, <2>7, <2>8 DEF ToolStep
<1>11. CASE UNCHANGED avars
  BY <1>11 DEF avars, vars
<1>12. QED
  BY <1>1, <1>2, <1>3, <1>4, <1>5, <1>6, <1>7, <1>8, <1>9, <1>10, <1>11
  DEF ToolNext, HttpNext, HandlerNext

\* Company is noted in the step that brings it.
LEMMA NotedStep == Noted /\ [ToolNext]_avars => Noted' /\ contended \subseteq contended'
<1>1. ASSUME ToolNext PROVE Noted' /\ contended \subseteq contended'
  BY <1>1 DEF ToolNext, NoteContention, Noted
<1>2. ASSUME Noted, UNCHANGED avars PROVE Noted' /\ contended \subseteq contended'
  BY <1>2 DEF Noted, InFlightOn, Lab, avars, vars, toolVars
<1>3. QED
  BY <1>1, <1>2

\* Nobody but a delete_lab itself touches the nodes of a lab it has to itself.
LEMMA SweepingStep ==
    ToolTypeOK /\ Slots /\ Unborn /\ Gone /\ Noted /\ Sweeping /\ [ToolNext]_avars => Sweeping'
<1> SUFFICES ASSUME ToolTypeOK, Slots, Unborn, Gone, Noted, Sweeping, [ToolNext]_avars
             PROVE  Sweeping'
  OBVIOUS
<1> USE LabOfAssumption, NoNodeAssumption, NoLabAssumption
    DEF ToolTypeOK, Slots, Unborn, Gone, Noted, InFlightOn, Sweeping, Handled, NetworkGone, Attached,
        HasRow, Busy, Lab, Goto, Finish, Begin, SetStatus, NodesOf, StartSteps, StopSteps, ToolSteps,
        DeleteSteps, toolVars, dbVars, dockerVars, history
<1> DEFINE Handler == UNCHANGED <<toolVars, purged>>
<1>0. Noted' /\ contended \subseteq contended'
  BY NotedStep
<1> USE <1>0
<1>1. ASSUME NEW n \in Nodes, Handler, AddNode(n) \/ DeleteNode(n) PROVE Sweeping'
  BY <1>1 DEF AddNode, DeleteNode
<1>2. ASSUME NEW n \in Nodes, Handler,
             SetRdpConfig(n) \/ StopUnreachable(n) \/ ContainerDies(n)
      PROVE  Sweeping'
  BY <1>2 DEF SetRdpConfig, StopUnreachable, ContainerDies
<1>3. ASSUME NEW l \in Labs, Handler, DeleteLab(l) PROVE Sweeping'
  BY <1>3 DEF DeleteLab
<1>4. ASSUME NEW r \in Requests, NEW n \in Nodes, Handler, StartLookup(r, n) \/ StopLookup(r, n)
      PROVE  Sweeping'
  BY <1>4 DEF StartLookup, StopLookup
<1>5. ASSUME NEW r \in Requests, Handler, StartStep(r) PROVE Sweeping'
  <2>1. CASE CreateLabNetwork(r)
    BY <1>5, <2>1 DEF CreateLabNetwork, StartFailed
  <2>2. CASE RunContainer(r)
    BY <1>5, <2>2 DEF RunContainer, ContainerStarts, StartFailed
  <2>3. CASE MarkRunning(r)
    BY <1>5, <2>3 DEF MarkRunning
  <2>4. QED
    BY <1>5, <2>1, <2>2, <2>3 DEF StartStep
<1>6. ASSUME NEW r \in Requests, Handler, StopStep(r) PROVE Sweeping'
  <2>1. CASE RemoveContainer(r)
    BY <1>6, <2>1 DEF RemoveContainer, ContainerRemoved, RemovedInPart
  <2>2. CASE MarkStopped(r)
    BY <1>6, <2>2 DEF MarkStopped
  <2>3. CASE CountOthers(r)
    BY <1>6, <2>3 DEF CountOthers
  <2>4. CASE DestroyLabNetwork(r)
    BY <1>6, <2>4 DEF DestroyLabNetwork, DestroyNetwork
  <2>5. QED
    BY <1>6, <2>1, <2>2, <2>3, <2>4 DEF StopStep
<1>7. ASSUME Crash, UNCHANGED purged, deleting' = [r \in Requests |-> NoLab],
             todo' = [r \in Requests |-> {}], others' = [r \in Requests |-> FALSE]
      PROVE  Sweeping'
  BY <1>7 DEF Crash
<1>8. ASSUME NEW r \in Requests, NEW n \in Nodes, ToolStartLookup(r, n) \/ ToolStopLookup(r, n)
      PROVE  Sweeping'
  BY <1>8 DEF ToolStartLookup, ToolStopLookup
<1>9. ASSUME NEW r \in Requests, NEW l \in Labs, DeleteLookup(r, l) PROVE Sweeping'
  BY <1>9 DEF DeleteLookup
<1>10. ASSUME NEW r \in Requests, ToolStep(r) PROVE Sweeping'
  <2>1. CASE ToolMarkStopped(r)
    BY <1>10, <2>1 DEF ToolMarkStopped
  <2>2. CASE ToolCountOthers(r)
    BY <1>10, <2>2 DEF ToolCountOthers
  <2>3. CASE ToolRemoveContainer(r)
    BY <1>10, <2>3 DEF ToolRemoveContainer, ContainerRemoved, RemovedInPart, ToolStopDone, ToolFail
  <2>4. CASE ToolDestroyLabNetwork(r)
    BY <1>10, <2>4 DEF ToolDestroyLabNetwork, DestroyNetwork, ToolFail, ToolStopDone
  <2>5. CASE DeleteNextNode(r)
    BY <1>10, <2>5 DEF DeleteNextNode
  <2>6. CASE DeleteNodesDone(r)
    BY <1>10, <2>6 DEF DeleteNodesDone
  <2>7. CASE DeleteLabNetwork(r)
    BY <1>10, <2>7 DEF DeleteLabNetwork, DestroyNetwork, ToolFail
  <2>8. CASE DeleteLabRows(r)
    BY <1>10, <2>8 DEF DeleteLabRows, ToolFail
  <2>9. QED
    BY <1>10, <2>1, <2>2, <2>3, <2>4, <2>5, <2>6, <2>7, <2>8 DEF ToolStep
<1>11. CASE UNCHANGED avars
  BY <1>11 DEF avars, vars
<1>12. QED
  BY <1>1, <1>2, <1>3, <1>4, <1>5, <1>6, <1>7, <1>8, <1>9, <1>10, <1>11
  DEF ToolNext, HttpNext, HandlerNext

\* And when its rows are gone, nobody can begin anything on it.
LEMMA SweptStep ==
    ToolTypeOK /\ Slots /\ Unborn /\ Gone /\ Noted /\ Sweeping /\ Swept /\ [ToolNext]_avars
        => Swept'
<1> SUFFICES ASSUME ToolTypeOK, Slots, Unborn, Gone, Noted, Sweeping, Swept, [ToolNext]_avars
             PROVE  Swept'
  OBVIOUS
<1> USE LabOfAssumption, NoNodeAssumption, NoLabAssumption
    DEF ToolTypeOK, Slots, Unborn, Gone, Noted, InFlightOn, Sweeping, Swept, Handled, NetworkGone, Attached,
        HasRow, Busy, Lab, Goto, Finish, Begin, SetStatus, NodesOf, StartSteps, StopSteps, ToolSteps,
        DeleteSteps, toolVars, dbVars, dockerVars, history
<1> DEFINE Handler == UNCHANGED <<toolVars, purged>>
<1>0. Noted' /\ contended \subseteq contended'
  BY NotedStep
<1> USE <1>0
<1>1. ASSUME NEW n \in Nodes, Handler, AddNode(n) \/ DeleteNode(n) PROVE Swept'
  BY <1>1 DEF AddNode, DeleteNode
<1>2. ASSUME NEW n \in Nodes, Handler,
             SetRdpConfig(n) \/ StopUnreachable(n) \/ ContainerDies(n)
      PROVE  Swept'
  BY <1>2 DEF SetRdpConfig, StopUnreachable, ContainerDies
<1>3. ASSUME NEW l \in Labs, Handler, DeleteLab(l) PROVE Swept'
  BY <1>3 DEF DeleteLab
<1>4. ASSUME NEW r \in Requests, NEW n \in Nodes, Handler, StartLookup(r, n) \/ StopLookup(r, n)
      PROVE  Swept'
  BY <1>4 DEF StartLookup, StopLookup
<1>5. ASSUME NEW r \in Requests, Handler, StartStep(r) PROVE Swept'
  <2>1. CASE CreateLabNetwork(r)
    BY <1>5, <2>1 DEF CreateLabNetwork, StartFailed
  <2>2. CASE RunContainer(r)
    BY <1>5, <2>2 DEF RunContainer, ContainerStarts, StartFailed
  <2>3. CASE MarkRunning(r)
    BY <1>5, <2>3 DEF MarkRunning
  <2>4. QED
    BY <1>5, <2>1, <2>2, <2>3 DEF StartStep
<1>6. ASSUME NEW r \in Requests, Handler, StopStep(r) PROVE Swept'
  <2>1. CASE RemoveContainer(r)
    BY <1>6, <2>1 DEF RemoveContainer, ContainerRemoved, RemovedInPart
  <2>2. CASE MarkStopped(r)
    BY <1>6, <2>2 DEF MarkStopped
  <2>3. CASE CountOthers(r)
    BY <1>6, <2>3 DEF CountOthers
  <2>4. CASE DestroyLabNetwork(r)
    BY <1>6, <2>4 DEF DestroyLabNetwork, DestroyNetwork
  <2>5. QED
    BY <1>6, <2>1, <2>2, <2>3, <2>4 DEF StopStep
<1>7. ASSUME Crash, UNCHANGED purged, deleting' = [r \in Requests |-> NoLab],
             todo' = [r \in Requests |-> {}], others' = [r \in Requests |-> FALSE]
      PROVE  Swept'
  BY <1>7 DEF Crash
<1>8. ASSUME NEW r \in Requests, NEW n \in Nodes, ToolStartLookup(r, n) \/ ToolStopLookup(r, n)
      PROVE  Swept'
  BY <1>8 DEF ToolStartLookup, ToolStopLookup
<1>9. ASSUME NEW r \in Requests, NEW l \in Labs, DeleteLookup(r, l) PROVE Swept'
  BY <1>9 DEF DeleteLookup
<1>10. ASSUME NEW r \in Requests, ToolStep(r) PROVE Swept'
  <2>1. CASE ToolMarkStopped(r)
    BY <1>10, <2>1 DEF ToolMarkStopped
  <2>2. CASE ToolCountOthers(r)
    BY <1>10, <2>2 DEF ToolCountOthers
  <2>3. CASE ToolRemoveContainer(r)
    BY <1>10, <2>3 DEF ToolRemoveContainer, ContainerRemoved, RemovedInPart, ToolStopDone, ToolFail
  <2>4. CASE ToolDestroyLabNetwork(r)
    BY <1>10, <2>4 DEF ToolDestroyLabNetwork, DestroyNetwork, ToolFail, ToolStopDone
  <2>5. CASE DeleteNextNode(r)
    BY <1>10, <2>5 DEF DeleteNextNode
  <2>6. CASE DeleteNodesDone(r)
    BY <1>10, <2>6 DEF DeleteNodesDone
  <2>7. CASE DeleteLabNetwork(r)
    BY <1>10, <2>7 DEF DeleteLabNetwork, DestroyNetwork, ToolFail
  <2>8. CASE DeleteLabRows(r)
    BY <1>10, <2>8 DEF DeleteLabRows, ToolFail
  <2>9. QED
    BY <1>10, <2>1, <2>2, <2>3, <2>4, <2>5, <2>6, <2>7, <2>8 DEF ToolStep
<1>11. CASE UNCHANGED avars
  BY <1>11 DEF avars, vars
<1>12. QED
  BY <1>1, <1>2, <1>3, <1>4, <1>5, <1>6, <1>7, <1>8, <1>9, <1>10, <1>11
  DEF ToolNext, HttpNext, HandlerNext

----------------------------------------------------------------------------
LEMMA Initially == ToolInit => Serial /\ AtRow /\ NoPhantomRow /\ SweepInv
BY NoNodeAssumption, NoLabAssumption
DEF ToolInit, Init, Serial, AtRow, NoPhantomRow, SweepInv, Unborn, Busy, Gone, Noted, InFlightOn,
    Sweeping, Swept

\* The inductive invariants.
THEOREM ToolInvariantHolds == ToolSpec => []IInv
<1>1. ToolInit => Serial /\ AtRow /\ NoPhantomRow
  BY Initially
<1>2. (ToolTypeOK /\ Slots) /\ (Serial /\ AtRow /\ NoPhantomRow) /\ [ToolNext]_avars
        => (Serial /\ AtRow /\ NoPhantomRow)'
  BY SerialStep, AtRowStep, NoPhantomStep
<1>3. QED
  BY <1>1, <1>2, ToolTypeCorrect, PTL DEF ToolSpec, IInv

LEMMA SweepInvariantHolds == ToolSpec => []SweepInv
<1>1. ToolInit => SweepInv
  BY Initially
<1>2. (ToolTypeOK /\ Slots) /\ SweepInv /\ [ToolNext]_avars => SweepInv'
  <2>1. SUFFICES ASSUME ToolTypeOK, Slots, SweepInv, [ToolNext]_avars PROVE SweepInv'
    OBVIOUS
  <2>2. Unborn' /\ Gone'
    BY <2>1, UnbornStep, GoneStep DEF SweepInv
  <2>3. Noted'
    BY <2>1, NotedStep DEF SweepInv
  <2>4. Sweeping' /\ Swept'
    BY <2>1, SweepingStep, SweptStep DEF SweepInv
  <2>5. QED
    BY <2>2, <2>3, <2>4 DEF SweepInv
<1>3. QED
  BY <1>1, <1>2, ToolTypeCorrect, PTL DEF ToolSpec

----------------------------------------------------------------------------
\* agent_tools.py and nodes.py write the row and the container in opposite orders.  Still, a
\* node whose requests never overlapped and that no fault hit has no row that says running
\* over a container that is not.
THEOREM ToolNoPhantom == ToolSpec => []NoPhantomRow
<1>1. IInv => NoPhantomRow
  BY DEF IInv
<1>2. QED
  BY <1>1, ToolInvariantHolds, PTL

\* A delete_lab that had its lab to itself leaves no container and no unused network of it,
\* whatever is done to other labs meanwhile, and to this one before or after.
THEOREM ToolSweeps == ToolSpec => []DeleteLabSweeps
<1>1. SweepInv => DeleteLabSweeps
  BY DEF SweepInv, Swept, NetworkGone, DeleteLabSweeps
<1>2. QED
  BY <1>1, SweepInvariantHolds, PTL
=============================================================================
