----------------------------- MODULE AgentTools -----------------------------
(***************************************************************************)
(* The lifecycle tools of the AI lab builder (backend/services/agent_tools *)
(* .py over SqliteRepo of backend/api/agent.py) running beside the HTTP    *)
(* handlers of NodeLifecycle on the same rows and the same Docker daemon.  *)
(* A tool is synchronous code in a worker thread and every repo call is a  *)
(* transaction of its own, so its steps interleave with everything else.   *)
(* It differs from the handler of the same name in what it checks and in   *)
(* the order of its writes: start_node returns at once for a row that says *)
(* running, stop_node writes the row before it removes the container.      *)
(***************************************************************************)
EXTENDS NodeLifecycle

CONSTANT NoLab      \* not inside a delete_lab

ASSUME NoLabAssumption == NoLab \notin Labs

VARIABLES
    deleting,   \* the lab each request's delete_lab works on
    todo,       \* lab_node_ids still to stop, read once at the start
    others,     \* others_running, counted before the container is removed
    purged,     \* history: labs a delete_lab ran to its end on
    contended   \* history: labs with another request in flight during a delete_lab

toolVars == <<deleting, todo, others>>
avars == <<vars, toolVars, purged, contended>>

ToolSteps == {"toolMark", "toolCount", "toolRemove", "toolDestroy"}
DeleteSteps == {"nextNode", "labNetwork", "labRows"}

ToolTypeOK ==
    /\ row \in [Nodes -> {"unborn", "stopped", "running", "gone"}]
    /\ cont \in [Nodes -> {"absent", "dead", "up"}]
    /\ labs \subseteq Labs
    /\ net \subseteq Labs
    /\ at \in [Requests ->
                {"idle"} \union StartSteps \union StopSteps \union ToolSteps \union DeleteSteps]
    /\ target \in [Requests -> Nodes \union {NoNode}]
    /\ deleting \in [Requests -> Labs \union {NoLab}]
    /\ todo \in [Requests -> SUBSET Nodes]
    /\ others \in [Requests -> BOOLEAN]
    /\ \A r \in Requests : at[r] \in DeleteSteps => deleting[r] # NoLab /\ target[r] = NoNode
    /\ purged \subseteq Labs
    /\ contended \subseteq Labs

ToolInit ==
    /\ Init
    /\ deleting = [r \in Requests |-> NoLab]
    /\ todo = [r \in Requests |-> {}]
    /\ others = [r \in Requests |-> FALSE]
    /\ purged = {}
    /\ contended = {}

InFlightOn(r, l) == deleting[r] = l \/ (target[r] # NoNode /\ Lab(r) = l)

\* A history: the labs on which a delete_lab has company after this step.
NoteContention ==
    contended' = contended \union
        {l \in Labs : \E r, q \in Requests : r # q /\ deleting'[r] = l /\ InFlightOn(q, l)'}

----------------------------------------------------------------------------
(* start_node and stop_node.                                               *)

\* A running row is answered without a side effect; otherwise the provisioner calls are
\* docker_start_sequence and the row follows, as in the HTTP handler.
ToolStartLookup(r, n) ==
    /\ at[r] = "idle"
    /\ row[n] = "stopped"
    /\ Begin(r, n, "network")
    /\ prov' = TRUE
    /\ UNCHANGED <<dbVars, dockerVars, leaky, halfway, toolVars, purged>>

ToolStopLookup(r, n) ==
    /\ at[r] = "idle"
    /\ HasRow(n)
    /\ Begin(r, n, "toolMark")
    /\ prov' = TRUE
    /\ UNCHANGED <<dbVars, dockerVars, leaky, halfway, toolVars, purged>>

\* Mutant of ToolMarkStopped: the update is lost.
ToolMarkLost(r) ==
    /\ at[r] = "toolMark"
    /\ Goto(r, "toolCount")
    /\ UNCHANGED <<dbVars, dockerVars, prov, history, toolVars, purged>>

ToolMarkStopped(r) ==
    /\ at[r] = "toolMark"
    /\ SetStatus(target[r], "stopped")
    /\ Goto(r, "toolCount")
    /\ UNCHANGED <<labs, dockerVars, prov, history, toolVars, purged>>

\* running_docker_nodes_in_lab(lab_id, exclude_node_id): evaluated before the stop sequence.
ToolCountOthers(r) ==
    /\ at[r] = "toolCount"
    /\ others' = [others EXCEPT ![r] =
                    \E m \in NodesOf(Lab(r)) \ {target[r]} : row[m] = "running"]
    /\ Goto(r, "toolRemove")
    /\ UNCHANGED <<dbVars, dockerVars, prov, history, deleting, todo, purged>>

\* stop_node is over: delete_lab goes on to its next node, a plain call returns.
ToolStopDone(r) ==
    /\ at' = [at EXCEPT ![r] = IF deleting[r] = NoLab THEN "idle" ELSE "nextNode"]
    /\ target' = [target EXCEPT ![r] = NoNode]
    /\ others' = [others EXCEPT ![r] = FALSE]
    /\ UNCHANGED <<deleting, todo>>

\* A Docker error is no AILBError: it leaves delete_lab too, with the rows still there.
ToolFail(r) ==
    /\ Finish(r)
    /\ others' = [others EXCEPT ![r] = FALSE]
    /\ deleting' = [deleting EXCEPT ![r] = NoLab]
    /\ todo' = [todo EXCEPT ![r] = {}]

\* docker_stop_sequence, first half.  When it fails the row says stopped already, whatever
\* docker rm -f did to the container.
ToolRemoveContainer(r) ==
    /\ at[r] = "toolRemove"
    /\ \/ /\ ContainerRemoved(target[r])
          /\ IF others[r]
             THEN ToolStopDone(r)
             ELSE Goto(r, "toolDestroy") /\ UNCHANGED toolVars
          /\ UNCHANGED leaky
       \/ /\ RemovedInPart(target[r]) \/ UNCHANGED <<cont, halfway>>
          /\ leaky' = leaky \union {Lab(r)}
          /\ ToolFail(r)
    /\ UNCHANGED <<dbVars, net, prov, excused, purged>>

\* docker_stop_sequence, second half: only if no other node was running when counted.  A
\* DockerProvisionerError (of network.remove) is swallowed, an error of networks.get is not.
ToolDestroyLabNetwork(r) ==
    /\ at[r] = "toolDestroy"
    /\ DestroyNetwork(Lab(r))
    /\ ToolStopDone(r) \/ ToolFail(r)
    /\ UNCHANGED <<dbVars, cont, prov, excused, halfway, purged>>

----------------------------------------------------------------------------
(* delete_lab: stop every node, remove the network, delete the rows.       *)

DeleteLookup(r, l) ==
    /\ at[r] = "idle"
    /\ l \in labs
    /\ deleting' = [deleting EXCEPT ![r] = l]
    /\ todo' = [todo EXCEPT ![r] = {n \in NodesOf(l) : HasRow(n)}]
    /\ Goto(r, "nextNode")
    /\ UNCHANGED <<dbVars, dockerVars, prov, history, others, purged>>

\* The loop body is stop_node(repo, nid): NOT_FOUND is swallowed, an unreachable daemon
\* flips the row and goes on.
DeleteNextNode(r) ==
    /\ at[r] = "nextNode"
    /\ \E n \in todo[r] :
        /\ todo' = [todo EXCEPT ![r] = @ \ {n}]
        /\ \/ /\ HasRow(n)
              /\ Begin(r, n, "toolMark")
              /\ prov' = TRUE
              /\ UNCHANGED <<row, leaky, halfway>>
           \/ /\ HasRow(n) /\ ~prov
              /\ SetStatus(n, "stopped")
              /\ excused' = excused \union {n}
              /\ leaky' = leaky \union {LabOf[n]}
              /\ UNCHANGED <<prov, at, target, halfway>>
           \/ /\ ~HasRow(n)
              /\ UNCHANGED <<row, prov, at, target, history>>
    /\ UNCHANGED <<labs, dockerVars, deleting, others, purged>>

\* Mutant of DeleteNodesDone: the loop over the nodes is left early.
DeleteNodesEarly(r) ==
    /\ at[r] = "nextNode"
    /\ Goto(r, "labNetwork")
    /\ UNCHANGED <<dbVars, dockerVars, prov, history, toolVars, purged>>

DeleteNodesDone(r) ==
    /\ at[r] = "nextNode"
    /\ todo[r] = {}
    /\ Goto(r, "labNetwork")
    /\ UNCHANGED <<dbVars, dockerVars, prov, history, toolVars, purged>>

\* Once more, also when there was no node to stop.  The daemon out of reach and an error of
\* network.remove are swallowed; any other error leaves delete_lab with the rows still there.
DeleteLabNetwork(r) ==
    LET l == deleting[r] IN
    /\ at[r] = "labNetwork"
    /\ \/ /\ DestroyNetwork(l)
          /\ prov' = TRUE
          /\ (Goto(r, "labRows") /\ UNCHANGED toolVars) \/ ToolFail(r)
       \/ /\ ~prov
          /\ leaky' = leaky \union ({l} \cap net)
          /\ Goto(r, "labRows")
          /\ UNCHANGED <<net, prov, toolVars>>
    /\ UNCHANGED <<dbVars, cont, excused, halfway, purged>>

\* delete_lab_rows: every node row of the lab, also those added since lab_node_ids.
DeleteLabRows(r) ==
    LET l == deleting[r] IN
    /\ at[r] = "labRows"
    /\ row' = [n \in Nodes |-> IF LabOf[n] = l THEN "gone" ELSE row[n]]
    /\ labs' = labs \ {l}
    /\ purged' = purged \union {l}
    /\ ToolFail(r)
    /\ UNCHANGED <<dockerVars, prov, history>>

----------------------------------------------------------------------------
ToolStep(r) ==
    \/ ToolMarkStopped(r) \/ ToolCountOthers(r)
    \/ ToolRemoveContainer(r) \/ ToolDestroyLabNetwork(r)
    \/ DeleteNextNode(r) \/ DeleteNodesDone(r)
    \/ DeleteLabNetwork(r) \/ DeleteLabRows(r)

\* A crash takes the agent's threads with it.
HttpNext ==
    \/ HandlerNext /\ UNCHANGED <<toolVars, purged>>
    \/ /\ Crash
       /\ deleting' = [r \in Requests |-> NoLab]
       /\ todo' = [r \in Requests |-> {}]
       /\ others' = [r \in Requests |-> FALSE]
       /\ UNCHANGED purged

ToolNext ==
    /\ \/ HttpNext
       \/ \E r \in Requests, n \in Nodes : ToolStartLookup(r, n) \/ ToolStopLookup(r, n)
       \/ \E r \in Requests, l \in Labs : DeleteLookup(r, l)
       \/ \E r \in Requests : ToolStep(r)
    /\ NoteContention

ToolSpec == ToolInit /\ [][ToolNext]_avars

----------------------------------------------------------------------------
(* Properties.                                                             *)

\* A delete_lab that had the lab to itself leaves nothing in Docker: every node it knew
\* was stopped before its row went, and the lab's network is gone.
DeleteLabSweeps ==
    \A l \in purged \ contended :
        /\ \A n \in NodesOf(l) \ excused : cont[n] = "absent"
        /\ l \in leaky \/ Attached(l) \/ l \notin net

\* agent_tools.py: "Stop every node first so no orphaned containers remain".  Taken of
\* every delete_lab that ran to its end, whatever else was in flight on the lab.
NoOrphanAfterDelete ==
    \A l \in purged : \A n \in NodesOf(l) \ (excused \union halfway) : cont[n] = "absent"

\* agent_tools.py: stop_node will "tear down the lab network if no other docker node in the
\* lab is still running".  Taken of every lab with no call in flight whose calls met no
\* failure and never overlapped on one node: a network that no container uses and no
\* running row claims is gone.
LastToolStopTearsDown ==
    \A l \in Labs \ leaky :
        /\ NodesOf(l) \cap (excused \union halfway) = {}
        /\ ~Attached(l)
        /\ ~OthersRunning(l)
        /\ \A r \in Requests : ~InFlightOn(r, l)
        => l \notin net
=============================================================================
