--------------------------- MODULE NodeLifecycle ---------------------------
(***************************************************************************)
(* Docker nodes of OmniLab: the `nodes` rows of the SQLite database beside *)
(* the containers and lab networks of the Docker daemon, which no          *)
(* transaction spans.  backend/api/nodes.py drives both from async HTTP    *)
(* handlers, so the steps of any number of requests interleave at every    *)
(* await; backend/api/labs.py and delete_node drop rows and never touch    *)
(* Docker.                                                                 *)
(*                                                                         *)
(* One request occupies one slot of Requests.  at[r] is the await it is    *)
(* suspended in, target[r] the node it serves.  A node id is a uuid4 and   *)
(* is never reused: a deleted row stays "gone".                            *)
(***************************************************************************)
EXTENDS FiniteSets

CONSTANTS
    Nodes,      \* ids of docker nodes
    Labs,       \* ids of labs
    LabOf,      \* nodes.lab_id, which no handler updates
    Requests,   \* concurrent HTTP requests
    NoNode,     \* target of an idle slot
    Faults      \* what the environment may do: "crash" (the backend dies), "exit" (a container
                \* dies), "rdp" (rdp-config is posted for a docker node)

ASSUME LabOfAssumption == LabOf \in [Nodes -> Labs]
ASSUME NoNodeAssumption == NoNode \notin Nodes

VARIABLES
    row,        \* nodes.status, or the absence of the row
    labs,       \* labs that have a row
    cont,       \* container omnilab-<node id>: absent, dead (exists, not running), up
    net,        \* labs whose network omnilab-lab-<lab id> exists
    prov,       \* _provisioner has been constructed since the backend started
    at,         \* where each request is suspended
    target,     \* the node each request serves
    excused,    \* history: nodes hit by overlapping requests, deletion, a crash or Docker itself
    leaky,      \* history: labs where a start failed, rows were deleted, or Docker or the backend failed
    halfway     \* history: nodes whose container Docker changed in a call that then failed, with no
                \* call on it that succeeded since

vars == <<row, labs, cont, net, prov, at, target, excused, leaky, halfway>>
dbVars == <<row, labs>>
dockerVars == <<cont, net>>
history == <<excused, leaky, halfway>>

StartSteps == {"network", "run", "markRunning"}
StopSteps == {"remove", "markStopped", "count", "destroy"}

TypeOK ==
    /\ row \in [Nodes -> {"unborn", "stopped", "running", "gone"}]
    /\ labs \subseteq Labs
    /\ cont \in [Nodes -> {"absent", "dead", "up"}]
    /\ net \subseteq Labs
    /\ prov \in BOOLEAN
    /\ at \in [Requests -> {"idle"} \union StartSteps \union StopSteps]
    /\ target \in [Requests -> Nodes \union {NoNode}]
    /\ \A r \in Requests : at[r] = "idle" <=> target[r] = NoNode
    /\ excused \subseteq Nodes
    /\ leaky \subseteq Labs
    /\ halfway \subseteq Nodes

Init ==
    /\ row = [n \in Nodes |-> "unborn"]
    /\ labs = Labs
    /\ cont = [n \in Nodes |-> "absent"]
    /\ net = {}
    /\ prov = FALSE
    /\ at = [r \in Requests |-> "idle"]
    /\ target = [r \in Requests |-> NoNode]
    /\ excused = {}
    /\ leaky = {}
    /\ halfway = {}

----------------------------------------------------------------------------
HasRow(n) == row[n] \in {"stopped", "running"}
NodesOf(l) == {n \in Nodes : LabOf[n] = l}
Busy(n) == \E r \in Requests : target[r] = n
Lab(r) == LabOf[target[r]]

\* SELECT COUNT(*) ... WHERE lab_id = ? AND status = 'running' is not zero.
OthersRunning(l) == \E n \in NodesOf(l) : row[n] = "running"

\* Docker refuses to remove a network with an active endpoint.
Attached(l) == \E n \in NodesOf(l) : cont[n] = "up"

Goto(r, step) ==
    /\ at' = [at EXCEPT ![r] = step]
    /\ UNCHANGED target

Finish(r) ==
    /\ at' = [at EXCEPT ![r] = "idle"]
    /\ target' = [target EXCEPT ![r] = NoNode]

Begin(r, n, step) ==
    /\ at' = [at EXCEPT ![r] = step]
    /\ target' = [target EXCEPT ![r] = n]
    /\ excused' = IF Busy(n) THEN excused \union {n} ELSE excused

\* UPDATE nodes SET status = ? WHERE id = ?: no effect once the row is deleted.
SetStatus(n, status) ==
    row' = IF HasRow(n) THEN [row EXCEPT ![n] = status] ELSE row

----------------------------------------------------------------------------
(* Rows.                                                                   *)

\* POST /api/nodes: the lab's row must exist (foreign keys are on).
AddNode(n) ==
    /\ row[n] = "unborn"
    /\ LabOf[n] \in labs
    /\ row' = [row EXCEPT ![n] = "stopped"]
    /\ UNCHANGED <<labs, dockerVars, prov, at, target, history>>

\* DELETE /api/nodes/{id}: the row only.
DeleteNode(n) ==
    /\ HasRow(n)
    /\ row' = [row EXCEPT ![n] = "gone"]
    /\ excused' = excused \union {n}
    /\ leaky' = IF row[n] = "running" THEN leaky \union {LabOf[n]} ELSE leaky
    /\ UNCHANGED <<labs, dockerVars, prov, at, target, halfway>>

\* DELETE /api/labs/{id}: the lab's row, and its nodes' rows by ON DELETE CASCADE.
DeleteLab(l) ==
    /\ l \in labs
    /\ labs' = labs \ {l}
    /\ row' = [n \in Nodes |-> IF LabOf[n] = l THEN "gone" ELSE row[n]]
    /\ excused' = excused \union NodesOf(l)
    /\ leaky' = leaky \union {l}
    /\ UNCHANGED <<dockerVars, prov, at, target, halfway>>

\* POST /api/nodes/{id}/rdp-config: marks a node of any type running, whatever Docker says.
SetRdpConfig(n) ==
    /\ "rdp" \in Faults
    /\ HasRow(n)
    /\ SetStatus(n, "running")
    /\ excused' = excused \union {n}
    /\ UNCHANGED <<labs, dockerVars, prov, at, target, leaky, halfway>>

----------------------------------------------------------------------------
(* POST /api/nodes/{id}/start on a docker node: there is no check that the *)
(* node is stopped.                                                        *)

\* Reads the row, obtains the provisioner and waits for ensure_image.  A missing
\* image (400), an unreachable daemon (503) and a failed pull (500) change nothing.
StartLookup(r, n) ==
    /\ at[r] = "idle"
    /\ HasRow(n)
    /\ Begin(r, n, "network")
    /\ prov' = TRUE
    /\ UNCHANGED <<dbVars, dockerVars, leaky, halfway>>

\* Nothing undoes create_lab_network: unless a container is attached, the network that
\* this start may have created has no node left whose stop would remove it.
StartFailed(r) ==
    /\ leaky' = IF Attached(Lab(r)) THEN leaky ELSE leaky \union {Lab(r)}
    /\ Finish(r)

\* create_lab_network reuses or creates the bridge; a Docker error, before the bridge is
\* created or when it is, ends the request.
CreateLabNetwork(r) ==
    /\ at[r] = "network"
    /\ \/ /\ net' = net \union {Lab(r)}
          /\ Goto(r, "run")
          /\ UNCHANGED leaky
       \/ /\ UNCHANGED <<net, leaky>>
          /\ Finish(r)
       \/ /\ Lab(r) \notin net
          /\ net' = net \union {Lab(r)}
          /\ StartFailed(r)
    /\ UNCHANGED <<dbVars, cont, prov, excused, halfway>>

\* The container of a node is created and started on its lab's network.
ContainerStarts(n) ==
    /\ cont[n] = "absent"
    /\ LabOf[n] \in net
    /\ cont' = [cont EXCEPT ![n] = "up"]

\* containers.run creates the container and starts it, and leaves it behind when only
\* the start fails: the lab's network has been removed meanwhile, a port is taken.
\* A container of that name, in any state, is a conflict.  When the container is up and
\* the call fails after all (run's answer is late, container.reload raises), nothing
\* takes it down again.
RunContainer(r) ==
    /\ at[r] = "run"
    /\ \/ /\ ContainerStarts(target[r])
          /\ halfway' = halfway \ {target[r]}
          /\ Goto(r, "markRunning")
          /\ UNCHANGED leaky
       \/ /\ ContainerStarts(target[r])
          /\ halfway' = halfway \union {target[r]}
          /\ Finish(r)
          /\ UNCHANGED leaky
       \/ /\ cont[target[r]] = "absent"
          /\ cont' = [cont EXCEPT ![target[r]] = "dead"]
          /\ StartFailed(r)
          /\ UNCHANGED halfway
       \/ /\ UNCHANGED <<cont, halfway>>
          /\ StartFailed(r)
    /\ UNCHANGED <<dbVars, net, prov, excused>>

MarkRunning(r) ==
    /\ at[r] = "markRunning"
    /\ SetStatus(target[r], "running")
    /\ Finish(r)
    /\ UNCHANGED <<labs, dockerVars, prov, history>>

----------------------------------------------------------------------------
(* POST /api/nodes/{id}/stop on a docker node.                             *)

StopLookup(r, n) ==
    /\ at[r] = "idle"
    /\ HasRow(n)
    /\ Begin(r, n, "remove")
    /\ prov' = TRUE
    /\ UNCHANGED <<dbVars, dockerVars, leaky, halfway>>

\* The provisioner cannot be constructed: the row is flipped and 503 returned.  Once
\* constructed it is cached, and this path is closed until the backend restarts.
StopUnreachable(n) ==
    /\ ~prov
    /\ HasRow(n)
    /\ SetStatus(n, "stopped")
    /\ excused' = excused \union {n}
    /\ leaky' = leaky \union {LabOf[n]}
    /\ UNCHANGED <<labs, dockerVars, prov, at, target, halfway>>

ContainerRemoved(n) ==
    /\ cont' = [cont EXCEPT ![n] = "absent"]
    /\ halfway' = halfway \ {n}

\* docker rm -f kills the container before it removes it, and can fail after either.
RemovedInPart(n) ==
    \E state \in {"dead", "absent"} :
        /\ cont[n] \notin {state, "absent"}
        /\ cont' = [cont EXCEPT ![n] = state]
        /\ halfway' = halfway \union {n}

\* Mutant of RemoveContainer: the error of docker rm is swallowed.
RemoveErrorSwallowed(r) ==
    /\ at[r] = "remove"
    /\ ContainerRemoved(target[r]) \/ RemovedInPart(target[r]) \/ UNCHANGED <<cont, halfway>>
    /\ Goto(r, "markStopped")
    /\ UNCHANGED <<dbVars, net, prov, excused, leaky>>

\* provisioner.stop_node: docker rm -f, idempotent; an error leaves the row alone, which
\* may then claim a container that is down.
RemoveContainer(r) ==
    /\ at[r] = "remove"
    /\ \/ /\ ContainerRemoved(target[r])
          /\ Goto(r, "markStopped")
          /\ UNCHANGED leaky
       \/ /\ UNCHANGED <<cont, halfway, leaky>>
          /\ Finish(r)
       \/ /\ RemovedInPart(target[r])
          /\ leaky' = IF row[target[r]] = "running" THEN leaky ELSE leaky \union {Lab(r)}
          /\ Finish(r)
    /\ UNCHANGED <<dbVars, net, prov, excused>>

\* Mutant of MarkStopped: the handler returns right after the update.
MarkStoppedOnly(r) ==
    /\ at[r] = "markStopped"
    /\ SetStatus(target[r], "stopped")
    /\ Finish(r)
    /\ UNCHANGED <<labs, dockerVars, prov, history>>

MarkStopped(r) ==
    /\ at[r] = "markStopped"
    /\ SetStatus(target[r], "stopped")
    /\ Goto(r, "count")
    /\ UNCHANGED <<labs, dockerVars, prov, history>>

\* Mutant of CountOthers: stopped nodes count as well.
CountEveryRow(r) ==
    /\ at[r] = "count"
    /\ IF \E n \in NodesOf(Lab(r)) : HasRow(n) THEN Finish(r) ELSE Goto(r, "destroy")
    /\ UNCHANGED <<dbVars, dockerVars, prov, history>>

\* others_running is read after the commit above.
CountOthers(r) ==
    /\ at[r] = "count"
    /\ IF OthersRunning(Lab(r)) THEN Finish(r) ELSE Goto(r, "destroy")
    /\ UNCHANGED <<dbVars, dockerVars, prov, history>>

\* destroy_lab_network: a missing network is fine, one in use is refused, and the daemon
\* may fail.
DestroyNetwork(l) ==
    \/ /\ ~Attached(l)
       /\ net' = net \ {l}
       /\ UNCHANGED leaky
    \/ /\ Attached(l)
       /\ UNCHANGED <<net, leaky>>
    \/ /\ l \in net
       /\ leaky' = leaky \union {l}
       /\ UNCHANGED net

\* Best effort: the row has been written, and whether the error is swallowed or answered
\* makes no difference to it.
DestroyLabNetwork(r) ==
    /\ at[r] = "destroy"
    /\ DestroyNetwork(Lab(r))
    /\ Finish(r)
    /\ UNCHANGED <<dbVars, cont, prov, excused, halfway>>

----------------------------------------------------------------------------
(* The environment.                                                        *)

\* A container's process exits, is killed, or does not survive a host reboot.
ContainerDies(n) ==
    /\ "exit" \in Faults
    /\ cont[n] = "up"
    /\ cont' = [cont EXCEPT ![n] = "dead"]
    /\ excused' = excused \union {n}
    /\ leaky' = IF row[n] = "running" THEN leaky ELSE leaky \union {LabOf[n]}
    /\ UNCHANGED <<dbVars, net, prov, at, target, halfway>>

\* The backend dies and restarts: every request is lost where it stood, and nothing at
\* startup compares rows with containers.
Crash ==
    /\ "crash" \in Faults
    /\ at' = [r \in Requests |-> "idle"]
    /\ target' = [r \in Requests |-> NoNode]
    /\ prov' = FALSE
    /\ excused' = excused \union {n \in Nodes : Busy(n)}
    /\ leaky' = leaky \union {LabOf[n] : n \in {m \in Nodes : Busy(m)}}
    /\ UNCHANGED <<dbVars, dockerVars, halfway>>

----------------------------------------------------------------------------
StartStep(r) == CreateLabNetwork(r) \/ RunContainer(r) \/ MarkRunning(r)
StopStep(r) ==
    RemoveContainer(r) \/ MarkStopped(r) \/ CountOthers(r) \/ DestroyLabNetwork(r)

HandlerNext ==
    \/ \E n \in Nodes :
        AddNode(n) \/ DeleteNode(n) \/ SetRdpConfig(n) \/ StopUnreachable(n) \/ ContainerDies(n)
    \/ \E l \in Labs : DeleteLab(l)
    \/ \E r \in Requests, n \in Nodes : StartLookup(r, n) \/ StopLookup(r, n)
    \/ \E r \in Requests : StartStep(r) \/ StopStep(r)

Next == HandlerNext \/ Crash

Spec == Init /\ [][Next]_vars

\* The event loop resumes every suspended handler, and Docker answers or times out.
Fairness == \A r \in Requests : WF_vars(StartStep(r) \/ StopStep(r))
FairSpec == Spec /\ Fairness

----------------------------------------------------------------------------
(* Properties.                                                             *)

\* A row says running only while the container is up, or while the request that has just
\* removed it is about to commit "stopped".  Holds for every node whose requests never
\* overlapped and that no fault hit: the order of stop (container first, row second) and
\* of start (row last) is what it rests on.  A docker rm that fails after it has killed
\* the container does leave such a row; from the next call on the node that succeeds on,
\* the property speaks of it again.
NoPhantomRow ==
    \A n \in Nodes \ (excused \union halfway) :
        row[n] = "running" =>
            \/ cont[n] = "up"
            \/ \E r \in Requests : target[r] = n /\ at[r] = "markStopped"

\* The reverse: a container is never left up behind a row that says stopped, except while
\* the start that ran it is about to commit "running", or after a docker run that failed
\* when the container was up already: until the next call on the node that succeeds.
NoHiddenContainer ==
    \A n \in Nodes \ (excused \union halfway) :
        cont[n] = "up" =>
            \/ row[n] = "running"
            \/ \E r \in Requests : target[r] = n /\ at[r] = "markRunning"

\* Whatever way the stops of a lab's nodes interleave, with each other and with starts,
\* the last of them removes the lab's network: once no request of the lab is in flight,
\* no container of it is up and no row of it says running, the network is gone.
LastStopTearsDown ==
    \A l \in Labs \ leaky :
        /\ ~Attached(l)
        /\ ~OthersRunning(l)
        /\ \A r \in Requests : target[r] # NoNode => Lab(r) # l
        => l \notin net

\* A network no container uses and no row claims does not stay: it is collected, or a
\* node comes to use it, or a failure of Docker or of the backend leaks it.
UnusedNetworkCollected ==
    \A l \in Labs :
        (l \in net /\ ~Attached(l) /\ ~OthersRunning(l))
            ~> (l \notin net \/ Attached(l) \/ OthersRunning(l) \/ l \in leaky)

\* nodes.py: the row is flipped "so the UI doesn't show a phantom-running node".  Taken
\* of every node with no request in flight and no failed call behind it, overlapping
\* requests included.
NoPhantomWhenQuiet ==
    \A n \in Nodes \ halfway : row[n] = "running" /\ ~Busy(n) => cont[n] = "up"

=============================================================================
