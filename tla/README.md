# OmniLab in TLA+

OmniLab is a network-lab web application: a FastAPI backend (`src/backend`) that
keeps labs, nodes and links in SQLite, drives Docker, QEMU, tcpdump, iptables and
dnsmasq, and lets an AI build whole labs through tool calls; a React frontend
(`src/frontend`); and a browser console for the screens of nodes
(`src/backend/static/novnc`). Most of what can go wrong in it goes wrong *between* those
parts: no transaction spans the database and Docker, handlers are coroutines that
interleave at every `await`, the AI's tools run in worker threads beside them, streams
end because a browser tab was closed, and the console reads a protocol that the network
may cut at every byte.

This directory models those parts, checks them with TLC on small instances, and
proves the main invariants with TLAPS for every value of the constants.

    tlc -config MCNodeLifecycle.cfg MCNodeLifecycle      # and so on: table "Runs"
    tlapm NodeProofs.tla                                 # and so on
    tlapm AgentRunProofs.tla
    tlapm TrafficProofs.tla
    tlapm VncUiProofs.tla
    tlapm RfbUpdatesProofs.tla
    tlapm RfbInputProofs.tla
    tlapm RfbStreamProofs.tla                            # ten minutes
    tlapm WebAppProofs.tla

`PROJECT.json` is the index: components, runs, one mutant per property, the source
lines behind every definition, findings, hazards and theorems.

## 1. Inventory

| Component | State | Operations | Meets |
|---|---|---|---|
| Docker node lifecycle (`api/nodes.py`, `services/docker_provisioner.py`) | `nodes.status`; container `omnilab-<id>`; bridge `omnilab-lab-<lab>`; cached `_provisioner` | add, delete, start, stop, rdp-config; `create_lab_network`, `start_node`, `stop_node`, `destroy_lab_network` | Docker, SQLite, Labs |
| Agent lifecycle tools (`services/agent_tools.py`, `SqliteRepo` in `api/agent.py`) | the same rows and containers | `start_node`, `stop_node`, `delete_lab`, `create_lab`, `create_node`, `link_nodes`, `push_config` | the handlers above, from worker threads |
| AI build runner (`services/agent_runner.py`) | `_CANCEL_REGISTRY`; loop counters, messages, `created_lab_id` | `run_build`, `request_cancel`, `_trim_history` | model provider, tools |
| AI build endpoint and history (`api/agent.py`) | `agent_runs` rows | `build_lab`, `cancel_build`, `_event_stream`, `AgentRunStore` | runner, browser |
| Labs (`api/labs.py`) | `labs` rows, with cascades | create, delete, export, import | SQLite |
| QEMU, VNC, PTY nodes (`api/nodes.py`, `api/console.py`) | process handles, pidfiles, display numbers | start, stop | QEMU |
| Links (`api/networks.py`, tools) | `links` rows | create, delete, `link_nodes` | nodes |
| NAT networks (`services/nat_network.py`) | rows, bridges, iptables rules, dnsmasq handles | create, delete, attach | the host |
| Packet capture (`services/packet_capture.py`) | `active_captures`, tcpdump processes | start, stop, auto-stop | links |
| Traffic (`services/traffic_service.py`, `api/traffic_websocket.py`, `routes/traffic_filters.py`) | filters, capture sessions, packet buffer, sockets | toggle, start, stop, flush, broadcast | threads *and* the event loop |
| Topology mapper (`services/topology_mapper.py`) | cache of interfaces and links | lookup | traffic |
| Console: connection and page (`novnc/core/rfb.js`, `ra2.js`, `novnc/app/ui.js`) | connection and handshake states, timers; panels, dialogs, visual state | connect, handshake, credentials, approve, disconnect, reconnect | the server, the user |
| Console: updates and display (`rfb.js`, `core/display.js`, `decoders/h264.js`) | back buffer, damage, viewport, render queue; what was asked of the server | update, resize, flush, drag, clip | the browser's image and video decoders |
| Console: keyboard, mouse, touch (`core/input/`, `rfb.js`) | keys held, gesture under way, pointer and its timer | press, release, move, wheel, gestures, view-only | the page's modes, the server |
| Console: messages and decoders (`core/websock.js`, `rfb.js`, `core/decoders/`) | receive queue; what a decoder keeps | every message, every encoding | the network |
| AI build panel (`components/AIBuilder/AIBuilderPanel.jsx`, `store/index.js`, `utils/api.js`) | `aiBuild` in the store; abort handle and flag in the panel | build, stop, dismiss, leave | the build endpoint, the address |
| Traffic client (`hooks/useTrafficWebSocket.js`) | socket reference, retry timer | connect, close, retry | traffic, the address |
| Lab canvas (`pages/LabCanvas.jsx`) | nodes, links, texts, selection, dialogs | load, drag, align, link, delete, add | labs, nodes and texts of the backend |
| Accounts, first run (`api/auth.py`, `api/system.py`) | users, first-run flag | register, promote, delete, complete | SQLite |
| License, AI provider settings | license table and file, provider file | activate, save | nodes limit |
| Templates, text objects, backup, proxy, health, other pages, packaging | rows and files | CRUD and relays | - |

What is hard, by kind (each with its line in `PROJECT.json`, "hazards"):

- **Interleaving across two stores.** A row and a container change in separate steps;
  start writes the row last, stop writes it second, the agent's stop writes it first.
- **Shared teardown.** The network of a lab is removed by whichever stop believes it
  is the last. The belief is a `COUNT(*)`; where it is read decides whether it is right.
- **Check, then act.** Interface free, node limit, link not captured, first run not
  done, filter enabled: read in one transaction, used in another.
- **Nested generators.** A build is a generator inside a generator; a closed tab raises
  `GeneratorExit` at whichever `yield` they stand, or nowhere if they have not begun.
- **Caps in the middle of things.** The tool-call cap bites inside a batch, trimming
  between a call and its result, a cancel between two polls.
- **No recovery.** Nothing at startup compares rows with Docker, runs with generators,
  filters with sessions.
- **A stream without boundaries.** The console's readers wait at some two dozen places, some
  put back what they read, and decoders keep state between two calls and between rectangles.
- **Drawing that is late.** Images and video frames are ready later than what is drawn after
  them; reading stops for the queue and must start again.
- **Releases nobody sends.** Operating systems swallow key-up events, fingers leave in any
  order, a mode changes with a button held.
- **What outlives a page.** Streams, sockets, timers and requests answer when the panel or the
  page that asked is gone, or is about another lab.

What makes the components correct:

- *Nodes*: rows and containers agree once requests are done; a lab at rest has no
  network; no failure separates the two stores beyond the node it hit.
- *Agent tools*: the same, next to the handlers; `delete_lab` leaves nothing in Docker.
- *AI build*: cost rails; one final status; an accepted cancel is honoured; the registry
  does not leak; a failed build leaves no lab; every build ends.
- *Traffic*: an enabled filter captures and no other does; no `docker exec` client outlives
  its session; what a browser was last told is true; the loop does not wait for itself.
- *Console*: what was grabbed is given back on every way down; the page follows its
  connection and always leaves the user a way on; every byte is read once, by the step it is
  for; drawing keeps its order and is shown; the next update is asked for; no key or button
  stays pressed.
- *Build panel*: one build at a time, in the hands of the panel that is shown; a spinner
  stands for an open stream.
- *Traffic client*: one socket, for the lab that is shown; it comes back.
- *Canvas*: at rest it shows the rows of its lab; a link that is drawn takes interfaces nobody has.
- *Links, captures, NAT, processes*: one link per interface, one tcpdump per link, no rule or
  process left without an owner, two nodes never share a display.
- *Accounts*: an active admin always exists; the first run happens once; the tier that
  limits nodes is the tier that was activated.

## 2. Modules

| Module | Models |
|---|---|
| `NodeLifecycle` | rows, containers, networks, concurrent HTTP requests, faults |
| `AgentTools` | EXTENDS it: the agent's start, stop and `delete_lab` beside the handlers |
| `RunLedger` | abstract: what the run history promises |
| `AgentRun` | a build: both generators, rails, cancel, disconnect, cleanup; implements `RunLedger` |
| `Traffic` | filter rows, capture sessions, reader threads, the lock, sockets |
| `RfbConnection` | one RFB object: states, handshake, security types, the way down |
| `VncUi` | EXTENDS it: the console page, its sessions, dialogs, timers and reconnection |
| `Display` | the console's buffers, damage, viewport and render queue |
| `RfbUpdates` | EXTENDS it: updates, flushing, H.264, resizes, requests for more |
| `Keyboard`, `Gestures` | key events with their workarounds; touches to gestures |
| `RfbInput` | EXTENDS both: keys, mouse, touch and modes, against what the server holds |
| `Decoders` | the receive queue and every decoder |
| `VncWire` | EXTENDS it; external: a server's messages as bytes, and what they mean |
| `RfbStream` | EXTENDS it: every message of a connected object, over a cut stream |
| `LabRoutes` | the addresses of labs |
| `BuildPanel`, `TrafficFeed`, `LabCanvas` | the parts of the pages |
| `WebApp` | composes them: changes of the address |
| `*Proofs` | theorems about the module of that name; `NodeProofs` about `NodeLifecycle` and `AgentTools` |
| `MC*` | small instances; `MCTraffic.cfg` is one of `Traffic` itself |

A definition named as a *mutant* in its comment is the bug a neighbouring definition
must not have; `PROJECT.json` says which property notices it. No specification uses one.

### NodeLifecycle

One slot of `Requests` is one HTTP request in flight. `at[r]` names the `await` it is
suspended in and `target[r]` the node it serves; one action is the code between two
awaits. The variables map to the code as follows.

| Variable | Code |
|---|---|
| `row`, `labs` | `nodes.status` or no row; rows of `labs` |
| `cont`, `net` | container and bridge as Docker has them |
| `prov` | `_provisioner is not None` in `nodes.py` |
| `excused`, `leaky`, `halfway` | history, see below |

Start is `StartLookup`, `CreateLabNetwork`, `RunContainer`, `MarkRunning`; stop is
`StopLookup` (or `StopUnreachable`), `RemoveContainer`, `MarkStopped`, `CountOthers`,
`DestroyLabNetwork`. Every Docker call may fail before it has done its work, half way and
after it: `containers.run` may leave a created container that could not start, or one that is
up when `run` is late or `container.reload` raises (`docker_provisioner.py:244`); `docker rm -f`
kills before it removes and may fail after either (`RemovedInPart`), which leaves the row
alone; the network may be there although its creation failed; its removal is refused while a
container is attached, and may fail otherwise, which is swallowed. `DeleteNode` and `DeleteLab` drop rows and leave Docker
alone. The environment adds a dying container and a restart of the backend, which
loses every request where it stood.

Three *history variables* say what a property is not about. They are never read by a
guard. `excused` collects the nodes that two requests served at once, whose row was
deleted, or that a crash or a container's own death hit. `leaky` collects the labs in
which a start failed after it made the network, Docker refused to remove one, rows of a
running node were deleted, or the backend died. `halfway` has the nodes whose container
Docker changed in a call that then failed: the handler writes no row, and row and container disagree
until the next call on the node that succeeds, which takes it out again. The invariants are claims about all
the rest: interleavings on *other* nodes of the lab, and failures that leave Docker as it
was, are not excused. What happens on excused nodes is not hidden: the run `node_phantom`
asks of all of them.

### AgentTools

Adds the tools' threads to the same slots: `deleting[r]`, `todo[r]` and `others[r]` are
the local variables of `delete_lab` and `stop_node` that outlive a repo call. The
order is the tool's own: `ToolMarkStopped`, `ToolCountOthers`, `ToolRemoveContainer`,
`ToolDestroyLabNetwork`. The start of a tool shares its steps with the HTTP start, which
make the same calls in the same order. `delete_lab` catches `DockerProvisionerError` and no other
error of Docker: what `networks.get` raises leaves it with the rows still there (`ToolFail`). `purged` and `contended` are histories: labs on
which a `delete_lab` ran to its end, and labs on which one had company.

### AgentRun and RunLedger

`gen[r]` is where the two generators stand: `top`, `calls`, `dispatch`, `final` and
`last` are yields, the only places where a close can reach them; `llm` is the model
request, `cleanup` the `except` clause. `reg[r]` is the cancel registry, `iters`, `calls`,
`pending` and `history` the loop's own state. A history is the sequence of the roles of
its messages: what the trimming keeps depends on nothing else. A tool is seen from
outside: it makes a lab, deletes one, does neither, or raises.

`RunLedger` is what the `agent_runs` table promises a reader of the history: recorded
first, spent on only while running and up to the cap, settled once. `AgentRun`
implements it with `spent <- iters` and the row as it is.

### Traffic

One event loop runs every coroutine and `turn` says which one it is in; a coroutine gives
the turn back where it really suspends: at a database call, at its end, and in a `send_text`
to a peer that reads slowly. An `await` that does not suspend is no step boundary, which
is what makes the lock below dangerous and most interleavings impossible.

| Variable | Code |
|---|---|
| `row` | `traffic_filters.enabled`, or no row |
| `session`, `execs`, `reader`, `pending` | `_sessions`; running `docker exec` clients (`session.processes`); reader threads; `pending_events` |
| `dumps` | history: tcpdumps begun in containers that the backend has not ended |
| `lock` | `TrafficService._lock`, a `threading.Lock` |
| `at`, `serves`, `update`, `plan` | a request: where it stands, its filter, the write and the calls of the service it still has to make |
| `batch`, `cast` | `send_traffic_batch` coroutines; the iteration a broadcast is in |
| `open`, `broken`, `conns`, `view` | socket handlers, dead peers, `_connections[lab]`, what each browser was told |

A route is its read (`Toggle`, `Patch`, `Delete`), its `Write` and its `Call`, which runs
`StartCapture` and `StopCapture` under the lock, with the broadcast and what follows it
(`NotifyDone`, `NotifyRaises`). A reader thread is `ReadLine`, `Enqueue` and, when the batch
interval has passed, `FlushReturns`, which keeps the lock while it waits for the loop.
A broadcast iterates over the live set: it raises when the set changed size during a send
(`Unchanged`), a socket that connects meanwhile may or may not be visited, and the last
one to leave deletes the set under it.

A tcpdump runs in its container; what the backend holds, reads and signals is the `docker exec -t`
client on the host. `Terminate`, `StartFails` and `Crash` are about the clients: nothing in the code ends the
tcpdumps, and `dumps` never shrinks (`TrafficLeft.cfg`, section 4). `NoStrayClient` is about `execs`.

Three histories bound what the properties claim. `excused`: filters whose row and session
a failed start, an overlap of two requests, a restart, a raised broadcast in the middle of
a restart, a deleted lab, or creation in the enabled state has parted; the next request
that completes alone takes the filter out again. `crowded`: requests that had company on
their filter. `cut`: filters whose last notification did not reach everybody.

Abstracted: the waits of `stop_capture` for its processes and threads (2 s and 1 s, on the
loop's thread) are one step, and a reader between its packet and the lock outlives the
join; a client that ignores its signals is not modelled. `session.active` is folded into
`execs`. A failing send is seen when it is made; one that fails after it was suspended
is like one that got through to a peer that then breaks. A set that shrinks and grows
back during one send counts as unchanged in size, as in CPython, unless it was emptied.

### RfbConnection and VncUi

The console's classes are objects whose methods run to their end. An object is a record,
a method is an operator from the record to the record it leaves, and an action is one
callback of the browser: an event of the socket, a timer, a promise, the user. `rfb[s]` is
the RFB object of session `s`; `ui` the page.

| Part of the record | Code |
|---|---|
| `conn`, `init`, `ver`, `auth` | `_rfbConnectionState`, `_rfbInitState`, `_rfbVersion`, `_rfbAuthScheme` |
| `ra2`, `ard`, `needs`, `creds` | where the asynchronous exchanges stand, and what credentials are known |
| `ws`, `on`, `q`, `frag` | the socket, its handlers, and the receive queue |
| `timer`, `resume`, `attached`, `grabbed`, `hears` | what must be released: timers, observers, the canvas, the keyboard |
| `ui.rfb`, `ui.connected`, `ui.panel`, `ui.reconnecting`, `ui.bar` | the page's own idea of all this |

A message of the server is a pair of what it is and the one value the client decides by;
`frag` says that bytes of one more are there, so that every `rQwait` has both outcomes.
Ciphers, keys and texts are left out; that they are right or wrong is a choice. `Collect`
forgets an object nothing can reach any more. The server is external: it answers by the
protocol, refuses, or closes, at every step. One history, `late`: a call left over from the
handshake has run on an object that was down (section 4).

### Display and RfbUpdates

One axis of coordinates: the other is handled by the same statements. `back` is the hidden
buffer, `shown` the canvas, `damage` the bounds that `flip` copies, `queue` is `_renderQ`.
`c` adds what `rfb.js` keeps: the rectangles to come, whether it waits for the flush, the
contexts of the video decoder, the sizes and the timers of resizing. Messages arrive one
part at a time, so that an update can be cut by anything the browser or the user does.
`Rectangles` is what a server may send, with what the client decides by. `contexts` is a set: the code finds a context by its place
on the screen (`live`), and an unreachable one is there only for the frames its decoder still owes.

`ideal` is a history: what a client would show that draws at once. `spoiled`, `lost` and
`failed` say that the code has met one of the cases it gets wrong (section 4), or that an image or
a decoder failed.

### Keyboard, Gestures and RfbInput

A behaviour is about one scene, keys, mouse or touch: they share the server's state and the modes,
and nothing else. A key event has a code, a symbol and the modifiers the browser reports;
`kbd.list` is `_keyDownList`. Positions are 0 and 1, near enough and too far; that is all
the thresholds of gestures and of viewport dragging decide by. `srv` is what the server
holds, and `want` the last position it should hear of. `kept` are keys whose release was
swallowed by view-only, `blind` says that a mode changed with something held, and `spared`
are the buttons a long press that has moved the viewport left held, until the buttons are next sent.

### Decoders, VncWire and RfbStream

Here bytes are bytes. An operator of `Decoders` is one call of a decoder: it reads what it
can and says "done", "again", "wait" or "fail"; what it keeps is in `dec` (of this
rectangle) and `kept` (for later ones). The zlib library is external: a block is its number
in its stream followed by the data, so that a block that is skipped, repeated or given to
another stream is noticed. JPEG and PNG are what the browser is handed. `VncWire` is the other
side: how a server writes a rectangle, and what it means by it. A step of
the system is the arrival of a chunk of any size or one turn of the message loop; `net.marks`
holds the places where the server began a part and what should be on the screen by then.
What `VncWire` says was not taken from the decoders but from what they read: a decoder is
right if it inverts the writer however the bytes are cut. No operator is recursive, so that proofs reach them: a decoder
that goes on to its next line, tile, sub-rectangle or segment says "again", and what is unpacked in one call is a function or a fold over its parts.

`o.astray` is a history: the server sent what no server of the protocol sends (a cursor of an unknown type, an
extended text shorter than what is read of it, a palette without pixels). What the client then does depends on
what happened to have arrived, or is left to the next rectangle. No script of the run does it; the theorems are about all scripts and need it.
`StreamAssumption` says that tiles are not empty and that what a server sends are bytes.

### BuildPanel, TrafficFeed, LabCanvas and WebApp

`WebApp` has the address (`page`), and mounts and unmounts parts as React does: what is on the old page
is taken down, then what is on the new one is set up, except that one lab's page turns into another's and
stays. The parts share nothing but the address, so that a behaviour looks at
one of them (`part`); two at once would only multiply states.

- `BuildPanel`: `build` is in the store and outlives the panel; `panel` has the abort
  handle; `streams[s]` is the event stream of build `s`, `stops` the requests to stop that are not
  answered. `inst` tells panels apart, as the closures of a stream keep the setters of theirs.
- `TrafficFeed`: `feed` is the hook with its references, `sockets` the browser's, `timers`
  the reconnections that are due, in their order, each with the lab of its closure and whether its hook is still on
  the page. The hook refers to the newest only, and that is the one its clean-up calls off (`CalledOff`); one
  planned before it runs all the same, for nobody if the page was left (`TimerOfNobody`).
- `LabCanvas`: `nodes`, `links` and `texts` are shown; `flight` has the loads, the creations and
  the other requests, which the backend serves in any order; `db` the rows. A load is several requests:
  the backend serves each with the rows of that moment (`TopologyServed`, `TextsServed`), and the page shows what they
  brought once all are there (`LoadAnswered`), however old. A loaded link without interfaces gets the defaults of lines
  250-251 (`ShownLink`), so that loaded links may clash. A place stands
  for coordinates. `TextsThen` is what a handler made in the first render sees.

Histories: `hurried` (a build was started before all was over with the one before),
`stranded` (a page was left while a build ran), `turned` (the page turned from lab to lab),
`past` (something was cut off or overtaken, a load was shown that was out of date, a request failed). Each is a case in which the
code does not keep its promise; the ones that contradict the repository have a configuration in section 4.

## 3. Runs

| Run | Asks | States |
|---|---|---|
| `node_lifecycle` | do rows, containers and networks agree, and is an unused network collected | 246,163 |
| `agent_tools` | do they still, with the agent's tools beside the handlers; does `delete_lab` sweep | 1,006,034 |
| `agent_run` | rails, registry, settlement, cleanup, cancel, termination, the refinement | 50,359 |
| `traffic` | do rows, captures, `docker exec` clients and messages agree; does a loop held by a reader go on | 738,756 |
| `vnc_session` | is everything released; do page and connection agree; is every message read, and by its step | 1,637,468 |
| `vnc_update` | is drawing in order and shown; is the next update asked for; does waiting end | 1,111,308 |
| `vnc_input` | does a key or button stay pressed; does the pointer catch up; one gesture at a time | 180,934 |
| `vnc_stream` | is what was written read, wherever the stream is cut; is nothing left over; does a cut ever make a difference | 97,935 |
| `web_app` | build panel, traffic feed and canvas under changes of the address | 181,467 |
| `node_phantom`, `delete_orphan`, `traffic_restart` | one statement each of the repository, refuted | - |

Bounds, and why they are enough:

- *Two nodes in one lab.* Every rule that spans nodes is about a lab and "the others in
  it"; two make "the last" and "not the last" both happen. A second lab shares no state
  with the first. The proofs drop the bound.
- *Two requests.* Every race found needs two actors; two requests on one node, on two
  nodes, and two `delete_lab`s on a lab all occur. The proofs cover any number.
- *A node id is used once*, as a uuid4 is, so that a node lives at most once.
- *`DefaultCap` 2, `HardCap` 4, `MaxToolCalls` 4, `MaxBatch` 2, `MaxHistory` 6*: the
  default, a requested cap below it and the clamp all occur; the tool-call cap is hit
  within and between batches; the history is trimmed more than once and at every phase
  of a turn.
- *`MaxBatch`* is the only bound the code does not have. `MaxToolCalls` cuts longer batches.
- *One build, three lab ids.* Builds share nothing but the labs table and a registry keyed
  by run id; three labs let a run make, lose and make again. The proofs are for any
  number of builds.
- *One filter, two requests, one browser, one interface, one packet* in `traffic`. Filters share
  the lock and the sockets, and a request on another filter is, for this one, a holder
  of the lock; two requests make every overlap of two routes. One packet drives a
  reader to each of its places and a batch through each of its own. Two interfaces (1.7
  million states) and two browsers under one request (4.9 million) were checked for the
  invariants and show nothing else; they are too slow to keep. The proofs of `RowsMatchCaptures` and `NoStrayClient` are for any number of each.
- *`BatchMax` 1* for the code's 20, so that one packet fills a batch. Session ids are reused
  once nothing refers to them; `SessionsAssumption` says how many suffice, and the proofs show that
  they do (`FreshIs`).
- *Two sessions* in `vnc_session`: the last object's timers and promises meet the next one. Each server
  offers every security type the client knows but asks for one nested type of a kind.
  `MaxResumes` and `MaxNormal` 1: one pending timer of a kind, and one message after the handshake,
  whose handlers are in `RfbStream`.
- *Two columns, two updates of at most two rectangles, one move of the viewport* in `vnc_update`:
  what waits and what is drawn after it, a flush between two updates, and a resize before or after
  each. The second update only draws, as what a resize leaves is seen by any drawing. The proofs drop these bounds.
- *Three fingers, one change of mode* in `vnc_input`: no gesture has more than two fingers, the third
  is the one that is ignored. One mouse button of the plain and one of the extended kind. Keys are those with a rule of
  their own in `keyboard.js`: Alt, AltGr, Ctrl, CapsLock, a letter and an unidentified key, on each system.
- *A screen of 3 by 2, tiles of 2 by 2* in `vnc_stream`, for the code's 16 and 64: whole and cut tiles
  in both directions, more than one per rectangle. The scripts pair every encoding of a family with every
  other of it, in both orders, and follow each message with the others; every cut of each is taken, which is what a stream can do.
- *Two labs, two changes of the address, two builds, three sockets, two gestures* in `web_app`.
  Leaving and coming back, and turning and leaving, take two changes; a lab page has the old
  socket closing, the new one and one of a late timer. Three nodes, two of them with two links between them, of which one has no interfaces and clashes with the other; and one text.
  The menu deletes several nodes only after three gestures, which the run does not make. The proofs drop these bounds.
- The `TypeOK` of a module is not in the configurations where a proof has it (`NodeLifecycle`, `AgentRun`,
  the parts of the frontend, the console's page, updates and input) or where other invariants could not be evaluated without it.

Symmetry is used only in `agent_tools`, which checks no temporal property.
`CHECK_DEADLOCK FALSE` stands where the system may stop: all builds have ended, the lab has
been deleted and no request remains, the loop waits for a lock only it could
release (`Traffic`), the script has been read, or the user and the server do nothing more.

### Fairness

`NodeLifecycle!Fairness`: weak fairness of a request's own steps. The event loop resumes
a suspended handler once what it awaits is there, and a Docker call returns or times
out in docker-py, which is one of the failing outcomes. No fairness is assumed of new
requests, of Docker's success, or of the environment.

`AgentRun!Fairness`: weak fairness of a build's steps, as the server keeps asking a
streaming response for the next chunk, the model request has a timeout, and
tools return; and of `Close`, as the server drops the stream of a client that is gone. It
assumes nothing of the client. `BuildEnds` speaks of builds whose response was handed to
the server; a client that goes before the first chunk leaves a generator that never
began, which `CloseUnstarted` closes without running any `finally`.

`Traffic!Fairness`: weak fairness of `FlushReturns`, as `future.result` has a timeout of half a
second, and strong fairness of taking the service's lock, as a `threading.Lock` that is
released again and again is not withheld from one waiting thread for ever. None of routes,
browsers, packets or tcpdump. `LoopResumes` speaks of a lock held by a *reader*. A
coroutine that waits for a lock another coroutine holds across a suspended send never
gets it: the model has these states, and no property hides them.

`BuildPanel!BuildFairness`: weak fairness of a stream's end, which `BuildEnds` shows of the backend,
and of the answer to a request to stop, as `fetch` is answered or rejected. No fairness of
a last word: a stream may close without one, which is the case `SpinnerEnds` is about.

`TrafficFeed!FeedFairness`: weak fairness of timers and of a close that was begun, which are the browser's;
strong fairness of opening, so that a backend that is tried again and again takes the connection once.
Without it nothing could be said of a backend that is down.

`WebApp`: weak fairness of `Enter`, as React mounts the page the address asks for. None of the user.

## 4. Findings

- **A stop that overtakes a start leaves a phantom** (`node_phantom`). Two requests on
  one node are not serialised: stop removes the container between the start's `run` and
  its `UPDATE`, commits `stopped`, and the start commits `running`.
- **A node started beside `delete_lab` outlives the lab** (`delete_orphan`). The list of
  nodes to stop is read once; `delete_lab_rows` drops whatever rows there are.
- **Restarting a capture stops the backend** (`traffic_restart`). `start_capture` of a filter that
  has a session awaits `stop_capture` while it holds the lock that `stop_capture` takes. The
  edit form of the frontend sends `enabled` with every edit (`TrafficFilterPanel.jsx`), so that
  saving the title of an enabled filter gets there.

Further configurations are kept beside the runs. Each asks for one property, which TLC refutes:

| Configuration, module | Property | What the code does |
|---|---|---|
| `StopLeak.cfg`, `MCAgentTools` | `LastToolStopTearsDown` | The agent's `stop_node` counts the other running nodes first and acts on it last; if the HTTP stop of the other node commits in between, each leaves the network to the other. |
| `BuildOrphan.cfg`, `MCAgentRun` | `NothingOrphaned` | A build that made two labs orphans the first: `created_lab_id` holds one. |
| `BuildHistory.cfg`, `MCAgentRun` | `ResultsFollowTheirTurn` | The tail of the history is cut by count and may begin with tool messages whose assistant turn is gone. |
| `TrafficLeft.cfg`, `Traffic` | `TcpdumpEnds` | `stop_capture` signals the `docker exec -t` client (`traffic_service.py:208`), and Docker leaves the command it began running in the container, though the plan says "User deactivates → Backend kills tcpdump" (`CRE-68_TRAFFIC_VISUALIZATION_MASTER_PLAN.md:74`). |
| `VncDraw.cfg`, `MCRfbUpdates` | `DrawnAsSent` | A blit that is queued copies from the start of the array's buffer, though `RawDecoder` passes a view into it (`display.js:394`); and a resize does not wait for the queue. |
| `VncPress.cfg`, `MCRfbInput` | `LongPressReleased` | A long press that ends a drag of the viewport leaves `_viewportDragging` set (`rfb.js:1463`): the right button is pressed later and not released. |
| `VncCursor.cfg`, `MCRfbStream` | `CursorAsSent` | The cursor is read as blue, green, red (`rfb.js:2838`), the client asks for red first (`rfb.js:3345`). The passing run has grey cursors. |
| `BuildSpinner.cfg`, `MCWebApp` | `NotStuck` | Leaving the page aborts the stream, and "building" stays for ever. |
| `FeedSwitch.cfg`, `MCWebApp` | `NoFeedAfterwards` | The close of the last lab's socket clears the reference to the new one (`useTrafficWebSocket.js:146`), plans a second connection, and the new socket outlives the page. |
| `CanvasText.cfg`, `MCWebApp` | `TextsPersist` | The handler of the mouse sees the texts of the first render: a dragged text is not saved (`LabCanvas.jsx:403`). |

More is modelled and not reported, as nothing in the repository says otherwise.

- Backend: a container that came up in a `docker run` that failed, or went down in a `docker rm` that failed, stays behind a row that says otherwise until
  the next call on the node that succeeds; the tcpdumps of a crash stay in their containers; deleting a node or a lab over HTTP leaves its containers and its network; a
  build's row stays `running` after a crash, since startup reconciles nothing; a filter created
  enabled captures nothing until it is toggled twice; the final flush hands over
  `BatchMax` events and drops the rest; a request that finds the lock with another suspended
  request stops the loop; a delete that overlaps a toggle leaves a capture without a row.
- Console, connection: a constructor that throws in `UI.connect` leaves no panel and no timer
  (`ui.stuck`); the RA2 exchange goes on after its connection ended (`rfb.js:1572`), and its answer may
  reach the next one (`over`); a timer of the handshake (`rfb.js:2318`) that fires after its connection failed, with messages
  left in the queue, runs the rest of the handshake on the dead object, whose keyboard it grabs (`rfb.js:2215`; `late`); step 4 of RA2 waits for 2 bytes and reads 256 (`ra2.js:201`); a
  dialog about a connection may outlive it (`NoDialogWithoutConnection`).
- Console, updates: an empty update that had to wait for the queue never asks for the next (`rfb.js:2621`;
  `lost`); an image that fails or a decoder that gives up blocks the queue for good (`failed`); a refused resize is
  not asked for again.
- Console, input: keys held when view-only is turned on stay pressed at the server (`ReleasedInViewOnly`); a
  timer of a gesture that has fired counts as running (`gesturehandler.js:369`; `ResetWhenLifted`); the wheel or another button
  while the viewport is dragged leaves a button pressed until the next move; the on-screen Ctrl stays selected across connections.
- Build panel: the `finally` of a stream clears the handle of a newer build; a refused stop of
  a panel that is gone marks a newer build cancelled; "done" cannot be dismissed, and every later panel navigates to the lab again.
- Canvas: a load shown after the page turned is as old as its answer, and wipes a node that was added meanwhile; links without
  interfaces are drawn over each other's; a right click grabs the node first, which makes the selection a string, and the
  handler of the menu raises; the answer of a load is shown whatever lab is there by then; a form that is
  confirmed twice makes its nodes twice; links are drawn and sent to nobody; a place at the edge is loaded as the default (line 245);
  a text deleted before its row exists comes back; updates of one node may overtake each other.

## 5. Proofs

Everything below is proved for arbitrary sets of nodes, labs, requests, runs, filters, sockets, interfaces, connections and fingers and
arbitrary caps, from the named assumptions of the modules: labs of nodes are labs, the
"none" values are outside their sets, the filters and interfaces of a lab are finitely many and there are as many
session ids as filters and packets together, caps are naturals, the default interfaces are interfaces, and `MaxHistory > 2`,
without which `_trim_history` would not keep any message beside the two prompts; screens are not empty, and a server sends rectangles
of the kinds the client has asked for (`UpdatesAssumption`).

**NodeProofs, the handlers.** `NoPhantomRow` alone is not inductive: it says nothing of *why*
the container is there when `MarkRunning` commits. The inductive invariant `NodeInv` is

- `TypeOK`;
- `OneAtWork`: two slots serve one node only if it is excused. This is what makes the
  program counter of a request a fact about its node;
- `Agreement`: what the row and the container are at each step of a request (`RowPending`),
  with `NoPhantomRow` and `NoHiddenContainer`, for the nodes that are neither excused nor left halfway by a failed call;
- `NetOwned`: a lab's network is there only if the lab is leaky, a container is attached,
  a row says running, or a request of the lab is at a step that still leads to the
  network's removal or to a container.

`TypeCorrect`, `NoPhantom`, `NoHidden` and `Teardown` follow from it. `Teardown` is the one
an interleaving argument gets wrong by hand: that two last stops cannot each leave the
network to the other rests on the count being read *after* the commit and the container
being gone before it. The agent's `stop_node` has the reverse order, and the same
statement is refuted there.

**NodeProofs, the tools.** The tools bring a second order of the same two writes, so what `NodeLifecycle` relies on has to be
stated anew. `IInv` is `ToolTypeOK`; `Slots` (a slot has a node exactly at the steps of a node, and inside `delete_lab` one
of its lab); `Serial`; `AtRow`, where the tool's stop has taken `running` from the row *before* the container goes and
the handlers' start writes it *after* the container is there; and `NoPhantomRow`. The reverse orders are both safe
because a phantom needs the row to say running in between. For `DeleteLabSweeps` a second invariant, `SweepInv`, says what a
`delete_lab` without company has done so far: each node of its lab is without a container, on its list, in its hands, or
taken away by somebody else (`Handled`); the network is dealt with before the rows go; and once they are gone (`Gone`, `Unborn`) nothing
can bring a container of the lab back. `Noted` says that company is always recorded. From them `ToolNoPhantom` and `ToolSweeps`.

**AgentRunProofs.** `IInv` adds to the properties `Ledgered` (where the generators stand
determines what the row says, and a cancelled verdict has a set event behind it), `Railed`
(the counters), `Bounded` (the history at every point of the loop) and `Owned` (the last lab
is one the run made). `TrimBounds` is the lemma on `_trim_history`. The typing of `history` needs
`Bounded`: trimming is typed only for a history that has its two prompts. From `IInv`:
`RailsHold`, `RegistryClean`, `Settled`, `CleanedUp`; the action property `CancelKept`; and
`LedgerImplemented`, the refinement of `RunLedger`.

**TrafficProofs.** `RowsMatchCaptures` says nothing of a filter while a request is at work on it, and everything
afterwards: the invariant has to say where each request is going. `IInv` is

- `Shape`: types, and when a request has a filter, a write and calls to make;
- `Capturing`: `NoStrayClient`; a thread that reads belongs to a session a filter has; the threads that
  outlive theirs are no more than the packets read. By the last of these a new session is not one a late
  thread still refers to (`FreshIs`, which counts sets), which is what keeps its clients its own;
- `Company`: requests on one filter know of each other and their filter is excused;
- `OnCourse`: of a request alone on its filter, that what it still has to call fits the row it has written
  (`Captures`), that a message out says what the session is, and that a failure is excused or leaves both on;
- `Settled`: until a request writes, row and session are as the last one left them.

`PlanIs`, `RouteIs` and `ProceedIs` are the lemmas on toggle, PATCH and DELETE: the calls a route plans fit the state
it is about to write. `OthersKeep` is why the proof does not look at two requests at a time. The lock is not used: what
`RowsMatchCaptures` needs is that a request does not meet another one on its filter, which the lock does not
ensure; it is what the order of the messages rests on (`LastWordAgrees`, below).

**TrafficProofs, the messages.** `LastWordHeld` needs the lock. `TellInv` is `Held` (whoever is in the middle of a broadcast, or of
a flush, has the lock), `Reach` (an iteration reaches sockets that are open, and a new socket has been told nothing), `Telling` (the
word a broadcast spreads is true while it lasts, and whoever it has passed knows it) and `Informed` (where no word is
on its way and the last one was not cut short, browsers know the truth). It uses `IInv` for what a session is. The
sets of clients and interfaces are finite, requests are not the names of packets.

**WebAppProofs.** *The builder.* That a live stream is the newest one says nothing of who can stop it. `BuildInv` is
`BuildTypeOK`; `Unstarted`, builds to come have no stream; and, as long as nothing was `hurried` or `stranded`, `StreamHeld`
(a live stream is the newest build's, and the mounted panel has its handle and is the instance it was started by) and
`PanelShown` (what the store says, and what is to be stopped, belongs to the newest build). The instance is needed: the end of a
stream clears the handle only in the panel of its closure. From it: `OneLive` and `SpinnerHeld`.

*The feed.* `FeedInv`: `Placed` (a socket in use is for a lab) and, unless the page turned, `Heard` (a socket whose events
the page hears is the one it refers to, for its lab), `Watched` (a socket that lives is heard) and `OneTimer` (one reconnection at most is due, of the hook on the page and for its lab, and then no socket is referred to: so the clean-up calls off all there is). `Heard` is
about sockets that close as well: without it the close event of one of them could clear the reference to another. This is exactly
what `turned` breaks. From it `FeedHeld`.

*The canvas.* `CanvasInv` types the hand and the dialogs, and adds `MayJoin` (the dialog joins two different
nodes) to `InterfaceOnce`; from it `InterfaceHeld`. Nothing is assumed of the links that are loaded: while the dialog is open no interface it offers is in use, and that is all a drawn link needs. `CanvasIsLab` holds only at rest, and the invariant, `MirrorInv`, says how what is under way
makes up the difference between canvas and backend: `Founded` (what the page touches the backend has known), and, while nothing was overtaken or
refused, `RunsApart` (a run that makes nodes is for this lab, and nobody touches its nodes before it is over), `OneRequest` (one request
for a thing at a time, and what is to be deleted is off the canvas), `OneLoad`, and of each node `Mirrored` (shown is in the lab, and in the lab
is shown, about to be deleted, or about to appear) and `InPlace` (a request under way puts it where it is shown, or the backend has it there). A load that is shown brings the rows it was served from: `Recalled`
says that the backend still knows them, and where none of its lab has changed since, they are the rows of now. `TextInv` is the same argument for texts:
`PostsApart` (a text whose row is being made is on this page, without identity, and has no row yet) and `TextMirrored` (shown with an identity is in the lab, and in the
lab is shown so or about to be deleted). From the two `CanvasHeld`, for every load, gesture, deletion, creation and turn in between.

*Together.* `PartsImplemented`: every behaviour of the application is one of each of its parts, fairness included; so
`PagesHeld` carries the invariants over.

**VncUiProofs.** A handler of an object is nested operators over one record, so the invariants are stated of a record and each
operator is shown once. `Turned` is what a handler may do to a connection: nothing, end it, or finish the handshake, with the events that go
with it; `SettleKeeps` is what the page makes of the events of one turned object, a fold over two at most. `PageInv` is `Objects`
(each object is untouched or has what goes with its state, `Link`), `Follows` (`UiFollowsRfb`) and `Ways`. `UserHasAWay` alone is not inductive: it needs that
the look of the page, `visual`, is "reconnecting" only while a reconnection is pending, as the end of a connection reads
it. From it `GivenBack`, `PageFollows` and `WayOn`.

That no message is forgotten rests on what may be on its way. `Run` is a turn of the server from what it is about to say; `Expect` what the handshake
waits for where it stands. `Stream`: the queue followed by the network is a `Run` from what is expected up to the server's own turn. `Shape` is where
a connection attempt can be, and `Attended`: whatever is there and not read waits for the user, who was asked, or for a promise. Each reader, each security
type of its own, is shown to keep the three (`Fine`), whatever the loop has left. From `LiveInv`, which says this of every attempt, `NoneForgotten`.
`NoReadAhead` is about the one read without a wait of its own. `FirstInv` says that until the server of the first connection has named its types no timer of the handshake is pending and
its loop looks only with something to read, and that the first object is alone until it is down. From it `NothingReadAhead`. (Of later connections it is false: `over`.)

**RfbInputProofs.** Three invariants, which share the server's state.

- `FingerInv`: each finger that is down is followed or ignored, and which gestures are still possible goes with how many came down
  and with the timers (`Ready`). What a handler pushes is one event, or a start and what follows it (`Tells`), and `Grip` is the gesture that
  holds a button: so the handlers of the RFB object, which hear only events, hear no second start and no end of another gesture.
- `ButtonInv`: the server holds no button but those the mouse has (`MouseHolds`), or the gesture (`TouchHolds`); while a press waits to be told from
  a drag of the viewport it holds none (`Waits`); a position that differs from the wanted one waits for the timer (`CaughtUp`).
- `KeyInv`: the server holds what the keyboard's list says, what is `kept`, and the on-screen Ctrl (`Believed`); for some codes the list
  can have one symbol only (`Listed`), which is what the workarounds rely on when they release by code.

A key handler makes several calls; `Calls` says that they have been told so far, and `ToldMore`, by well-founded induction on
their number, that one more call is the fold over the longer sequence. `AllKeysUp` folds over the set of keys held, whose order is
arbitrary; it is shown by induction on its size. From the three: `NoStuckKeyHolds`, `NoStuckButtonHolds`, `PointerCatchesUpHolds`, `OneGestureHolds`.

**RfbUpdatesProofs.** The invariant is `Served(c, srv.left)`, stated of any record like `c` and any number of rectangles the server owes. No
part of it holds by itself for the whole of a step: a message draws, resizes, flushes and asks, and handling goes on with the next.

- `Screen`: types, the viewport inside the buffer (`Fits`), `Tracked` (`StaleIsDamaged`), the head of the queue not ready (`Blocked`), nobody waiting for
  an empty queue (`Awaited`). In the middle of a resize neither `Fits` nor `Tracked` holds; `Loose` and `Steady` are what is left, and `ChangingPos` and
  `ChangingSize` say that each way through `viewportChangePos` and `viewportChangeSize` brings both back. That is why `resize` may set the buffer first.
- `Ordered`: `Drawn`, the buffer when all that waits is drawn, is what the server drew. `Drawing(p, q, r)` says it of pixels and actions alone, so that
  what does not draw, a flip or a settled state, can be left out of account (`DrawingOnce`), and the part that is drawn joined to the part that waits (`DrawingJoins`).
- `Owed`: the parts that have arrived are updates one after the other, the last one short of `left` rectangles. Without it `rects` might be decremented below 1.
- `Asked` and `Resizing`: a request is with the client, or with the server, or answered by something in `inbox`, and in one of these places only.
- `Coming`: a context has given its decoder no more chunks than it has pending entries (`Fed`), while nothing failed just those, in order (`Matched`);
  each frame of the queue has a payload number of its own (`Numbered`); and one that loads is kept in some context (`Promised`).

`Perform` and `Turn` are folded over queue and inbox; `DrawRuns` and `TurnRuns` give a fold its run of intermediate states, and `Climbing` is the induction
along it. `HandlingMessages` is the lemma on `_handleMessage`: each of `HeaderTurn`, `RectTurn` and `EndTurn` keeps `Served`, and in the end all is handled or the object
waits (`Caught`); `Resuming` says the same of what the flush resolves. From them `InOrder`, `StaleDamaged`, `Asks` and `Waits`.

**RfbStreamProofs.** For any scripts and any way to cut what they write: `CutsMakeNoDifference` and `CleanBetween`. Of what the server writes nothing is used but that it is
bytes (`Turn` is about any sequence of them). Where a TLC run cuts the streams it was given at every byte, the theorems say why no cut of any stream matters.

The argument is about one call. `With(c, w)` is the client with all of the stream `w` in its queue, of which `c` has the beginning. `Reads` and `Resumes` say of
a call `now` on what there is, and of the calls `then` and `later` on `With(c, w)` and `With(now, w)`: if `now` waits, `later` is `then`; otherwise `then` is
`With(now, w)`. `Frame` is what a call leaves alone. Each decoder, pseudo-encoding and message has one lemma of this kind, put together from those on
what their reads have in common. A call that waits *after* it has read is the hard case: it must have put back every byte, or have kept what they
said (the line of a raw rectangle, the lengths of Tight and ZRLE, Tight's control byte, a segment of a JPEG). The end of a JPEG scan is searched for
in what has arrived; `ScanEndStays` says that bytes that come later do not move it. `UpdateRectReads`, `MessageReads` and `NormalMsgReads` join them into the turn of the loop.

`CutsMakeNoDifference` needs to know with what a turn begins, and `CleanBetween` is not inductive. The invariant, `StreamInv`, is

- `Client`: which fields there are and that the queue holds bytes, the index and the counters are naturals;
- the queue is a beginning of the server's stream, and the index is in the queue; a client that runs between two messages has a byte to read;
- `Fits`: what the decoders keep belongs to the rectangle in hand, of its encoding and size. Its second half, `Midway`, is the conjunct that
  has to be given up where the server went `astray`; `Counted`, what the decoders' counters can be, holds even then.

`Stepped` is the lemma of each decoder about `Fits`: it finishes with nothing kept, or what it keeps still belongs to its rectangle. From the invariant:
`CutsAreMet` and `NothingIsLeft`, from `StreamAssumption` only.

Three things the proofs found in the model. That cuts make no difference is false for a server that breaks the protocol, and the three places where it may go wrong
are now named (`astray`). `NoStuckButton` had held only for the small `MaxModes`: what a long press leaves held survives
turning the dragging of the viewport off and on, which is now said (`spared`). And a `CASE` of `Gestures` had overlapping guards, of which a prover may take any.

Only model-checked: of the console's stream `ReadAsWritten` and `WaitsForBytes`, which say that reading inverts `VncWire`'s writing. By `CutsAreMet` the cuts add nothing to
this, so that what is left is one reading of each whole stream, a statement by induction over scripts and the data in them, which no installed prover can be given; TLC evaluates it for every encoding. And
the liveness properties `UnusedNetworkCollected`, `BuildEnds`, `LoopResumes`, `SpinnerEnds` and `FeedReturns`: liveness under fairness and
`ENABLED` are beyond the prover used. So are induction theorems that take an operator; where a proof needs induction it
takes the smallest counterexample of a set of naturals (`WFMin`), as for the folds of the keyboard and of the updates.

## 6. Not modelled, and why

- Payload: images, environment, ports, prompts, tool arguments, redaction, names. They
  decide *that* a call fails, which every action allows anyway.
- `ensure_image`: pulls change nothing the model keeps; its failures end a start before its
  first effect, and such a start changes nothing.
- QEMU, VNC and PTY nodes, NAT, captures: sequences of commands of the operating system whose effect is not
  determined by this code; their tables in memory are changed by one handler at a time, but for the check
  before an `await` that is listed as a hazard.
- Links, accounts, templates, text objects: rows written in one transaction each. The race between two calls of `link_nodes`
  needs two builds at once on one lab.
- License, billing, email, provider settings, updates: calls to services, and files written whole.
- Two database connections writing at once: SQLite serialises writers. A statement that fails
  for a lock is modelled where the code has a rule for it (`RecordFails`, `Close`).
- More than one backend process: the code keeps its registries in process memory and
  starts uvicorn with a single worker (`main.py`).
- A restore that overwrites the open database file: what follows is SQLite's behaviour on
  undefined input.
- Console: ciphers and their arithmetic, tables of key symbols, scaling, cursors drawn in software, settings
  and the look of the page, raw pixels of 8 bits. Of the stream, inputs on which the reader goes out of step and no server
  of the protocol sends: an extended text provided to a view-only client (`rfb.js:2436`), a fence of more
  than 64 bytes (`rfb.js:2506`), a palette without pixels (`tight.js:206`), an unknown type of cursor (`rfb.js:2813`).
  `Websock`'s sending side: `sQpushBytes` loops for ever when its buffer is full and the socket not open (`websock.js:202`); the client
  never has that much to send. A video decoder keeps at most 64 contexts (`h264.js:264`); one dropped for that is
  like one the server reset.
- Canvas: networks, shapes, styles, the status of nodes, undo of the view: changes of this page only. Other pages show
  what they fetched.

## 7. What could come next

1. For each encoding, that a decoder given the whole of what `VncWire` writes draws what it means, as lemmas on small data.
2. `Captures`: the automatic stop against the manual one, and two starts around the `await`.
3. `Links` beside two builds: check and insert in separate transactions.
