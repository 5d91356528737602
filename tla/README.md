# Media Delivery Network Simulator: the verification project

The program emulates a network that delivers media streams.  A *Master*
(Java, `src/src/main/java/edu/cmu/mdnsim`) takes a work config from the user,
has *node containers* create the *nodes* named in it, and starts *flows*: paths
from a sink over processing, transcoding and relay nodes up to a source.  The
media packets go over UDP; all control goes over an asynchronous message bus.
A *web page* (JavaScript, `src/src/main/resources/js`) makes the work configs
and shows the running streams.  It brings its own copy of the bus, of the
transport protocol *Trap* below it, and of the graph library *sigma*.

This directory models the control of the program in TLA+, checks the models
with TLC on small instances, and proves the most important properties with
TLAPS for all values of the constants.

## 1. Inventory

| Component | State | Operations | Talks to |
|---|---|---|---|
| `Master` | tables of containers and nodes, `streamMap`, `flowMap`, `runningFlowMap`, `nodeToFlows`, `nodesToInstantiate` | register container and node, start and stop a work config, reset, stream reports | containers, sinks, web page |
| `NodeContainer` | `nodeMap` | connect, `createNode`, `reset` | Master, its nodes |
| `Flow`, `Stream`, `WorkConfig` | node properties (URIs, addresses), lists of flows | `canRun`, `updateFlowWithNodeUri`, `replaceFlow`, validation | travel in the messages |
| `GraphChecker`, `Digraph` | none | validation of an uploaded topology | Master |
| Nodes (`SinkNode`, `ProcessingNode`, `TranscodingNode`, `RelayNode`, `SourceNode`) | `streamIdToRunnableMap` | `executeTask`, `terminateTask`, `releaseResource`, `reset` | up- and downstream nodes |
| Runnables (`*Runnable`) | flags killed, reset, upstream done; sockets; the stream | `run`, `clean`, `sendEndMessageToDownstream` | UDP, the next node |
| `PacketLostTracker` | ring buffer, window, counters | `updatePacketLost`, the loss rates, `reset` | its runnable, the reporter |
| `NodeReporter`, rate and latency trackers, `RateMonitor` | running averages | periodic report | Master |
| `WebClientGraph` | nodes and edges on display, their colours | add, update, message to the page | Master, its timer |
| Web page (`displayGraph.js`, `nc.js`) | the graph shown, the watcher tables | upload, start and stop, `create` and `update`, mouse | Master over the page bus |
| Page bus (`rmb-amb.js`, `amb-tmb.js`, `tmb.js`) | name, resources, callbacks | `request`, `send`, dispatch | broker, Master |
| Trap (`trap-full.js`) | channels, message buffers, transports, endpoint | `send`, `open`, `close`, recovery | server |
| Conrad (`conrad.js`) | jobs, waiting, running, sorted | `addJob`, `killJob`, the loop | renderers |
| sigma: graph, renderers, camera, captors, quadtrees, plugins | arrays and indexes, batches of edges, the place of the camera, what is hovered | changes of the graph, `refresh`, `goTo`, drags, zooms | mouse, animation frames |
| `UDPHolePunchingServer` | none | answers with the sender's address | nodes |
| Message bus (RMB, external) | messages in flight | `send`, `addMethodListener`, `removeResource` | everybody |

What makes it correct, and where it is hard:

* **Master.** A flow must be started as soon as all its nodes are known and
  not before.  Registrations, uploads, stops and resets come in any order; an
  upload makes new `Flow` objects for ids that exist already, so the object
  that is tested, the one that is sent and the one that is remembered can be
  three different ones.
* **Validation.** Two checks in two languages, one of each flow and one of each
  node, must together admit exactly what can be run.  An exception in the
  second is swallowed, so that it runs on a part of the graph.
* **NodeContainer.** A node is created once, is reachable when it is
  registered and is gone after a reset.  `createNode` and `reset` are not
  synchronized.
* **Nodes and runnables.** A stream ends at every node, by itself or when it is
  stopped; nothing is left open; sockets are not closed under a thread; other
  flows are not disturbed.  A task is started from the sink up, ends from the
  source down, is killed from the sink up and released from the source down,
  and all four waves may meet.  UDP loses packets.
* **PacketLostTracker.** Exact counting with a buffer that is used over and
  over again, whatever the order, repetition or gaps of the packets, and with a
  reader on another thread.
* **Web graph and page.** Uploads, stream reports and the report timer share the graph
  without a lock; the page guesses from the number of nodes whether an update
  is of the graph it shows, and an update may end in an exception half way.
* **Page bus.** Answers come in any order and find their callback by a name
  that the broker may have changed meanwhile.
* **Trap.** Messages are sent again over another transport when one dies, arrive
  twice and out of order, and still have to be handed on once and in order; the
  endpoint must always be able to recover, and must stay closed when it ended.
* **Conrad and sigma.** Batches of edges run over many frames while the graph
  changes under them; the screen has to catch up.  Two captors share one layer
  of hovered nodes; the quadtrees round their cells and must miss nothing.

All hazards, with their lines in the source and the properties that would catch
them, are listed under `hazards` in `PROJECT.json`.

## 2. Modules

Definitions keep the names of the code (`nodeToFlows`, `runningFlowMap`,
`RegisterNode`, ...), and the correspondence of every definition to lines of
the source is the `map` of `PROJECT.json`.  An operator whose comment begins
with "Variant:" is a faulty version of the definition that follows it; no
specification uses it, it documents which property the definition is needed for.
For each `X` below that a run checks, `MCX` gives its constants their values, and `XProofs` holds
its theorems (those of `PacketLostTracker` are in `StreamChainProofs`).

| Module | Contents |
|---|---|
| `MessageBus` | the control messages and their delivery; the constants of a topology |
| `Master`, `NodeContainer` (extend it) | one action per listener; `createNode` in three steps, `reset` node by node |
| `Deployment` | Master and containers together |
| `WorkSpec` | work configs: how the page makes them, how the Master validates them |
| `UploadedWork` | `WorkSpec` and `Deployment`: from the making of a work config to its streams |
| `StreamChain` | one stream: nodes, runnables, control messages, the last packet |
| `PacketLostTracker` | the ring buffer and the two threads that use it |
| `WebUpdates`, `WebClientGraph`, `WebClient` | the updates, the Master's picture of the streams, the page |
| `WebView` | the three together |
| `SigmaGraph` | the graph of sigma as a record with an operator per method |
| `TmbMessage`, `PageBus` | frames as bytes; the bus of a page, with broker and Master as the page uses them |
| `TrapMessage`, `TrapMessageBuffer`, `TrapChannel` | codec, reordering buffer and channel of Trap |
| `TrapLink` | a channel over several transports that fail |
| `TrapStream` | what a channel promises: the abstract specification of `TrapLink` |
| `TrapClient` | the life of an endpoint with its WebSocket and HTTP transports |
| `Lists` | the loop that takes members out of an array |
| `Conrad` | the scheduler, as operators over a record |
| `SigmaRender`, `SigmaCamera`, `SigmaPage` | the renderers, the camera and its animations, and a page that uses them |
| `SigmaQuad`, `SigmaEdgeQuad`, `SigmaHover` | the two indexes of the plane, and what is under the mouse |

### Deployment

`bus` counts the copies of every message that was accepted and not yet
handled; any of them may be handled next, so messages are reordered but
neither lost nor duplicated.  A message to a container without a URI goes to
`deadLetters`.  A `Flow` object is a pair `<<id, upload>>`, since
every upload makes its own; `uris[o]` are the nodes of it that carry a URI;
`streamMap`, `flowMap` and `runningFlowMap` hold, for an id, the upload whose
object they refer to, 0 for none.  The `synchronized` methods of the Master are
one action each; `stopWorkConfig`, which is not synchronized, is one action
per flow.  `createNode` is `CheckNode` (the lookup), `AnnounceNode` (listeners and
registration) and `PutNode` (the insertion), counted per node so that any
number of calls can overlap.  `registerNodeContainer` is not synchronized either: `RegisterNodeContainer` looks the
label up and `PutNodeContainer` puts the container, and between the two another container may find the label free.

`StartMsg` carries the truth of "every node of the flow that is sent has its
URI", which is what `OnlyCompleteFlowsAreSent` is about.  The URI that the code reads
from the flow object and the one in the Master's table are the same as long as
a label keeps its container; the model uses the table.  Where a label changes hands the two may
name different containers; what is proved does not speak of the place to which a start or stop request goes.

### WorkSpec and UploadedWork

A flow is the sequence of its nodes from the sink up, as in the file.  The page
makes one by the button that adds a random stream (`AddStream`: `RandomFlow` is what the upstreams
chosen for the tiers come to); a user's file is written
node by node (`hyphen`: its stream has an id with a "-", the sign that joins the parts of a flow's id; `down`: the first node of a flow may name a downstream; both are refused), and stops being extended after an error, since the rest would make no difference.
`IsValidStream` with `IsValidFlow` and `Validate` are the two checks; `GraphOf` is the graph as far as it was built when an
entry threw.  In the model a node id has one type.  Each upload is checked alone.

`UploadedWork` joins this with the deployment: what is uploaded is what was accepted.
`Followed` bounds the work configs whose deployment is explored.

### StreamChain

The chain begins where the deployment ends, with the start message to a sink.
`task[n]` is the entry of `streamIdToRunnableMap` for the one stream, `run` the state of
each runnable: where its thread is (`running` in the loop, `ending` after it,
`cleaning`, `ended`), its flags, its destinations, and the list of
flows in its copy of the stream.  `closed` means its receive socket and channel; the socket by which a relay sends is never closed
(`RelayRunnable.java:230-241`).  `executeTask` is two steps, since the thread is submitted
before the handler is put into the map (`LaunchTask`, `RecordTask`); a relay that has a
runnable lets the flow join it (`JoinTask`).  `releaseResource` and `reset` wait for the
thread, so each has a beginning and an end.  Of the packets only the
one flagged last is modelled: `SendLast` sets `lastPacket` at the destinations that do not lose it.
The monitor of a node is taken by the `synchronized` methods only; a source's
`executeTask` is not one of them.

### PacketLostTracker

The methods are synchronized and are actions; `updatePacketLost` is one action per iteration of its
loop, during which `arriving` holds the packet and the monitor.  `inTime` is a history variable: the packets
that were taken into the buffer.

### WebView

The handlers of the Master (`master`), of a progress report (`progress`) and of the report timer (`timer`) go step by step,
with the monitor only where the code takes it.  `addEdge` is a step for each node, each set of links and each link that is missing (`AddMissingNode`, `AddMissingSet`, `AddLink`).
The timer reads the nodes one by one, then the
links node by node, with the iterators of the hash map, whose order is the constant `Table` and which has the next node in hand before it returns one; what it has read are
objects, whose colours and places are those of the moment in which the JSON is made.
On the page a handler is one step: `CreateGraph`, `RebuildGraph` and `UpdateGraph` are the three cases of an update, each as far as
it gets before its exception.  `lastMsg` and `threw` are history.

### Page bus

A path is the sequence of its parts.  `request` makes a child resource with a number of its own, `Finds` and `Callback`
are the dispatch from the root down.  Frames are made into bytes and read again (`Received`).  The broker gives the name
that was asked for or another one.

### Trap

`TrapLink` is the way of data from one endpoint to its peer; a transport that connects again is another connection.
A transport may fail after any part of a batch (`SendFunFails`): a WebSocket has sent that part, HTTP still posts what it was given.
A chunk is `MESSAGE`, `FRAGMENT_START` or `FRAGMENT_END`; `Fetch` and `Reassemble` are what the peer's channel does
with what `MessageBuffer` lets through.  `sent`, `assigned`, `consumed` and `delivered` are
history.  `IsStream` is `TrapStream` with `received <- delivered`.
The ids of messages end at `MaxId` and begin again; `LinkAssumption` keeps a run below half of them.

`TrapClient` is a record `endpoint` and one record per transport.  A change of state of a transport calls the
endpoint, which disconnects others and changes its own state before the call
returns; operators map the pair of both to the pair after the call, loops over transports are recursive functions
(`DisconnectAll`, `ConnectAll`), and each event of the browser or the server is one action that applies them.  Timers and requests
are counted, so that stale ones fire late.

### Conrad and sigma

A page is one record `w` that the operators of the renderers, the camera and the scheduler take and give back, since JavaScript has one thread;
an exception is the flag `threw`.  The scheduler calls back through the constant operator `Body`.
A place is one coordinate and a ratio, and `At[n]` the cell of the quadtree that holds a node.  `SigmaHover` has points in two dimensions and integers
with the unit `Unit`, both captors and the plugin that drags nodes.

## 3. Runs

| Run | Question | Instance |
|---|---|---|
| `deploy_tables` | do the Master's tables agree whatever happens, is no requested node forgotten, is what is sent complete | two flows over two shared nodes, two uploads, a stop, a reset; one container |
| `deploy_live` | is what the page makes accepted, is what is accepted a forest, is every accepted flow started, and does a reset delete the nodes | all random streams over 3 hosts, files of two flows with up to three nodes; one accepted config of two flows deployed with an upload, a stop and a reset |
| `chain_line` | false ends, closed sockets; does the stream end; does a stop free the path | a line of three nodes, a stop, a reset of the middle node |
| `chain_fork` | release order, end announcements | two flows of one work config over a relay, one of them stopped |
| `tracker_window` (a violation) | does a missing id count as lost at once, as the tracker's test says | the test's window of 10 and ids 0 to 14, one reset |
| `web_page` | is the page's graph coherent, of one update, on the screen; are the updates true | two uploads that make graphs of equal size, a reset, reports, a mouse on the edges |
| `web_live` | does the page catch up | the same without reports, a reload of the page |
| `page_bus` | does an answer reach its asker, does every asker get one | either page, two requests, two updates, two names |
| `trap_link` | reordering buffer, sending timer, frames; refinement of the stream; arrival | a WebSocket and an HTTP connection, two data of three messages, one loss |
| `trap_life` | lists of transports, recovery, end | a WebSocket and an HTTP transport, two faults, one unanswered POST at a time |
| `sigma_page` | scheduler, frozen page, screen | canvas, webgl and svg on one graph of three nodes and three edges, batches of one, three operations |
| `sigma_hover` | hovering, dragging, the indexes | three nodes and an edge, mouse and finger, two operations |

Deadlock is not checked: the
system really may stop: a simulation that has been set up or stopped, a page at rest or a closed endpoint has nothing left to do.

**Bounds.** `MaxUploads`, `MaxResets`, `MaxStops` bound what the user does: two uploads are the
least for which two `Flow` objects of an id exist, one reset the least for
a registration to cross it.  Two flows over shared nodes make every list in `nodeToFlows` hold several
objects.
In `deploy_tables` states that differ only in the listeners, the tasks of the sinks and the complete requests on their way count as one (`TablesView`): no invariant of the run and no other action depends on these.  `MaxRuns = 1` lets a node create one runnable for the stream; a second one, which a
second start of the same flow makes, is therefore outside the chain runs.  A line of three nodes has one
node of each role, and the reset of the middle node meets neighbours on both sides that go on; the fork is the smallest topology in which a
relay has two destinations.  The tracker has the window and the ids of its test; its other properties are proved for every window.
In `WorkSpec`, three hosts (`NumHosts` + 1) and two relays of the second tier make the sinks outnumber the relays and the tiers differ in size, and files of two flows are the
least in which a node can be fed twice.
In the web runs both uploads have two nodes, one of them shared: the page takes the second for an update of the first.
One update in flight (`MaxUpdates`) is enough because the timer reads the graph while the previous one is shown.
In `trap_link` the buffer grows from 2 to its bound of 2 and over it, the window of 34 bytes holds one or two messages, and the 16 ids are twice as many as the loss of a transport can make the peer see again.
`trap_life` has one transport of each kind; two faults are needed for the second to hit the recovery from the first.
Batches of one edge put a step of the user between any two edges; three operations are a change, a kill and a gesture.
In the hover run the nodes stand on a grid with which cells of the quadtree are divided, at their borders and in the middle.

**Fairness.** The bus delivers what it accepted; every handler that has begun goes on; every thread
runs; a source, whose rate is positive, gets to its last packet; timers fire and connections that are open deliver.  Nothing obliges a user to act, a
container to come up, or UDP to deliver anything, and nothing keeps a transport alive.  `WF` is enough everywhere: none of
these steps is disabled again by others while it has to be taken, except where the
property names the exception.  In the deployment and the Trap link a single `WF` of all progress together is enough, because each step uses up a message or a call that only bounded many steps make.

## 4. Where the program and its texts disagree

The models follow the code.  What was met on the way:

*Control.*  `createNode` is not synchronized, though the comment at `Master.java:256` relies on it: a node may be created twice.
A registration in flight during a reset (`Master.java:382`) leaves a node in the table that has no container any more, and a new request for a node may meet the old one before its container has deleted it, and be ignored; `NoRequestIsForgotten` therefore speaks of the time before the first reset.
Of two containers with one label the one whose registration ends last may displace the other (`Master.java:359-363`), although a label that is taken is meant to stay.
A stop that meets the natural end of the stream is given up at `SinkNode.java:95` and frees nothing below; `StopOfUnfinishedStreamReleasesPath` is about the others.
A flow that joins a relay whose runnable was killed (`RelayNode.java:84`) ends with it.
`replaceFlow` (`Stream.java:143`) drops another flow when it is given an id that is not in the list (the exception of line 141 needs an empty list), against the comments at `Stream.java:127` and `RelayRunnable.java:190`; `EveryDestinationIsTold` holds for flows of one work config.
A relay never closes the socket it sends by (`RelayRunnable.java:230-241`).
A flow that is still incomplete stays in `nodeToFlows` (comment at `Master.java:103`).
An upload that repeats a running flow starts it again (`Master.java:524`).
`PacketLostTrackerTest` (line 87 and lines 91 to 104) expects a missing packet to count as lost as soon as a later one arrives; the tracker counts it when it leaves the window.  `tracker_window` shows it (`MissingIsLost`), and it is the finding in `PROJECT.json`.

*Validation.*  A work config with an absent or unknown upstream makes `GraphChecker` throw, and what was built before is checked (lines 41-47).  A relay that is its own upstream and alone in its flow is accepted, and so are two flows that form a cycle of relays, both without a source; `AcceptedIsForest` speaks of flows that begin at sources.  The message of `isValidFlow` (`Flow.java:260`) says that the last node should be a source; that is not checked.

*Web graph and page.*  An exception in the report timer (`WebClientGraph.java:145`) ends it for good (comment at `Master.java:837`).  A late progress report recolours an edge that has ended (`WebClientGraph.java:371`).  The page takes an update with as many nodes for one of the same nodes (`displayGraph.js:261`): a new edge without a new node is never shown, and after a reset and an upload of equal size every update throws.  Nodes that are sent between `addEdge` and `setLocations` stay where they are put.  `startMultipleSinks`, `startFlow` and their helpers (`displayGraph.js:662-804`) are called by nobody and send by a `Warp` that is not defined.

*Page bus.*  The children of requests are never removed (`rmb-amb.js:330`); a request before the bus is open throws after it made its child, one before the answer to HELLO loses its answer; nothing reconnects; a bus that opens before the document is ready is not noticed; `amb-tmb.js` overwrites `send` by an empty function (line 38); `nc.js` removes no rows from its table.  `rmb-amb.js` has a conversion to bytes that mangles other characters than ASCII; it is not the one in use.

*Trap.*  A failed POST counts as sent (`trap-full.js:7246-7271`), and what failed is not queued again (6856 against 4049).  A flush timer with an empty buffer may leave an HTTP transport DISCONNECTING for ever (7204 against 7351).  Late answers make a transport CONNECTED that is not active, also after the end.  Over HTTP a message can leave the count of bytes in flight twice, with the answer to its POST (7258) and with the peer's acknowledgement (6893), so the window bounds less than its description (1499) says.  `_ackTask` is never reset (6930, comment at 6927).  In the constructor of `Trap.Message` a number conversion of binary authentication data (67-99), in the growing byte stream (103) the bytes of a rest over 512, in the seven-bit numbers (381) ids from 2^27 on and in text mode a chunk border inside a character go wrong; the page uses none of these.

*sigma.*  A canvas batch skips an edge after each batch but the last (`sigma.renderers.canvas.js:251`, webgl does not).  A job that throws stops the scheduler for ever (`conrad.js:356`).  A drag that comes back to where it began and rests is not rendered, so its edges stay hidden.  When the hand rests and lets go of a drag while the wheel still zooms, the update of the one takes the place of the other's in the next frame and the last is not drawn (`sigma.captors.mouse.js:186`).  The last update of an animation falls to the throttle of one render per frame.  The second captor's `outNode` takes the wrong node off the stack of the dragging plugin (`sigma.plugins.dragNodes.js:138`).  An edge that is lit when one of its ends goes makes the render throw.  Dragging divides by the distance of the first two nodes (250).

## 5. Proofs

The theorems hold for every value of the constants that satisfies the named assumptions, which TLC evaluates in every run:
types of the constants; that a sink is a node of its flow (`TopologyAssumption`, `RequestAssumption`, `ChainAssumption`); that the hash table lists every node once (`TableAssumption`: a key has one place in it);
that the names on the bus are text that a frame can hold and the ids of requests are different (`BusAssumption`); that a link's ids do not wrap around within a run (`LinkAssumption`); `FollowedAssumption`, which says that node and flow ids mean the same in both halves of `UploadedWork`.

**Deployment.**  `UploadedWorkProofs` first proves that

    IInv == TypeOK /\ TablesOK /\ OnlyCompleteFlowsAreSent

is inductive.  `TablesOK` strengthens the three invariants about the tables by what
they rest on: the maps and lists refer only to objects that were loaded since the last reset, and an object of a flow id exists only
for uploads that were made.  The heart of it is the pair of `UrisFollowTable` (an object carries the URIs of exactly the registered nodes) and
`WaitersAreListed` (what it misses, it waits for): each registration uses the second to preserve the first.  With them
`OnlyCompleteFlowsAreSent` follows although the object tested and the object sent differ, because
both carry the same URIs.  A second invariant, `PlaceInv`, is about the time before the first reset: nodes stay where they are (`NodesStay`), a node that was made registers
(`MadeNodesRegister`), and a node that was asked for is on its way (`AskedNodesAreOnTheirWay`); it gives `RequestsAreKept`.  Neither needs a label to keep its container: where the second of two containers displaces the first, what the first was asked for is still on its way there.

**UploadedWork** adds the making and checking of a work config to the deployment and takes the choice of what is uploaded away from it, so that what is proved of the deployment holds of it (`UploadedFlowsAreComplete`, `UploadedRequestsAreKept`).
Of the work configs, `WorkInv` says how one stands with its maker and with the verdict on it.
`WellMade` is what the flows of a random stream have in common (a node has the same upstream in every flow, a flow goes from a sink to a source, no node
names a downstream), and `WellMadeIsAccepted` that all checks of stream, flows and graph take whatever is well made: `PageSpecsAreAccepted`, for any number of hosts, relays and sinks and any draw.
In `AcceptedSpecsAreForests` no cycle can hide in several flows: of any set of nodes, the one that comes last in a flow has no upstream in the set, because its only upstream is the next in that flow (`AcceptedForest`).
Both rest on what `GraphChecker` reads, independently of the order in which it reads it (`FlattenSeqFacts`, `CompleteIsRead`), and on `UserAssumption`: the name "NULL", by which the code knows that there is no upstream, is not given to a node.

**StreamChain.**  The inductive invariant

    IInv == TypeOK /\ NotYetCreated /\ NoCloseUnderThread /\ EndIsTrue

adds to the two run properties that an end message on its way and a last packet in a socket imply the end as a set flag does
(`EndIsTrue`), and that a runnable that is still to be created has sent nothing (`NotYetCreated`).
The steps are not looked at one by one for each invariant: `StepMoves` says what any step may do to a
runnable, `EndMessageNeedsEnd` who may send an end message, and the invariants follow from these two.
The sharpest statement about the end of a stream is `OnlyDisplacedAreNotTold`: it is announced to every destination, except those of flows that `replaceFlow` has displaced from the list of the runnable, whichever flows were uploaded in whichever work configs.  It needs `EndInv`: what a node starts fits the topology,
and destinations are downstream nodes of flows that joined.  Its hypotheses say that the nodes' views of up- and downstream agree (`TopologyAgrees`) and that a flow is started with its URIs (`StartedWhenKnown`).  For flows of one work config, whose lists name them all (`ListInv`), nothing is displaced; the corollary `DestinationsAreTold` says so of the property of `chain_fork`.

**PacketLostTracker** (at the end of `StreamChainProofs`; its specification is `TrackerSpec`).  Its assumption is the constructor's, that the window is not empty (`WindowAssumption`); its theorems are not checked by a run.  The inductive invariant adds to the exact count (`LostIsExact`: the ids that have left the window without a packet, which is what the tracker promises as against what its test expects) that the buffer shows the window and that no id in `inTime` lies
beyond it; the arithmetic rests on three lemmas about `%`: two ids of one window have different slots, and the
id that enters has the slot of the one that leaves.

**WebView.**  `GraphInv` are the types, of the threads too.  `UpdatesTellTheTruth` needs that what the timer holds is true at each of its steps (`HeldIsTrue`): until a reset the graph only grows, node by node and set by set, and a node that is read between two such steps is one of it.
`ScreenFollowsGraph` and `WatchersHaveTheirRows` have invariants of their own over the page.
What the page shows rests on `PageInv`, which says that the graph of the page is well kept (`GraphOK`): its arrays list what its indexes hold, each once; every edge joins two
nodes of the graph; of every node, the neighbours in the three indexes are the ends of its edges and the three counts their number.
`GraphOK` speaks of the ids of edges, so that a new colour leaves it alone; `GraphOKIsCoherent` derives the same of the edges themselves (an id has one edge).
`AddNodeOK` and `AddEdgeOK` say that the two methods keep it, `ReadOK` that the reading of an update, a pair of recursive functions, does, for every order in which the edges come.  It gives
`PageGraphIsCoherent` and `PageShowsOneUpdate`.
For this no id may come twice in an update (`OnceInv`), or `addNode` would throw half way: the iterator of the timer only goes forward in the table (`NextFromIsLater`), and no node has two places in it.

**Page bus.**  `FrameSurvives` is about the codec: what `Serialize` makes of a frame `Deserialize` reads as the same frame, for texts of any characters up to 2047 and payloads of less than 2^31 bytes (`Lengths`), which is what `readInt` makes of the four bytes of a length before their sign turns.  The reader
is a loop over bytes, a recursive function: that one exists (`DecoderExists`) and that it undoes what a text was made into (`TextSurvives`) are shown with a least counterexample;
`FieldIsThere` and `FrameInParts` put the fields together.  `AnswerReachesItsAskerAlways` then needs

    BusInv == RequestsOK /\ TextsOK /\ QueuesOK /\ HelloOK

each request has its own path and got only its own answer; what waits at the broker or the Master was asked on the path of a request, and what is on its way to the page answers one;
queues hold frames that survive; and there is one HELLO in all, before whose answer only the page itself asks.  `OneListener` is the step where it would go wrong: of all resources of the
page, the dispatch from the root finds the one whose path is in the frame.

**Trap.**  `FetchedInOrder` is about the reordering buffer alone, for every size: after `put` of an accepted message, also one that makes the ring grow, `fetch` returns the next part of the numbered sequence
and the rest holds what comes later (`Numbered`, `Holds`).  The rest of `TrapLinkProofs` puts it to use: `LinkInv` says that the transports that may be used are listed once, that ids are given in order and what is on any way was assigned;
`RecvInv` that the receiver's buffer holds what lies ahead, whatever is lost, repeated or overtaken;
`StreamInv` that the chunks handed on are those the data was cut into (`CutAt`) and that the reassembly is at the right one (`Behind`).  Then every step of the link is a step or a stutter of `TrapStream` (`LinkImplementsStream`).

`TrapClientProofs` is about any number of transports of either kind.  Its inductive invariant

    LifeInv == ListIsGood /\ TimersAgree /\ NotBegun    (with the types)

says that the list of available transports is empty or holds just one that can send, that `recovering` implies its timer, and that nothing happens before the timer of the constructor.
Since a call runs through many transports before it returns, what is proved of a call is a relation of the states before and after (`Step`), which is transitive; the loops are recursive functions,
about which induction is done by a least counterexample (`FirstExists`), after an explicit function is shown to solve the recursion (`RunExists`).

**Conrad and sigma.**  `SigmaPageProofs` shows of each operator of the scheduler that it keeps the lists in order (`ListsOK`): no job is twice in a list or in two of them,
the line by priority holds running jobs and is sorted.  Loops are recursive functions; `RoundsExist` and `RoundByRound` are the induction over their rounds.
The invariant of the page, `PageOK`, adds two things that each need the other.  Until something is thrown the line holds all that is running and one timer is set for it (`Whole`);
for this a renderer may only add a job that the scheduler does not have, which it ensures by killing its last one, but only if its own variables say that there is one.
So every job of a renderer in the scheduler must have its batch under way (`JobsPending`, theorem `JobsAreUnderWay`), through jobs that end, go on or throw half way.  `PageAssumption` says that the renderers are a list, the page's own job has another id, and time does not run backwards.

**Hovering.**  `SigmaHoverProofs` has `InputComesBack` by `InputOK`: the page is dragging exactly while the captor of the mouse is switched off, which it is only while the button is down, and the captor gives the drag up with the button.
`GrabsNodeUnderMouse` rests on `GrabOK`, which relates the two captors to the plugin: its stack holds distinct nodes that one of the captors is over, of the mouse's own when no render is due, and the node to be dragged is in the stack while the plugin listens.
The two captors may differ only between an event and the render that follows, because what the hit test finds depends on the camera and the places of the nodes and on nothing else (`SameNodesFound`).
`HoverAssumption` says that the canvas has at least two nodes, all distinct, and that its edges join them.

## 6. What is only model-checked

* Everything that must eventually happen (`UploadedFlowIsStarted`, `ResetDeletesNodes`, `StreamEnds`, `StopOfUnfinishedStreamReleasesPath`, `PageCatchesUp`, `AskersAreAnswered`, `Arrives`): the prover has no rule for fairness and ENABLED.
* `ReleaseAfterUpstreamQuit`: it is not true of every topology, since it depends on the order of the requests along a path.
* `FramesAreRead`: the codec reads bytes one after the other, so what it computes is an induction over data.
* `CarefulPageNeverFreezes` and `ScreenCatchesUp`: they need that what a batch refers to is still in the graph whenever a loop runs, on top of what is proved of the scheduler.
* `HoverFollowsMouse`, `IndexFindsAll` and `RendersDoNotThrow`: they depend on the geometry of the rounded cells, that is on products of sizes and ratios that are not linear, and hold or fail with the canvas; the run takes one in which nodes and edges touch several cells.

## 7. Not modelled

* `startMultipleSinks` and `startFlow` of the page (no caller), `startSimulation` (no client calls it), `confirm_node` (its flag is never read), the synchronous request of the RMB, publish and subscribe on the page bus: nobody uses them.
* Opening sockets and the hole punching exchange, so neither fails nor blocks; the socket by which a relay sends, which is never closed.
* Rates, latencies, CPU and memory usage; the emulated work of the processing node; the computation of the window size (floating point).
* A transcoding node is a processing node whose `executeTask` is not synchronized; the model has the synchronized one.
* The metrics beside an edge and the layout of the page's tables.
* Trap's keepalive, authentication (which gives "" on the page) and compression (vendored).
* Of sigma: the drawing itself, curved edges, turned cameras, the plugins, parsers and exporters that the page does not call (forceAtlas2, GEXF and JSON parsers, neighbourhoods, A*, filters).
* Clocks and the analysis of logs.

Assumptions of the page models: a button goes up where the mouse was last seen; the timeout of a drag fires after the frames that are due; ids of nodes are used once; one
intermediate place stands for an animation; a hand rests before it lets go of the stage; a finger is alone; the hand never aligns the first two nodes exactly; after an exception the hover model stops.

## 8. Plan

What is left, in this order:

1. `CarefulPageNeverFreezes`, on top of `PageOK`: a batch of canvas has its ends in the graph and a batch of webgl its types in the arrays, except in the middle of a refresh, when no loop runs as long as there are other jobs.
2. Completeness of the index (`IndexFindsAll`) for every canvas, which needs its cells in closed form.
3. `FramesAreRead`, for which the codec has to say in closed form where a field of a frame begins.
