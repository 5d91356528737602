---------------------------- MODULE StreamChain ----------------------------
(***************************************************************************)
(* One stream on its way through the nodes: the tasks that sink, processing*)
(* (or transcoding), relay and source nodes keep for it, the threads that  *)
(* run them, and the control messages by which a flow is started from the  *)
(* sink up to the source, ended from the source down, and stopped from the *)
(* sink up and released from the source down.                              *)
(*                                                                         *)
(* The control bus may reorder messages.  Of the data only the packet that *)
(* is flagged last matters; it travels over UDP and may be lost at any hop.*)
(***************************************************************************)
EXTENDS Naturals, Sequences, FiniteSets

CONSTANTS
    Nodes,
    Kind,      \* [Nodes -> {"sink", "proc", "relay", "source"}]
    Up,        \* [Nodes -> Nodes]: the upstream node (a source names itself)
    Flows,
    Down,      \* [Flows -> [Nodes -> Nodes]]: the downstream node on the flow's
               \*   path (a sink, and a node off the path, names itself)
    Sink,      \* [Flows -> Nodes]
    Listed,    \* [Flows -> Seq(Flows)]: the flow list of the stream that the
               \*   Master sends along when it starts the flow
    Known,     \* [Flows -> SUBSET Flows]: those of them whose nodes carry URIs
    MaxRuns,   \* bound on the runnables a node creates for the stream
    MaxStops,  \* [Flows -> Nat]: bound on the stop requests for a flow
    MayReset   \* the nodes that a reset may reach

ASSUME ChainAssumption ==
    /\ Kind \in [Nodes -> {"sink", "proc", "relay", "source"}]
    /\ Up \in [Nodes -> Nodes]
    /\ Down \in [Flows -> [Nodes -> Nodes]]
    /\ Sink \in [Flows -> Nodes]
    /\ \A f \in Flows : Kind[Sink[f]] = "sink"
    /\ Listed \in [Flows -> Seq(Flows)]
    /\ Known \in [Flows -> SUBSET Flows]
    /\ MaxRuns \in Nat \ {0}
    /\ MaxStops \in [Flows -> Nat]
    /\ MayReset \subseteq Nodes

RunIndex == 1 .. MaxRuns
RunId == Nodes \X RunIndex      \* the k-th runnable of a node
NoRun == 0

\* PUT /tasks: from is the runnable whose socket shall receive the data;
\* the Master starts a sink without one.
StartMsg(f, n, from) == [type |-> "start", flow |-> f, node |-> n, from |-> from]
\* POST /tasks and DELETE /tasks
StopMsg(f, n) == [type |-> "stop", flow |-> f, node |-> n]
ReleaseMsg(f, n) == [type |-> "release", flow |-> f, node |-> n]
\* DELETE /<stream>: the upstream has sent everything
EndMsg(n) == [type |-> "end", node |-> n]

\* The senders of a start message: the Master to a sink, a downstream runnable
\* to any other node.
Starters(n) ==
    IF Kind[n] = "sink" THEN {<<n, 0>>} ELSE {d \in Nodes : Up[d] = n} \X RunIndex

StartMessage ==
    UNION {[type : {"start"}, flow : Flows, node : {n}, from : Starters(n)] : n \in Nodes}
EndMessage == [type : {"end"}, node : Nodes]
Message ==
    StartMessage \cup EndMessage
        \cup [type : {"stop", "release"}, flow : Flows, node : Nodes]

Runnable == [pc : {"none", "running", "ending", "cleaning", "ended"},
             killed : BOOLEAN, reset : BOOLEAN, upstreamDone : BOOLEAN,
             finalWait : BOOLEAN, lastPacket : BOOLEAN, sentAll : BOOLEAN,
             closed : BOOLEAN, dests : SUBSET RunId, flowList : Seq(Flows),
             withUri : SUBSET Flows]

VARIABLES
    bus,        \* [Message -> Nat]
    task,       \* [Nodes -> 0 .. MaxRuns]: streamIdToRunnableMap, for this stream
    runs,       \* [Nodes -> 0 .. MaxRuns]: runnables created so far
    run,        \* [RunId -> Runnable]
    launching,  \* [Nodes -> 0 .. MaxRuns]: submitted by executeTask, not yet in the map
    starting,   \* [Nodes -> SUBSET Flows]: the flow that executeTask is starting
    listener,   \* [Nodes -> 0 .. MaxRuns]: runnable that listens for the end message
    waiters,    \* calls of releaseResource that wait for a runnable to be done
    resetting,  \* [Nodes -> 0 .. MaxRuns]: runnable that reset waits for
    gone,       \* nodes that were reset
    started,    \* flows the Master has started
    stops       \* [Flows -> Nat]: stop requests the Master has sent

vars == <<bus, task, runs, run, launching, starting, listener, waiters,
          resetting, gone, started, stops>>

Fresh == [pc |-> "none", killed |-> FALSE, reset |-> FALSE, upstreamDone |-> FALSE,
          finalWait |-> FALSE, lastPacket |-> FALSE, sentAll |-> FALSE,
          closed |-> FALSE, dests |-> {}, flowList |-> <<>>, withUri |-> {}]

TypeOK ==
    /\ bus \in [Message -> Nat]
    /\ task \in [Nodes -> 0 .. MaxRuns]
    /\ runs \in [Nodes -> 0 .. MaxRuns]
    /\ run \in [RunId -> Runnable]
    /\ launching \in [Nodes -> 0 .. MaxRuns]
    /\ starting \in [Nodes -> SUBSET Flows]
    /\ listener \in [Nodes -> 0 .. MaxRuns]
    /\ waiters \subseteq Flows \X RunId
    /\ resetting \in [Nodes -> 0 .. MaxRuns]
    /\ gone \subseteq Nodes
    /\ started \subseteq Flows
    /\ stops \in [Flows -> Nat]
    /\ \A f \in Flows : stops[f] <= MaxStops[f]

Init ==
    /\ bus = [m \in Message |-> 0]
    /\ task = [n \in Nodes |-> NoRun]
    /\ runs = [n \in Nodes |-> 0]
    /\ run = [r \in RunId |-> Fresh]
    /\ launching = [n \in Nodes |-> NoRun]
    /\ starting = [n \in Nodes |-> {}]
    /\ listener = [n \in Nodes |-> NoRun]
    /\ waiters = {}
    /\ resetting = [n \in Nodes |-> NoRun]
    /\ gone = {}
    /\ started = {}
    /\ stops = [f \in Flows |-> 0]
-----------------------------------------------------------------------------
\* Variants of definitions are faulty programs: each shows that one of the
\* properties depends on what the definition says.

InFlight(m) == bus[m] > 0

Exchange(In, Out) ==
    bus' = [m \in Message |-> (bus[m] + (IF m \in Out THEN 1 ELSE 0))
                                  - (IF m \in In THEN 1 ELSE 0)]

\* The monitor of the node is held by executeTask or by reset.  (The source's
\* executeTask does not take it.)
MonitorFree(n) ==
    /\ resetting[n] = NoRun
    /\ Kind[n] # "source" => launching[n] = NoRun

\* Stream.replaceFlow: the index runs to the end of the list when the id is not
\* found, and the last flow is replaced.
ReplaceFlow(list, f) ==
    LET found == {i \in 1 .. Len(list) : list[i] = f}
        idx == IF found = {} THEN Len(list)
               ELSE CHOOSE i \in found : \A j \in found : i <= j
    IN Append([i \in 1 .. Len(list) - 1 |-> IF i < idx THEN list[i] ELSE list[i + 1]], f)

\* Variant: only the flow that was added last is looked at.
DownStreamsOfLastFlow(r) ==
    {Down[f][r[1]] : f \in {run[r].flowList[Len(run[r].flowList)]}
                               \cap run[r].withUri} \ {r[1]}

\* Variant: nobody is told.
NoDownStreams(r) == {}

\* getDownStreamURIs: the downstream nodes of the flows in the runnable's
\* stream, as far as the stream knows their URIs.
DownStreams(r) ==
    {Down[f][r[1]] : f \in {run[r].flowList[i] : i \in 1 .. Len(run[r].flowList)}
                               \cap run[r].withUri} \ {r[1]}
-----------------------------------------------------------------------------
\* Variant: a thread counts as done when it was told to quit.
ThreadDoneWhenKilled(r) == run[r].killed

\* StreamTaskHandler.isDone
ThreadDone(r) == run[r].pc = "ended"

\* Variant: whatever ends the loop counts as the end of the stream.
SawEndAlways(r) == TRUE

\* A source has seen the end of the stream when it has sent everything, a
\* receiver when its upstream is done.
SawEnd(r) ==
    IF Kind[r[1]] = "source" THEN run[r].sentAll ELSE run[r].upstreamDone

\* Variant: the release request stops at the source.
ReleaseNobody(f, n) == {}

\* releaseResource of a node that is not the sink passes the request down.
ReleaseDown(f, n) == IF Kind[n] = "sink" THEN {} ELSE {ReleaseMsg(f, Down[f][n])}
-----------------------------------------------------------------------------
(* The Master *)

\* runFlow
StartFlow(f) ==
    /\ f \notin started
    /\ started' = started \cup {f}
    /\ Exchange({}, {StartMsg(f, Sink[f], <<Sink[f], 0>>)})
    /\ UNCHANGED <<task, runs, run, launching, starting, listener, waiters,
                   resetting, gone, stops>>

\* stopFlow, of a flow that is in runningFlowMap
StopFlow(f) ==
    /\ f \in started
    /\ stops[f] < MaxStops[f]
    /\ stops' = [stops EXCEPT ![f] = @ + 1]
    /\ Exchange({}, {StopMsg(f, Sink[f])})
    /\ UNCHANGED <<task, runs, run, launching, starting, listener, waiters,
                   resetting, gone, started>>
-----------------------------------------------------------------------------
(* The nodes *)

\* A message to a node whose resource was removed is dropped.
DropAtGone(m) ==
    /\ InFlight(m)
    /\ m.node \in gone
    /\ Exchange({m}, {})
    /\ UNCHANGED <<task, runs, run, launching, starting, listener, waiters,
                   resetting, gone, started, stops>>

\* executeTask up to ThreadPool.submit: a runnable is created and its thread
\* begins to run.
LaunchTask(f, n, from) ==
    LET k == runs[n] + 1
        m == StartMsg(f, n, from)
    IN
    /\ InFlight(m)
    /\ n \notin gone
    /\ MonitorFree(n)
    /\ launching[n] = NoRun
    /\ Kind[n] = "relay" => task[n] = NoRun
    /\ k \in RunIndex
    /\ Exchange({m}, {})
    /\ runs' = [runs EXCEPT ![n] = k]
    /\ run' = [run EXCEPT ![<<n, k>>] =
                 [Fresh EXCEPT !.pc = "running",
                               !.dests = {from} \cap RunId,
                               !.flowList = Listed[f],
                               !.withUri = Known[f]]]
    /\ launching' = [launching EXCEPT ![n] = k]
    /\ starting' = [starting EXCEPT ![n] = {f}]
    /\ listener' = [listener EXCEPT ![n] = k]
    /\ UNCHANGED <<task, waiters, resetting, gone, started, stops>>

\* executeTask from there on: the runnable enters the map, and the upstream
\* node is asked to start.
RecordTask(n) ==
    LET k == launching[n]
    IN
    /\ k # NoRun
    /\ task' = [task EXCEPT ![n] = k]
    /\ launching' = [launching EXCEPT ![n] = NoRun]
    /\ Exchange({}, IF Kind[n] = "source" THEN {}
                    ELSE {StartMsg(f, Up[n], <<n, k>>) : f \in starting[n]})
    /\ starting' = [starting EXCEPT ![n] = {}]
    /\ UNCHANGED <<runs, run, listener, waiters, resetting, gone,
                   started, stops>>

\* executeTask of a relay that has a runnable in its map: the flow joins it.  The
\* destinations are kept by the URI of the downstream node.
JoinTask(f, n, from) ==
    LET m == StartMsg(f, n, from)
    IN
    /\ InFlight(m)
    /\ n \notin gone
    /\ MonitorFree(n)
    /\ Kind[n] = "relay"
    /\ task[n] # NoRun
    /\ Exchange({m}, {})
    /\ run' = [run EXCEPT ![<<n, task[n]>>].dests = {d \in @ : d[1] # from[1]} \cup {from},
                          ![<<n, task[n]>>].flowList = ReplaceFlow(@, f),
                          ![<<n, task[n]>>].withUri = @ \cup {f}]
    /\ UNCHANGED <<task, runs, launching, starting, listener, waiters, resetting,
                   gone, started, stops>>

\* terminateTask of a node that has no task: an IllegalStateException, and the
\* request goes no further.
TerminateTooEarly(f, n) ==
    /\ InFlight(StopMsg(f, n))
    /\ n \notin gone
    /\ Kind[n] = "relay" => MonitorFree(n)
    /\ task[n] = NoRun
    /\ Exchange({StopMsg(f, n)}, {})
    /\ UNCHANGED <<task, runs, run, launching, starting, listener, waiters,
                   resetting, gone, started, stops>>

\* terminateTask: the runnable is killed and the upstream told to stop as well.
\* A source calls its own releaseResource next.
TerminateTask(f, n) ==
    /\ InFlight(StopMsg(f, n))
    /\ n \notin gone
    /\ task[n] # NoRun
    /\ Kind[n] = "relay" => /\ MonitorFree(n)
                            /\ Cardinality(run[<<n, task[n]>>].dests) = 1
    /\ run' = [run EXCEPT ![<<n, task[n]>>].killed = TRUE]
    /\ Exchange({StopMsg(f, n)},
                {IF Kind[n] = "source" THEN ReleaseMsg(f, n) ELSE StopMsg(f, Up[n])})
    /\ UNCHANGED <<task, runs, launching, starting, listener, waiters, resetting,
                   gone, started, stops>>

\* terminateTask of a relay that serves other flows: only the downstream of the
\* stopped flow is cut off, and told to release its resources.
LeaveTask(f, n) ==
    /\ InFlight(StopMsg(f, n))
    /\ n \notin gone
    /\ Kind[n] = "relay"
    /\ task[n] # NoRun
    /\ MonitorFree(n)
    /\ Cardinality(run[<<n, task[n]>>].dests) # 1
    /\ run' = [run EXCEPT ![<<n, task[n]>>].dests =
                 {d \in @ : d[1] # Down[f][n]}]
    /\ Exchange({StopMsg(f, n)}, {ReleaseMsg(f, Down[f][n])})
    /\ UNCHANGED <<task, runs, launching, starting, listener, waiters, resetting,
                   gone, started, stops>>

\* releaseResource looks the runnable up; without one it fails on the null.
BeginRelease(f, n) ==
    /\ InFlight(ReleaseMsg(f, n))
    /\ n \notin gone
    /\ Exchange({ReleaseMsg(f, n)}, {})
    /\ waiters' = IF task[n] = NoRun THEN waiters
                  ELSE waiters \cup {<<f, <<n, task[n]>>>>}
    /\ UNCHANGED <<task, runs, run, launching, starting, listener, resetting,
                   gone, started, stops>>

\* clean closes the sockets of the runnable and removes the entry of the stream
\* from the map of the node, whichever runnable it holds.
Clean(r) ==
    /\ run' = [run EXCEPT ![r].closed = TRUE]
    /\ task' = [task EXCEPT ![r[1]] = NoRun]

\* releaseResource goes on when the thread is done, and passes the request down.
FinishRelease(f, r) ==
    /\ <<f, r>> \in waiters
    /\ ThreadDone(r)
    /\ waiters' = waiters \ {<<f, r>>}
    /\ Clean(r)
    /\ Exchange({}, ReleaseDown(f, r[1]))
    /\ UNCHANGED <<runs, launching, starting, listener, resetting, gone, started, stops>>

\* reset, with the monitor of the node: the runnable in the map is told to quit.
BeginReset(n) ==
    /\ n \in MayReset \ gone
    /\ MonitorFree(n)
    /\ IF task[n] = NoRun
       THEN gone' = gone \cup {n} /\ UNCHANGED <<run, resetting>>
       ELSE /\ run' = [run EXCEPT ![<<n, task[n]>>].killed = TRUE,
                                  ![<<n, task[n]>>].reset = TRUE]
            /\ resetting' = [resetting EXCEPT ![n] = task[n]]
            /\ UNCHANGED gone
    /\ UNCHANGED <<bus, task, runs, launching, starting, listener, waiters, started, stops>>

\* reset goes on when the thread is done: clean, and the listeners go.
FinishReset(n) ==
    LET r == <<n, resetting[n]>>
    IN
    /\ resetting[n] # NoRun
    /\ ThreadDone(r)
    /\ Clean(r)
    /\ resetting' = [resetting EXCEPT ![n] = NoRun]
    /\ gone' = gone \cup {n}
    /\ UNCHANGED <<bus, runs, launching, starting, listener, waiters, started, stops>>

\* upStreamDoneSending, of the runnable whose listener is installed; the
\* listener removes itself.
UpStreamDone(n) ==
    /\ InFlight(EndMsg(n))
    /\ n \notin gone
    /\ Exchange({EndMsg(n)}, {})
    /\ run' = IF listener[n] = NoRun THEN run
              ELSE [run EXCEPT ![<<n, listener[n]>>].upstreamDone = TRUE]
    /\ listener' = [listener EXCEPT ![n] = NoRun]
    /\ UNCHANGED <<task, runs, launching, starting, waiters, resetting, gone,
                   started, stops>>
-----------------------------------------------------------------------------
(* The runnables *)

\* The packet flagged last is sent to all destinations; Lost of them miss it,
\* as does a socket that is closed.
SendLast(r, Lost, sender) ==
    run' = [q \in RunId |->
              IF q = r THEN sender
              ELSE IF q \in run[r].dests \ Lost /\ ~run[q].closed
                   THEN [run[q] EXCEPT !.lastPacket = TRUE]
                   ELSE run[q]]

RunnableStep(r) ==
    UNCHANGED <<bus, task, runs, launching, starting, listener, waiters,
                resetting, gone, started, stops>>

\* SourceRunnable.run: the loop reaches the last packet.
SourceSendsLast(r, Lost) ==
    /\ run[r].pc = "running"
    /\ Kind[r[1]] = "source"
    /\ SendLast(r, Lost, [run[r] EXCEPT !.sentAll = TRUE, !.pc = "ending"])
    /\ RunnableStep(r)

\* A receiver takes the last packet from its socket, forwards it and leaves the
\* loop, killed or not.
ReceiveLast(r, Lost) ==
    /\ run[r].pc = "running"
    /\ run[r].lastPacket
    /\ SendLast(r, Lost, [run[r] EXCEPT !.upstreamDone = TRUE, !.pc = "ending"])
    /\ RunnableStep(r)

\* The loop condition: a killed runnable leaves the loop.
Quit(r) ==
    /\ run[r].pc = "running"
    /\ run[r].killed
    /\ run' = [run EXCEPT ![r].pc = "ending"]
    /\ RunnableStep(r)

\* A receiver that hears nothing after the end message waits once more, and
\* then leaves the loop.
ReceiveTimeout(r) ==
    /\ run[r].pc = "running"
    /\ Kind[r[1]] # "source"
    /\ run[r].upstreamDone
    /\ ~run[r].lastPacket
    /\ run' = IF run[r].finalWait THEN [run EXCEPT ![r].pc = "ending"]
              ELSE [run EXCEPT ![r].finalWait = TRUE]
    /\ RunnableStep(r)

\* After its loop a runnable that has seen the end of the stream tells its
\* downstreams; that one, and one that was reset, clean up next, while one that
\* was killed leaves it to releaseResource.
Finish(r) ==
    /\ run[r].pc = "ending"
    /\ run' = [run EXCEPT ![r].pc =
                 IF SawEnd(r) \/ run[r].reset THEN "cleaning" ELSE "ended"]
    /\ Exchange({}, IF SawEnd(r) THEN {EndMsg(n) : n \in DownStreams(r)} ELSE {})
    /\ UNCHANGED <<task, runs, launching, starting, listener, waiters, resetting,
                   gone, started, stops>>

CleanUp(r) ==
    /\ run[r].pc = "cleaning"
    /\ run' = [run EXCEPT ![r].pc = "ended", ![r].closed = TRUE]
    /\ task' = [task EXCEPT ![r[1]] = NoRun]
    /\ UNCHANGED <<bus, runs, launching, starting, listener, waiters, resetting,
                   gone, started, stops>>
-----------------------------------------------------------------------------
Next ==
    \/ \E f \in Flows : StartFlow(f) \/ StopFlow(f)
    \/ \E m \in Message : DropAtGone(m)
    \/ \E f \in Flows, n \in Nodes : \E from \in Starters(n) :
          LaunchTask(f, n, from) \/ JoinTask(f, n, from)
    \/ \E n \in Nodes : RecordTask(n) \/ BeginReset(n) \/ FinishReset(n) \/ UpStreamDone(n)
    \/ \E f \in Flows, n \in Nodes :
          \/ TerminateTooEarly(f, n) \/ TerminateTask(f, n) \/ LeaveTask(f, n)
          \/ BeginRelease(f, n)
    \/ \E f \in Flows, r \in RunId : FinishRelease(f, r)
    \/ \E r \in RunId : Quit(r) \/ ReceiveTimeout(r) \/ Finish(r) \/ CleanUp(r)
    \/ \E r \in RunId : \E Lost \in SUBSET run[r].dests :
          SourceSendsLast(r, Lost) \/ ReceiveLast(r, Lost)

Spec == Init /\ [][Next]_vars

(***************************************************************************)
(* Fairness: the bus delivers, every handler that has begun goes on, every *)
(* thread runs, and the source, whose rate is positive, reaches its last   *)
(* packet.  The user need not start or stop anything, and nothing obliges  *)
(* UDP to deliver the last packet.                                         *)
(***************************************************************************)
Fairness ==
    /\ \A f \in Flows, n \in Nodes :
          /\ WF_vars(\E from \in Starters(n) :
                        LaunchTask(f, n, from) \/ JoinTask(f, n, from))
          /\ WF_vars(TerminateTooEarly(f, n) \/ TerminateTask(f, n) \/ LeaveTask(f, n))
          /\ WF_vars(BeginRelease(f, n))
          /\ WF_vars(\E k \in RunIndex : FinishRelease(f, <<n, k>>))
    /\ \A n \in Nodes :
          /\ WF_vars(RecordTask(n))
          /\ WF_vars(FinishReset(n))
          /\ WF_vars(UpStreamDone(n))
    /\ \A r \in RunId :
          WF_vars(\/ Quit(r) \/ ReceiveTimeout(r) \/ Finish(r) \/ CleanUp(r)
                  \/ \E Lost \in SUBSET run[r].dests :
                        SourceSendsLast(r, Lost) \/ ReceiveLast(r, Lost))

FairSpec == Spec /\ Fairness
-----------------------------------------------------------------------------
Path(f) == {n \in Nodes : n = Sink[f] \/ Down[f][n] # n}
SourceSentAll == \E r \in RunId : Kind[r[1]] = "source" /\ run[r].sentAll
Cleaned(n) == \E k \in RunIndex : run[<<n, k>>].closed
WasReset == gone # {} \/ \E n \in Nodes : resetting[n] # NoRun
PathIsUp(f) == \A n \in Path(f) : task[n] # NoRun

(* No false end: a receiver believes that its upstream is done only after the
   source has sent all of its data, however the last packet and the end message
   travelled and whatever was killed, reset or released in between
   (NodeRunnable.upStreamDoneSending, setUpstreamDone). *)
NoFalseEnd ==
    (\E r \in RunId : run[r].upstreamDone) => SourceSentAll

(* The sockets of a runnable are not closed while its thread still works with
   them: clean, called by releaseResource or by reset of the node, waits for the
   thread (StreamTaskHandler.isDone). *)
NoCloseUnderThread ==
    \A r \in RunId : run[r].closed => run[r].pc = "ended"

(* A node is told to release its resources only when nobody sends to it any
   more: no runnable that is still in its loop has the node's runnable among its
   destinations (the DELETE message travels from the source down). *)
ReleaseAfterUpstreamQuit ==
    \A f \in Flows, n \in Nodes :
        Kind[n] # "source" /\ InFlight(ReleaseMsg(f, n)) =>
            \A r \in RunId : run[r].pc = "running" =>
                \A d \in run[r].dests : d[1] # n

(* The map of a node that receives data never offers a runnable whose sockets
   are closed; a relay would attach a new flow to it (RelayNode.executeTask). *)
MapHoldsOpenRunnable ==
    \A n \in Nodes : Kind[n] # "source" /\ task[n] # NoRun =>
        ~run[<<n, task[n]>>].closed

(* The end of the stream is announced to everybody who is being sent to: when a
   runnable that has seen the end leaves its loop, the node of each of its
   destinations gets the end message (sendEndMessageToDownstream; a destination
   that loses the last packet has nothing else to end its loop). *)
EveryDestinationIsTold ==
    [][\A r \in RunId :
          run[r].pc = "ending" /\ run'[r].pc # "ending"
                /\ SawEnd(r) =>
              \A d \in run[r].dests : InFlight(EndMsg(d[1]))']_vars
-----------------------------------------------------------------------------
(* A stream that nobody stops runs to its end: every node of a started flow ends
   its runnable and closes its sockets, even if the last packet is lost on the
   way (sendEndMessageToDownstream). *)
StreamEnds ==
    \A f \in Flows : \A n \in Path(f) :
        f \in started ~> Cleaned(n) \/ WasReset \/ \E g \in Flows : stops[g] > 0

(* The same, unless the source completes by itself in the meantime or a node is
   reset. *)
StopOfUnfinishedStreamReleasesPath ==
    \A f \in Flows : \A n \in Path(f) :
        InFlight(StopMsg(f, Sink[f])) /\ PathIsUp(f) ~>
            Cleaned(n) \/ SourceSentAll \/ WasReset
=============================================================================
