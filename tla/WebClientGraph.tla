---------------------------- MODULE WebClientGraph ----------------------------
(***************************************************************************)
(* The Master's picture of the running streams (WebClientGraph.java), and  *)
(* the three kinds of threads that share it without a common lock: the     *)
(* uploads and resets (under the Master's monitor), the stream reports,    *)
(* and the timer that sends the picture to the page once a second.         *)
(***************************************************************************)
EXTENDS WebUpdates

CONSTANTS
    Table,       \* the order of all the nodes in the hash table of nodesMap
    Uploads,     \* the work configs: sequences of links, as startWorkConfig adds them
    Streams,     \* the links a stream is sent over
    RateColours, \* the colours of the progress reports: by the packet loss, red or green
    MaxUploads,  \* bound: uploads
    MaxResets    \* bound: resets

ASSUME TableAssumption ==
    /\ Table \in Seq(Endpoint)
    /\ {Table[i] : i \in DOMAIN Table} = Endpoint
    /\ \A i, j \in DOMAIN Table : Table[i] = Table[j] => i = j
ASSUME BoundAssumption == MaxUploads \in Nat /\ MaxResets \in Nat
ASSUME UploadsAssumption == Uploads \subseteq Seq(Link)
ASSUME StreamsAssumption == Streams \subseteq NodeId \X NodeId
ASSUME RateColoursAssumption == RateColours \subseteq {"red", "green"}

VARIABLES
    nodesMap,         \* node id -> whether the node has a location
    downstreamNodes,  \* node id -> the links to its downstream nodes
    colour,           \* colour of each link in downstreamNodes
    streamStatus,     \* what its receiver last reported: "none", "start" or "end"
    master,           \* the handler that holds the Master's monitor
    progress,         \* the handler of a progress report, after its test of the status
    timer,            \* the report timer in getUpdateMessage
    uploads, resets   \* how many there were

graphVars == <<nodesMap, downstreamNodes, colour, streamStatus>>
threadVars == <<master, progress, timer>>
countVars == <<uploads, resets>>
webGraphVars == <<graphVars, threadVars, countVars>>

IdleMaster == [at |-> "idle", calls |-> <<>>]
NoProgress == [at |-> "idle", link |-> <<>>, colour |-> "blue"]
End == Len(Table) + 1
IdleTimer == [at |-> "idle", nodes |-> {}, next |-> End, held |-> "live", cur |-> Root,
              seen |-> {}, edges |-> {}]

Known == DOMAIN nodesMap
Links == UNION {downstreamNodes[n] : n \in DOMAIN downstreamNodes}
Shown == {l \in Links : l[1] # Root}

RealNodes == Known \ {Root}
Extend(f, S, v) == [x \in DOMAIN f \cup S |-> IF x \in DOMAIN f THEN f[x] ELSE v]

WebGraphInit ==
    /\ nodesMap = [n \in {Root} |-> FALSE]
    /\ downstreamNodes = <<>>
    /\ colour = [l \in Link |-> "blue"]
    /\ streamStatus = [l \in Link |-> "none"]
    /\ master = IdleMaster
    /\ progress = NoProgress
    /\ timer = IdleTimer
    /\ uploads = 0 /\ resets = 0

WebGraphTypeOK ==
    /\ Known \subseteq Endpoint /\ nodesMap \in [Known -> BOOLEAN]
    /\ DOMAIN downstreamNodes \subseteq Endpoint
    /\ \A n \in DOMAIN downstreamNodes : downstreamNodes[n] \subseteq {n} \X NodeId
    /\ colour \in [Link -> Colour]
    /\ streamStatus \in [Link -> {"none", "start", "end"}]
    /\ master.at \in {"idle", "adding", "clearing"} /\ master.calls \in Seq(Link)
    /\ progress.at \in {"idle", "tested"}
    /\ timer.at \in {"idle", "nodes", "edges", "got", "dead"}
    /\ uploads \in 0..MaxUploads /\ resets \in 0..MaxResets
    /\ registered \in BOOLEAN /\ updates \in Seq(UpdateMsg)
-----------------------------------------------------------------------------
(* startWorkConfig: one addEdge after the other, then setLocations, all under
   the Master's monitor but in full view of the other threads. *)
StartWorkConfig(u) ==
    /\ master = IdleMaster
    /\ uploads < MaxUploads
    /\ uploads' = uploads + 1
    /\ master' = [at |-> "adding", calls |-> u]
    /\ UNCHANGED <<graphVars, progress, timer, resets, registered, updates>>

(* addEdge: the ends that are missing, one by one, then their sets of links, and
   then the link unless it is there. *)
Adding(l) == master.at = "adding" /\ master.calls # <<>> /\ l = Head(master.calls)
FirstMissingOf(l, S) == IF l[1] \notin S THEN l[1] ELSE l[2]
HasBoth(S, l) == {l[1], l[2]} \subseteq S

AddMissingNode(l) ==
    /\ Adding(l) /\ ~HasBoth(Known, l)
    /\ nodesMap' = Extend(nodesMap, {FirstMissingOf(l, Known)}, FALSE)
    /\ UNCHANGED <<downstreamNodes, colour, streamStatus, threadVars, countVars,
                   registered, updates>>

AddMissingSet(l) ==
    /\ Adding(l) /\ HasBoth(Known, l) /\ ~HasBoth(DOMAIN downstreamNodes, l)
    /\ downstreamNodes' =
           Extend(downstreamNodes, {FirstMissingOf(l, DOMAIN downstreamNodes)}, {})
    /\ UNCHANGED <<nodesMap, colour, streamStatus, threadVars, countVars, registered,
                   updates>>

AddLink(l) ==
    /\ Adding(l) /\ HasBoth(Known, l) /\ HasBoth(DOMAIN downstreamNodes, l)
    /\ downstreamNodes' = [downstreamNodes EXCEPT ![l[1]] = @ \cup {l}]
    /\ master' = [master EXCEPT !.calls = Tail(@)]
    /\ UNCHANGED <<nodesMap, colour, streamStatus, progress, timer, countVars, registered,
                   updates>>

AddEdgeStep == \E l \in Link : AddMissingNode(l) \/ AddMissingSet(l) \/ AddLink(l)

(* The breadth-first walk from the root: everything the links reach gets a
   location. *)
Reach[k \in Nat] ==
    IF k = 0 THEN {Root}
    ELSE Reach[k - 1] \cup {l[2] : l \in {m \in Links : m[1] \in Reach[k - 1]}}

SetLocations ==
    /\ master.at = "adding" /\ master.calls = <<>>
    /\ nodesMap' = [n \in Known |-> nodesMap[n] \/ n \in Reach[Cardinality(Known)]]
    /\ master' = IdleMaster
    /\ UNCHANGED <<downstreamNodes, colour, streamStatus, progress, timer, countVars,
                   registered, updates>>

(* What the timer has read are objects: their attributes are live until a reset
   takes them out of the maps, and stay as they are from then on. *)
Place(n) == IF nodesMap[n] THEN "placed" ELSE "nowhere"
CurrentNodes(read) == {<<r[1], IF r[2] = "live" THEN Place(r[1]) ELSE r[2]>> : r \in read}
CurrentEdges(read) == {<<r[1], IF r[2] = "live" THEN colour[r[1]] ELSE r[2]>> : r \in read}

(* resetWebClientGraph in its two halves: nodesMap goes first.  A report that
   is under way keeps the Edge object it found; no map leads to it any more. *)
ResetNodes ==
    /\ master = IdleMaster
    /\ resets < MaxResets
    /\ resets' = resets + 1
    /\ nodesMap' = <<>>
    /\ master' = [at |-> "clearing", calls |-> <<>>]
    /\ timer' = [timer EXCEPT !.nodes = CurrentNodes(@),
                              !.held = IF timer.at = "nodes" /\ timer.next # End /\ @ = "live"
                                       THEN Place(Table[timer.next]) ELSE @]
    /\ UNCHANGED <<downstreamNodes, colour, streamStatus, progress, uploads,
                   registered, updates>>

ResetEdges ==
    /\ master.at = "clearing"
    /\ nodesMap' = [n \in {Root} |-> FALSE]
    /\ downstreamNodes' = <<>>
    /\ colour' = [l \in Link |-> "blue"]
    /\ streamStatus' = [l \in Link |-> "none"]
    /\ progress' = NoProgress
    /\ timer' = [timer EXCEPT !.edges = CurrentEdges(@), !.seen = {}]
    /\ master' = IdleMaster
    /\ UNCHANGED <<countVars, registered, updates>>
-----------------------------------------------------------------------------
(* Stream reports of the receiver of a link.  One thread of the receiver
   reports the start and the end of the stream, in this order; the progress
   reports come from another thread, and may come early or late.  A report on
   a node or a link that is not known ends in the log or in an exception. *)
Reportable(l) == l[1] \in Known /\ l \in Links

ReceiveStart(l) ==
    /\ Reportable(l) /\ streamStatus[l] # "start"
    /\ colour' = [colour EXCEPT ![l] = "green"]
    /\ streamStatus' = [streamStatus EXCEPT ![l] = "start"]
    /\ UNCHANGED <<nodesMap, downstreamNodes, threadVars, countVars, registered, updates>>

ReceiveEnd(l) ==
    /\ Reportable(l) /\ streamStatus[l] = "start"
    /\ colour' = [colour EXCEPT ![l] = "black"]
    /\ streamStatus' = [streamStatus EXCEPT ![l] = "end"]
    /\ UNCHANGED <<nodesMap, downstreamNodes, threadVars, countVars, registered, updates>>

(* updateEdge tests the status first and colours the edge afterwards. *)
TestStatus(l, c) ==
    /\ progress = NoProgress
    /\ Reportable(l)
    /\ streamStatus[l] \notin {"none", "end"}
    /\ progress' = [at |-> "tested", link |-> l, colour |-> c]
    /\ UNCHANGED <<graphVars, master, timer, countVars, registered, updates>>

(* A progress report on a node that has no set of links gives it one, and then
   finds no edge. *)
ReportNoEdge(l) ==
    /\ l[1] \in Known \ DOMAIN downstreamNodes
    /\ downstreamNodes' = Extend(downstreamNodes, {l[1]}, {})
    /\ UNCHANGED <<nodesMap, colour, streamStatus, threadVars, countVars, registered,
                   updates>>

ColourEdge ==
    /\ progress.at = "tested"
    /\ colour' = [colour EXCEPT ![progress.link] = progress.colour]
    /\ progress' = NoProgress
    /\ UNCHANGED <<nodesMap, downstreamNodes, streamStatus, master, timer, countVars,
                   registered, updates>>
-----------------------------------------------------------------------------
(* The first known node of the table after its first i places. *)
NextFrom(i) ==
    LET later == {j \in DOMAIN Table : j > i /\ Table[j] \in Known}
    IN IF later = {} THEN End
       ELSE CHOOSE j \in later : \A k \in later : j <= k

(* getUpdateMessage: the nodes first.  The iterator of the map walks its table
   and has the next node in hand before it returns this one: a node that comes
   or goes meanwhile may be returned or not. *)
ReadNodes ==
    /\ timer.at = "idle" /\ Len(updates) < MaxUpdates
    /\ timer' = [IdleTimer EXCEPT !.at = "nodes", !.next = NextFrom(0)]
    /\ UNCHANGED <<graphVars, master, progress, countVars, registered, updates>>

(* The root is left out, but not one that a reset has replaced since it was in
   hand (`root' is read without a lock: the old one may be seen longer). *)
ReadNode ==
    /\ timer.at = "nodes" /\ timer.next # End
    /\ \E taken \in BOOLEAN :
          /\ Table[timer.next] # Root => taken
          /\ Table[timer.next] = Root /\ taken =>
                 timer.held # "live" /\ master.at # "clearing"
          /\ timer' = [timer EXCEPT
                 !.nodes = IF taken THEN @ \cup {<<Table[timer.next], timer.held>>} ELSE @,
                 !.held = "live",
                 !.next = NextFrom(timer.next)]
    /\ UNCHANGED <<graphVars, master, progress, countVars, registered, updates>>

NodesRead ==
    /\ timer.at = "nodes" /\ timer.next = End
    /\ timer' = [timer EXCEPT !.at = "edges", !.next = NextFrom(0)]
    /\ UNCHANGED <<graphVars, master, progress, countVars, registered, updates>>

(* ... then, in a walk of its own, the links of each node. *)
NextNode ==
    /\ timer.at = "edges" /\ timer.next # End
    /\ downstreamNodes' = Extend(downstreamNodes, {Table[timer.next]}, {})
    /\ timer' = [timer EXCEPT !.at = "got", !.cur = Table[timer.next],
                              !.seen = downstreamNodes'[Table[timer.next]],
                              !.next = NextFrom(timer.next)]
    /\ UNCHANGED <<nodesMap, colour, streamStatus, master, progress, countVars,
                   registered, updates>>

CollectEdgesOfRoot ==
    /\ timer.at = "got" /\ timer.cur \in DOMAIN downstreamNodes
    /\ timer' = [timer EXCEPT !.at = "edges",
                              !.edges = @ \cup (downstreamNodes[timer.cur] \X {"live"})]
    /\ UNCHANGED <<graphVars, master, progress, countVars, registered, updates>>

CollectEdges ==
    /\ timer.at = "got" /\ timer.cur \in DOMAIN downstreamNodes
    /\ timer' = [timer EXCEPT !.at = "edges",
                              !.edges = @ \cup {<<l, "live">> :
                                      l \in {m \in downstreamNodes[timer.cur] : m[1] # Root}}]
    /\ UNCHANGED <<graphVars, master, progress, countVars, registered, updates>>

(* The set of links is gone (a reset cleared the map), or it grew under the
   iterator: the exception ends the java.util.Timer for good. *)
TimerDies ==
    /\ timer.at = "got"
    /\ timer.cur \in DOMAIN downstreamNodes => timer.seen # downstreamNodes[timer.cur]
    /\ timer' = [IdleTimer EXCEPT !.at = "dead"]
    /\ UNCHANGED <<graphVars, master, progress, countVars, registered, updates>>

(* The JSON is made when the message is sent: colours and places of then. *)
SendUpdate ==
    /\ timer.at = "edges" /\ timer.next = End
    /\ UpdateWebClient([nodes |-> CurrentNodes(timer.nodes),
                        edges |-> CurrentEdges(timer.edges)])
    /\ timer' = IdleTimer
    /\ UNCHANGED <<graphVars, master, progress, countVars, registered>>

TimerStep ==
    ReadNodes \/ ReadNode \/ NodesRead \/ NextNode \/ CollectEdges \/ TimerDies \/ SendUpdate

WebGraphNext ==
    \/ \E u \in Uploads : StartWorkConfig(u)
    \/ AddEdgeStep \/ SetLocations
    \/ ResetNodes \/ ResetEdges
    \/ \E l \in Streams : ReceiveStart(l) \/ ReceiveEnd(l) \/ ReportNoEdge(l)
    \/ \E l \in Streams, c \in RateColours : TestStatus(l, c)
    \/ ColourEdge
    \/ TimerStep
=============================================================================
