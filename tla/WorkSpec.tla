------------------------------- MODULE WorkSpec -------------------------------
(***************************************************************************)
(* Work configs: how the page makes them (displayGraph.js: the button that *)
(* adds a random stream, and a file of the user) and how the Master        *)
(* validates them (WorkConfig, Stream, Flow.isValid..., GraphChecker).     *)
(*                                                                         *)
(* A flow is the sequence of its nodes from the sink up; a node has an id, *)
(* a type and the ids of its upstream and of its downstream, Null for the  *)
(* string "NULL" or Absent when the field is left out.  Of the id of the   *)
(* stream it only matters whether there is a "-" in it.                    *)
(***************************************************************************)
EXTENDS Integers, Sequences, FiniteSets, SequencesExt

CONSTANTS NumHosts,     \* 20: hosts the random stream is spread over
          MaxTier2,     \* 3: relays of the second tier at most
          MaxMore,      \* 3: how many more the third tier may have
          UserIds,      \* ids of nodes in a user's file
          UserType,     \* the type of each of them
          MaxFlows,     \* bound: flows in a user's file
          MaxLen        \* bound: nodes of such a flow

ASSUME WorkSpecAssumption ==
    /\ NumHosts \in Nat /\ MaxTier2 \in Nat /\ MaxMore \in Nat
    \* else the loop that draws the hosts of a tier would not end
    /\ MaxTier2 + MaxMore <= NumHosts + 1

VARIABLES flows,    \* the flow list of the one stream of the work config
          hyphen,   \* the id of the stream contains a "-"
          made,     \* what made it: "none", "page", "file" (being written)
          verdict   \* of the Master: "none", "accepted", "rejected"

workVars == <<flows, hyphen, made, verdict>>

Null == <<0, "NULL">>
Absent == <<0, "absent">>

\* The name "NULL" is taken: no node of a user's file has it.
ASSUME UserAssumption == UserIds \cap {Null, Absent} = {}

\* createNode: a node without a DownstreamId
MakeNode(id, type, up) == [id |-> id, type |-> type, up |-> up, down |-> Absent]
-----------------------------------------------------------------------------
(* The page *)

Name(host, role) == <<host, role>>

\* Math.ceil(Math.random() * 20): 0 when random() returns exactly 0
Draws == 0 .. NumHosts

\* A tier of n relays on different hosts; for-in visits integer keys in order
Tiers(n, role) ==
    {[i \in 1 .. n |-> Name(SetToSortSeq(S, <)[i], role)] : S \in kSubset(n, Draws)}

\* Variant: the second relay names the source of the stream as its upstream
RandomFlowOfSource(i, tier3Of, tier2Of, relay1, source) ==
    LET relay3 == tier3Of[i]
        relay2 == tier2Of[relay3]
    IN  <<MakeNode(Name(i, "sink"), "SinkNode", relay3),
          MakeNode(relay3, "RelayNode", relay2),
          MakeNode(relay2, "RelayNode", IF i = NumHosts THEN source ELSE relay1),
          MakeNode(relay1, "RelayNode", source),
          MakeNode(source, "SourceNode", Null)>>

\* The flow of sink i: the upstreams followed from it
RandomFlow(i, tier3Of, tier2Of, relay1, source) ==
    LET sink == Name(i, "sink")
        relay3 == tier3Of[i]
        relay2 == tier2Of[relay3]
    IN  <<MakeNode(sink, "SinkNode", relay3),
          MakeNode(relay3, "RelayNode", relay2),
          MakeNode(relay2, "RelayNode", relay1),
          MakeNode(relay1, "RelayNode", source),
          MakeNode(source, "SourceNode", Null)>>

\* Sink i takes the i-th relay (from 0) while there is one, else any
Attachments(children, parents, first) ==
    {f \in [children -> Range(parents)] :
        \A i \in children : first[i] + 1 \in DOMAIN parents => f[i] = parents[first[i] + 1]}

\* The click on btnAddStream
AddStream ==
    /\ made = "none"
    /\ \E source \in {Name(h, "source") : h \in Draws},
          relay1 \in {Name(h, "relay1") : h \in Draws},
          n2 \in 1 .. MaxTier2 :
       \E tier2 \in Tiers(n2, "relay2"), n3 \in n2 .. n2 + MaxMore :
       \E tier3 \in Tiers(n3, "relay3") :
       \E tier3Of \in Attachments(1 .. NumHosts, tier3, [i \in 1 .. NumHosts |-> i]),
          tier2Of \in Attachments(Range(tier3), tier2,
                        [r \in Range(tier3) |-> (CHOOSE i \in DOMAIN tier3 : tier3[i] = r) - 1]) :
            flows' = [i \in 1 .. NumHosts |-> RandomFlow(i, tier3Of, tier2Of, relay1, source)]
    /\ hyphen' = FALSE
    /\ made' = "page"
    /\ UNCHANGED verdict
-----------------------------------------------------------------------------
(* Validation by the Master *)

IsLinked(flow) == \A i \in 2 .. Len(flow) : flow[i].id = flow[i - 1].up

\* isValidFlow: the first node has no downstream and the last no upstream.  The
\* other nodes' DownstreamId is not read.
IsValidFlow(flow) ==
    /\ flow[1].down \in {Null, Absent}
    /\ IsLinked(flow)
    /\ Len(flow) > 1 => Last(flow).up \in {Null, Absent}

\* isValidStream
IsValidStream(spec, hyphenated) ==
    ~hyphenated /\ \A i \in DOMAIN spec : IsValidFlow(spec[i])

Ids(flow) == {flow[i].id : i \in DOMAIN flow}

\* All nodes in the order in which GraphChecker reads them, with their flow
Listing(spec) == FlattenSeq([i \in DOMAIN spec |->
                    [j \in DOMAIN spec[i] |-> [node |-> spec[i][j], flow |-> spec[i]]]])

\* Reading entry k throws: no upstream to compare, or an unknown one
Throws(list, k) ==
    LET up == list[k].node.up
        known == {list[i].node.id : i \in 1 .. k} \cup {list[i].node.up : i \in 1 .. k - 1}
    IN  up = Absent \/ (up \notin {Null} \cup known \cup Ids(list[k].flow))

\* The edges read before the exception, which is caught and printed
GraphOf(spec) ==
    LET list == Listing(spec)
    IN  {<<list[k].node.up, list[k].node.id>> :
            k \in {k \in DOMAIN list : /\ list[k].node.up # Null
                                       /\ \A j \in 1 .. k : ~Throws(list, j)}}

Vertices(G) == {e[1] : e \in G} \cup {e[2] : e \in G}
ToV(G, v) == {e[1] : e \in {d \in G : d[2] = v}}
FromV(G, v) == {e[2] : e \in {d \in G : d[1] = v}}

TypeIn(spec, v) ==
    LET list == Listing(spec)
    IN  list[CHOOSE k \in DOMAIN list : list[k].node.id = v].node.type

\* Variant: a relay may have several upstreams
ValidateLoosely(spec) ==
    LET G == GraphOf(spec)
    IN  \A v \in Vertices(G) :
            \/ TypeIn(spec, v) = "SourceNode" /\ ToV(G, v) = {}
            \/ TypeIn(spec, v) = "SinkNode" /\ FromV(G, v) = {}
            \/ TypeIn(spec, v) \in {"ProcessingNode", "RelayNode"}

\* GraphChecker.validate.  What is said of a relay's downstreams checks nothing.
Validate(spec) ==
    LET G == GraphOf(spec)
        One(S) == Cardinality(S) = 1
    IN  \A v \in Vertices(G) :
            LET type == TypeIn(spec, v)
            IN  \/ type = "SourceNode" /\ ToV(G, v) = {}
                \/ type = "SinkNode" /\ FromV(G, v) = {} /\ One(ToV(G, v))
                \/ type \in {"ProcessingNode", "TranscodingNode"}
                        /\ One(FromV(G, v)) /\ One(ToV(G, v))
                \/ type = "RelayNode" /\ One(ToV(G, v))

\* startWorkConfig, its two checks
IsAccepted(spec, hyphenated) == IsValidStream(spec, hyphenated) /\ Validate(spec)

Submit ==
    /\ made # "none" /\ verdict = "none"
    /\ verdict' = IF IsAccepted(flows, hyphen) THEN "accepted" ELSE "rejected"
    /\ UNCHANGED <<flows, hyphen, made>>
-----------------------------------------------------------------------------
(* A user's file, written node by node.  A flow is begun only in a stream   *)
(* that is valid so far, and a node added only to a flow that has no error: *)
(* after an error the rest of the file makes no difference.                 *)

UserNodes == {MakeNode(id, UserType[id], up) : id \in UserIds, up \in UserIds \cup {Null, Absent}}

\* Of the nodes that do not continue a flow one stands for all.
WrongNode == CHOOSE x \in UserNodes : x.up = Null

\* The first node of a flow may name a downstream: itself stands for any.
BeginFlow ==
    /\ made \in {"none", "file"} /\ verdict = "none"
    /\ Len(flows) < MaxFlows
    /\ IsValidStream(flows, hyphen)
    /\ \E x \in UserNodes : \E down \in {Null, x.id} :
          flows' = Append(flows, <<[x EXCEPT !.down = down]>>)
    /\ IF made = "none" THEN hyphen' \in BOOLEAN ELSE UNCHANGED hyphen
    /\ made' = "file"
    /\ UNCHANGED verdict

ExtendFlow ==
    /\ made = "file" /\ verdict = "none" /\ ~hyphen
    /\ Len(Last(flows)) < MaxLen
    /\ Last(flows)[1].down = Null /\ IsLinked(Last(flows))
    /\ \E x \in UserNodes :
        /\ x.id # Last(Last(flows)).up => x = WrongNode
        /\ flows' = [flows EXCEPT ![Len(flows)] = Append(@, x)]
    /\ UNCHANGED <<hyphen, made, verdict>>

WorkInit ==
    /\ flows = <<>>
    /\ hyphen = FALSE
    /\ made = "none"
    /\ verdict = "none"

WorkNext == AddStream \/ BeginFlow \/ ExtendFlow \/ Submit
-----------------------------------------------------------------------------
(* Whatever stream the page draws at random, the Master takes it: the tiers *)
(* and attachments of displayGraph.js and the checks of Stream, Flow and    *)
(* GraphChecker, written in two languages, agree on what a topology is.     *)
PageSpecIsAccepted == made = "page" => verdict # "rejected"

\* A work config whose flows begin at source nodes, and whose nodes name an
\* upstream in their flow
IsComplete(spec) ==
    \A i \in DOMAIN spec :
        /\ Last(spec[i]).type = "SourceNode"
        /\ \A j \in DOMAIN spec[i] : spec[i][j].up \in {Null} \cup Ids(spec[i])

(* The two checks together, one of every flow alone and one of every node   *)
(* alone, admit only forests rooted in sources: no node of a complete work  *)
(* config that is accepted is fed twice, or by itself, in any combination   *)
(* of its flows.                                                            *)
AcceptedIsForest ==
    verdict = "accepted" /\ IsComplete(flows) =>
        LET nodes == {x.node : x \in Range(Listing(flows))}
            G == {<<n.up, n.id>> : n \in {n \in nodes : n.up # Null}}
        IN  /\ \A v \in Vertices(G) :
                  /\ Cardinality(ToV(G, v)) <= 1
                  /\ ToV(G, v) = {} => TypeIn(flows, v) = "SourceNode"
            /\ \A S \in (SUBSET Vertices(G)) \ {{}} : \E v \in S : ToV(G, v) \cap S = {}
=============================================================================
