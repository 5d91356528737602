---------------------------- MODULE MCUploadedWork ----------------------------
(***************************************************************************)
(* Files of a source, a relay and two sinks for TLC; the deployment of the *)
(* two streams that leave the source directly is followed.                 *)
(***************************************************************************)
EXTENDS UploadedWork, TLC

Source == <<1, "SourceNode">>
Relay  == <<1, "RelayNode">>
Sink1  == <<1, "SinkNode">>
Sink2  == <<2, "SinkNode">>

MCUserIds == {Source, Relay, Sink1, Sink2}
MCUserType == [id \in MCUserIds |-> id[2]]

FlowOf(sink) == <<[MakeNode(sink, "SinkNode", Source) EXCEPT !.down = Null],
                  MakeNode(Source, "SourceNode", Null)>>
MCFollowed == {<<FlowOf(Sink1), FlowOf(Sink2)>>}

MCNodes == {Source, Sink1, Sink2}
MCFlows == {<<k, Source>> : k \in {Sink1, Sink2}}
MCFlowNodes == [f \in Flows |-> {f[1], f[2]}]
MCFlowSink == [f \in Flows |-> f[1]]
MCWorkConfigs == {MCFlows}
MCLabels == {1}
MCNodeLabel == [n \in Nodes |-> 1]
MCNcLabel == [c \in Containers |-> 1]
=============================================================================
