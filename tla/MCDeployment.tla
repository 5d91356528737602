---------------------------- MODULE MCDeployment ----------------------------
(***************************************************************************)
(* A small topology for TLC: two streams run over the same two nodes, s to *)
(* k1, of one label.                                                       *)
(***************************************************************************)
EXTENDS Deployment

CONSTANTS k1, s, L, f1, f2

MCFlows == {f1, f2}
MCLabels == {L}
MCNcLabel == [c \in Containers |-> L]
MCNodeLabel == [n \in Nodes |-> L]
MCWorkConfigs == {{f1}, {f1, f2}}

SharedNodes == {k1, s}
SharedFlowNodes == [f \in Flows |-> SharedNodes]
SharedFlowSink == [f \in Flows |-> k1]

\* A view of the states.  The tasks of the sinks, the listeners and the task and
\* stop requests on their way change nothing that the invariants of the run
\* speak of; only a request that is incomplete is looked at.  (TLC writes a
\* state out only when it has evaluated the bus as a whole.)
Tasks == {m \in Message : m.type \in {"start", "stop"}}
OtherMessages == {m \in Message : m \notin Tasks}
IncompleteTasks == {m \in Tasks : ~m.complete}
TablesView ==
    <<[m \in OtherMessages |-> bus[m]], {m \in IncompleteTasks : InFlight(m)}, bus # <<>>,
      deadLetters, masterVars, connected, nodeMap, checked, announced, resetTodo>>
=============================================================================
