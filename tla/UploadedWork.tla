----------------------------- MODULE UploadedWork -----------------------------
(***************************************************************************)
(* A work config from its making to its streams: the page or the user      *)
(* makes it, the Master checks it, and what it accepts is deployed.  Node  *)
(* ids and flow ids of the deployment are those of the work config: a flow *)
(* id is the path of node ids.                                             *)
(***************************************************************************)
EXTENDS Deployment, WorkSpec

CONSTANT Followed   \* bound: the accepted work configs whose deployment is followed

ASSUME FollowedAssumption ==
    \A spec \in Followed : \A i \in DOMAIN spec :
        LET path == [j \in DOMAIN spec[i] |-> spec[i][j].id]
        IN  /\ path \in Flows
            /\ FlowNodes[path] = Range(path) /\ FlowSink[path] = path[1]

uploadVars == <<vars, workVars>>

UploadInit == Init /\ WorkInit

\* The flow ids of a work config, generateFlowId for each of its flows.
FlowIds(spec) == {[j \in DOMAIN spec[i] |-> spec[i][j].id] : i \in DOMAIN spec}

\* The containers come up and look at no work config: it makes no difference
\* that they do so when it has been made.
MakeWork == WorkNext /\ UNCHANGED vars

Accepted == verdict = "accepted" /\ flows \in Followed

\* What is uploaded is the work config that has been accepted.
Deploy ==
    /\ Accepted
    /\ Next
    /\ uploads' # uploads => loaded' = loaded \cup (FlowIds(flows) \X {uploads'})
    /\ UNCHANGED workVars

UploadNext == MakeWork \/ Deploy

(* An accepted work config is deployed as far as it goes. *)
UploadSpec ==
    /\ UploadInit /\ [][UploadNext]_uploadVars
    /\ WF_uploadVars(Accepted /\ Progress /\ UNCHANGED workVars)
=============================================================================
