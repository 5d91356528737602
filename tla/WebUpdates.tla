------------------------------ MODULE WebUpdates ------------------------------
(***************************************************************************)
(* The updates the Master sends to the web page: the whole graph as JSON,  *)
(* once a second, in order over one connection.                            *)
(***************************************************************************)
EXTENDS Naturals, Sequences, FiniteSets

CONSTANTS
    NodeId,      \* the nodes of the work configs
    Root,        \* the virtual root, the upstream of the sources
    MaxUpdates   \* bound: updates in flight to the page

ASSUME RootAssumption == Root \notin NodeId

VARIABLES
    registered,  \* webClientURI # null
    updates      \* the updates in flight

Colour == {"blue", "green", "red", "black"}
Endpoint == NodeId \cup {Root}
Link == Endpoint \X NodeId

(* A node goes as <<id, place>>: whether its x and y were set.  An edge goes as
   <<link, colour>>; its id is made of the ids of its ends. *)
UpdateMsg == [nodes : SUBSET (Endpoint \X {"placed", "nowhere"}),
              edges : SUBSET ((NodeId \X NodeId) \X Colour)]

UpdateWebClient(msg) ==
    updates' = IF registered THEN Append(updates, msg) ELSE updates

RegisterWebClient ==
    /\ ~registered
    /\ registered' = TRUE
    /\ UNCHANGED updates
=============================================================================
