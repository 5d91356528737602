------------------------------- MODULE WebView --------------------------------
(***************************************************************************)
(* The Master's graph, the updates and the page, together.                 *)
(***************************************************************************)
EXTENDS WebClientGraph, WebClient

vars == <<registered, updates, webGraphVars, webClientVars>>

TypeOK == WebGraphTypeOK /\ WebClientTypeOK

Init ==
    /\ registered = FALSE /\ updates = <<>>
    /\ WebGraphInit /\ WebClientInit

MasterStep == WebGraphNext /\ UNCHANGED webClientVars
ClientStep == (PageStep \/ MouseStep \/ Reload) /\ UNCHANGED webGraphVars
Connect == RegisterWebClient /\ UNCHANGED <<webGraphVars, webClientVars>>

Next == MasterStep \/ ClientStep \/ Connect

Spec == Init /\ [][Next]_vars

(***************************************************************************)
(* Fairness: the handler that holds the Master's monitor goes on, the      *)
(* timer fires again and again, the page gets its updates and connects.    *)
(* Nobody has to upload, reset, report or touch the mouse.                 *)
(***************************************************************************)
Fairness ==
    /\ WF_vars((AddEdgeStep \/ SetLocations \/ ResetEdges) /\ UNCHANGED webClientVars)
    /\ WF_vars(TimerStep /\ UNCHANGED webClientVars)
    /\ WF_vars(PageStep /\ UNCHANGED webGraphVars)
    /\ WF_vars(Connect)

FairSpec == Spec /\ Fairness
-----------------------------------------------------------------------------
(* The graph of the page is coherent at all times, also after an update that
   ended in an exception half way (sigma.classes.graph.js, refreshGraph). *)
PageGraphCoherent == Coherent(s.graph)

(* The page never shows a mixture of two updates: its nodes are those of one
   update, the last that rebuilt the graph, whatever failed since. *)
NodesOfOneUpdate == s.alive => NodeIds(s.graph) = lastMsg

(* refreshGraph saves itself the refresh where no colour of an edge changed:
   unless an update has ended in an exception since, the colours on the screen are those
   of the graph, and exactly its nodes answer to the mouse. *)
ScreenIsCurrent ==
    s.alive /\ ~threw => drawn = Colours(s.graph) /\ hovered = NodeIds(s.graph)

(* A watcher table has rows exactly if there is something on the watcher, which
   is among them: overNode, outNode, clickNode, clickStage and their like for
   edges, in any order and with updates in between. *)
WatcherHasItsRows ==
    \A k \in Watched :
        IF watcher[k].on = Null THEN watcher[k].rows = {}
                                ELSE watcher[k].on \in watcher[k].rows

(* Every link the page is told of is a link of the Master, as long as nobody
   resets the simulation, and every node is known and not the virtual root. *)
UpdatesAreTrue ==
    resets = 0 => \A i \in DOMAIN updates :
        MsgNodeIds(updates[i]) \subseteq RealNodes /\ MsgEdgeIds(updates[i]) \subseteq Shown

(* As long as the timer lives, the page comes to show as many nodes as the
   Master knows, and without a reset the very same nodes. *)
PageCatchesUp ==
    <>[](\/ timer.at = "dead"
         \/ ~registered
         \/ /\ Len(s.graph.nodesArray) = Cardinality(RealNodes)
            /\ resets = 0 => NodeIds(s.graph) = RealNodes)
=============================================================================
