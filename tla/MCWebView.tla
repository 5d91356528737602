------------------------------ MODULE MCWebView -------------------------------
(***************************************************************************)
(* Two uploads for TLC: a streams to b, and a streams to c.  After a reset *)
(* they make graphs of equal size with different nodes.                    *)
(***************************************************************************)
EXTENDS WebView, TLC

CONSTANTS a, b, c

ToB == <<<<Root, a>>, <<a, b>>>>
ToC == <<<<Root, a>>, <<a, c>>>>
MCUploads == {ToB, ToC}
MCStreams == {<<a, b>>}
NoStreams == {}
MCTable == <<b, Root, a, c>>
=============================================================================
