----------------------------- MODULE MCTrapLink -----------------------------
(***************************************************************************)
(* A WebSocket and an HTTP connection, the first preferred as in the       *)
(* client; one datum that fits into a message and one that takes two, of   *)
(* which the first holds a character of two bytes.                         *)
(***************************************************************************)
EXTENDS TrapLink, TLC

CONSTANTS w, h

Short == <<65>>
Long == <<195, 169, 66>>
MCData == {Short, Long}
MCKind == (w :> "websocket") @@ (h :> "http")
MCPriority == (w :> 0) @@ (h :> 100)

(* Chunking and reassembly undo each other, for data of up to six chunks   *)
(* and for two data in a row.                                              *)
Piece(n) == [i \in 1..n |-> i]
InPieces == \A a, b \in 0..6 :
    LET c == ChannelSend(ChannelSend(NewChannel, Piece(a)), Piece(b))
    IN  Reassemble(NoFragment, c.outQueue) =
            [fragment |-> NoFragment, out |-> <<Piece(a), Piece(b)>>]
ASSUME ChunksAreUndone == InPieces
=============================================================================
