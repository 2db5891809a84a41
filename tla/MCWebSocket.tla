------------------------------ MODULE MCWebSocket ------------------------------
(* WebSocket for TLC: a patient peer that sends a text and a pong, and one   *)
(* whose two frames together are longer than the buffer, and which may cut   *)
(* the first of them behind its second byte: its mask, read alone, looks like *)
(* the head of a frame of fifteen bytes.  Two workers.                       *)
EXTENDS WebSocket, TLC

CONSTANTS p1, p2

MCScript == (p1 :> <<<<TEXT, <<65>>>>, <<PONG, <<>>>>>>)
            @@ (p2 :> <<<<PING, <<66, 67, 68>>>>, <<CLOSE, <<3, 232>>>>>>)
MCMask == <<129, 143, 255, 0>>

(* The frames on the wire, the first one with its length in two bytes.      *)
(* StreamAssumption says that these bytes are those frames.                  *)
MCStream == (p1 :> <<129, 254, 0, 1, 129, 143, 255, 0, 192,
                     138, 128, 129, 143, 255, 0>>)
            @@ (p2 :> <<137, 131, 129, 143, 255, 0, 195, 204, 187,
                        136, 130, 129, 143, 255, 0, 130, 103>>)
MCCut == (p1 :> (0 :> 0 @@ 1 :> 9 @@ 2 :> 15)) @@ (p2 :> (0 :> 0 @@ 1 :> 9 @@ 2 :> 17))
==============================================================================
