------------------------ MODULE MCTransportSession --------------------------
(* TransportSession on a world of three ranks, for TLC.                    *)
EXTENDS TransportSession
=============================================================================
