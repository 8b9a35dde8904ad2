--------------------------- MODULE MCStreamDrain ---------------------------
(* A bounded instance of StreamDrain. *)
EXTENDS StreamDrain

CONSTANTS s1, b1
=============================================================================
