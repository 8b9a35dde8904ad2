--------------------------- MODULE MCRequestLoop ---------------------------
(* Bounded instances of RequestLoop: one request of any kind next to an     *)
(* embeddings request of the same conversation, and one chat request alone. *)
EXTENDS RequestLoop, TLC

CONSTANTS r1, r2

BesideEmbeddings == (r1 :> AllFlows) @@ (r2 :> {"embeddings"})
OnlyChat == r1 :> {"chat"}
=============================================================================
