-------------------------- MODULE MCLiveResources --------------------------
(* Two machines: A holds the plaintext key of the first installation. *)
EXTENDS LiveResources
=============================================================================
