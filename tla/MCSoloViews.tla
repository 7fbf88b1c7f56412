---------------------------- MODULE MCSoloViews -----------------------------
(* Channels for the model checking of SoloViews. *)
EXTENDS SoloViews, MCSoloTransmit
=============================================================================
