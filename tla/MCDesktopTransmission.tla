----------------------- MODULE MCDesktopTransmission -----------------------
(* An instance of DesktopTransmission for TLC. *)
EXTENDS DesktopTransmission, TLC
=============================================================================
