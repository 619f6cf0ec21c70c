--------------------------- MODULE MCUsbCompanion ---------------------------
(***************************************************************************)
(* Instances of UsbCompanion for TLC; the constants are in the .cfg files. *)
(***************************************************************************)
EXTENDS UsbCompanion
=============================================================================
