----------------------------- MODULE MCUsbDongle -----------------------------
(* UsbDongle with its properties, for TLC.                                  *)
EXTENDS UsbDongleProperties
=============================================================================
