------------------------------ MODULE MCAudioPath ------------------------------
(* AudioPath with its properties, for TLC.                                   *)
EXTENDS AudioPathProperties
=============================================================================
