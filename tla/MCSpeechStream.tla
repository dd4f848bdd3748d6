---------------------------- MODULE MCSpeechStream ----------------------------
(* SpeechStream with its properties, for TLC.                                *)
EXTENDS SpeechStreamProperties
=============================================================================
