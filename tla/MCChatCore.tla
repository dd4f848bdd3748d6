------------------------------ MODULE MCChatCore ------------------------------
(* ChatCore with its properties, for TLC.                                    *)
EXTENDS ChatCoreProperties
=============================================================================
