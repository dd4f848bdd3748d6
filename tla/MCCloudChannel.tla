---------------------------- MODULE MCCloudChannel ----------------------------
(* CloudChannel with its properties, for TLC.                               *)
EXTENDS CloudChannelProperties
=============================================================================
