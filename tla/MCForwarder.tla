------------------------------ MODULE MCForwarder ------------------------------
(* Two remote servers, one of them named twice, batches of two, a channel of   *)
(* two entries.                                                                *)
EXTENDS ForwarderChannel

CONSTANTS s1, s2

RepeatedServer == <<s1, s2, s1>>
=============================================================================
