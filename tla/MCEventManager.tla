---------------------------- MODULE MCEventManager ----------------------------
(* Instance of EventManager for TLC.                                       *)
EXTENDS EventManager

MCMasks == {{}, {"POLLIN"}}
MCReports == {{}, {"POLLIN"}}
=============================================================================
