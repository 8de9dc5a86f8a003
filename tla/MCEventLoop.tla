----------------------------- MODULE MCEventLoop -----------------------------
(* Instances of the event loop for TLC. *)
EXTENDS EventLoop

AllUserTypes == {"click", "motion", "quit"}
Pointer == {"click", "motion"}
=============================================================================
