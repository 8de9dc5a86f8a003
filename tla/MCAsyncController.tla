-------------------------- MODULE MCAsyncController --------------------------
(* Instances of AsyncController for TLC. *)
EXTENDS AsyncController

CONSTANTS imageCache, playSound, events, t1, t2

OrderCacheSound == <<imageCache, playSound, events>>
=============================================================================
