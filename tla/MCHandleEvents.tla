--------------------------- MODULE MCHandleEvents ---------------------------
(* HandleEvents on its own: one connection, whose event loop may send any    *)
(* event at any time, and two tasks that await a mode.                       *)
EXTENDS HandleEvents
=============================================================================
