---------------------------- MODULE MCEventLoop -----------------------------
(* The event loop on its own: one thread, one mode, two buffers, and a       *)
(* kernel that emits events forever.                                         *)
EXTENDS EventLoop
=============================================================================
