---------------------------- MODULE MCEventLoop ----------------------------
(* The event loop on a small scale of time: the order of the durations is that
   of the code. *)
EXTENDS EventLoop
=============================================================================
