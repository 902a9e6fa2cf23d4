---------------------------- MODULE MCEventLoop ----------------------------
(* Fewer listeners than the code has; they differ in nothing but their turn. *)
EXTENDS EventLoop, TLC

MCListeners == <<"tcp_listener", "udp_unicast_listener">>
=============================================================================
