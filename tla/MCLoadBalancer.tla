--------------------------- MODULE MCLoadBalancer ---------------------------
(* Three servers, one of which has no type; the first and the last share   *)
(* a host:port, as drain_manager.ts keys them.                             *)
EXTENDS LoadBalancer

MCTypeOf == <<"a", NoType, "a">>
MCTypes == {"a"}
MCKeyOf == <<"k", "l", "k">>
MCServers == 1..3
MCTimerIds == 1..3
=============================================================================
