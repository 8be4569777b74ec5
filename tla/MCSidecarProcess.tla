-------------------------- MODULE MCSidecarProcess --------------------------
(* Every kind of timed check, alone, together and in either order. *)
EXTENDS SidecarProcess

MCConfigs == {<<"random_failure">>,
              <<"always_healthy", "random_failure", "random">>,
              <<"random", "always_healthy", "random_failure">>}
=============================================================================
