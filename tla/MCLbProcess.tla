---------------------------- MODULE MCLbProcess ----------------------------
(* Two connections.  DRAIN:5 and DRAIN:50 share a prefix that is a command. *)
EXTENDS LbProcess

MCLines == {<<"DRAIN:", "5">>, <<"DRAIN:", "5", "0">>, <<"RESUME">>}
=============================================================================
