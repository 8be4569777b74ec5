------------------------------ MODULE MCRouter ------------------------------
(* Five servers: two of type "a", two of type "b", interleaved, and one     *)
(* without a type; "ghost" is a type name no server has.                    *)
EXTENDS RouterTurns

MCTypeOf == <<"a", "b", "a", NoType, "b">>
MCTypes == {"a", "b", "ghost"}
=============================================================================
