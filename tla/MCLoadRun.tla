------------------------------ MODULE MCLoadRun ------------------------------
(* Requests that are answered fast, and requests that fail slowly.          *)
EXTENDS LoadRun

MCAnswers == {<<1, TRUE>>, <<2, FALSE>>}
=============================================================================
