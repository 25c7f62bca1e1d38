---------------------------- MODULE MCBaseClient ----------------------------
(* Constants of the model-checked instances of BaseClient.                 *)
EXTENDS BaseClient

(* One refusal, the refusal a delete forgives, one failure of the server   *)
(* and the answer of a server that is starting.                            *)
MCErrors == {400, 404, 500, 502}
=============================================================================
