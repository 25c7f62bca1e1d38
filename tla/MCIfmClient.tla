----------------------------- MODULE MCIfmClient -----------------------------
(* Constants of the model-checked instances of IfmClient.                  *)
EXTENDS IfmClient

(* The soft failure of mask, one other refusal, one failure of the service *)
(* and the answer of a service that is starting.                           *)
MCErrors == {400, 403, 500, 502}
==============================================================================
