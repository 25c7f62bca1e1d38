------------------------------- MODULE ApiCall -------------------------------
(***************************************************************************)
(* What one call of an HTTP client of this package promises its caller,    *)
(* whatever happens to tokens and to the network underneath.               *)
(*                                                                         *)
(* A call is begun, the server carries out its request at most once, and   *)
(* the caller learns one of four things:                                   *)
(*   done     the request was carried out, exactly once;                   *)
(*   absent   a delete found nothing to delete;                            *)
(*   refused  the request was not carried out;                             *)
(*   unknown  the answer was lost or the server failed while serving it:   *)
(*            the request was carried out once or not at all.              *)
(*                                                                         *)
(* BaseClient (DataMasqueClient) and IfmClient (DataMasqueIfmClient) both  *)
(* implement this module; the callers composed on top of them rely on it.  *)
(***************************************************************************)
EXTENDS Naturals

VARIABLES phase,    \* "idle" between calls, "calling" during one
          result,   \* what the caller learnt of the last call, "none" before
          applied   \* how often the server carried the call's request out

apiVars == <<phase, result, applied>>

Results == {"done", "absent", "refused", "unknown"}

ApiTypeOK ==
    /\ phase \in {"idle", "calling"}
    /\ result \in Results \cup {"none"}
    /\ applied \in {0, 1}

ApiInit ==
    /\ phase = "idle"
    /\ result = "none"
    /\ applied = 0

Begin ==
    /\ phase = "idle"
    /\ phase' = "calling"
    /\ result' = "none"
    /\ applied' = 0

(* The server carries the request out: never a second time. *)
Apply ==
    /\ phase = "calling"
    /\ applied = 0
    /\ applied' = 1
    /\ UNCHANGED <<phase, result>>

(* The call ends with an answer that says what the server did. *)
Finish ==
    /\ phase = "calling"
    /\ phase' = "idle"
    /\ \/ result' = "done" /\ applied = 1
       \/ result' \in {"absent", "refused"} /\ applied = 0
       \/ result' = "unknown"
    /\ UNCHANGED applied

(* The call ends without an answer, the request perhaps carried out. *)
Lose ==
    /\ phase = "calling"
    /\ phase' = "idle"
    /\ result' = "unknown"
    /\ applied' \in {applied, 1}

ApiNext == Begin \/ Apply \/ Finish \/ Lose

ApiSpec == ApiInit /\ [][ApiNext]_apiVars
==============================================================================
