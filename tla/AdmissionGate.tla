---------------------------- MODULE AdmissionGate ----------------------------
(***************************************************************************)
(* What a client may rely on, whatever happens inside the scanner: a scan  *)
(* is queued once, taken up once and answered; an answer may be withdrawn  *)
(* in favour of a denial, and a denial is for ever.  This is the promise   *)
(* of the process_scan docstring ("fail-closed throughout") and of the     *)
(* claim query.                                                            *)
(***************************************************************************)
CONSTANT Scans

VARIABLE phase

Phases == {"absent", "queued", "working", "allowed", "denied"}

Init == phase = [s \in Scans |-> "absent"]

(* create_scan inserts a RECEIVED row *)
Submit(s) == phase[s] = "absent" /\ phase' = [phase EXCEPT ![s] = "queued"]

(* claim_next_scan turns RECEIVED into VALIDATING *)
Take(s) == phase[s] = "queued" /\ phase' = [phase EXCEPT ![s] = "working"]

(* an explicit CLEAN verdict or an explicit ALLOW policy *)
Allow(s) == phase[s] = "working" /\ phase' = [phase EXCEPT ![s] = "allowed"]

(* everything else: a detection, a failed stage, an exception, the sweep *)
Deny(s) ==
  /\ phase[s] \in {"working", "allowed"}
  /\ phase' = [phase EXCEPT ![s] = "denied"]

Next == \E s \in Scans : Submit(s) \/ Take(s) \/ Allow(s) \/ Deny(s)

Spec == Init /\ [][Next]_phase
=============================================================================
