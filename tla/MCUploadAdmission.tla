-------------------------- MODULE MCUploadAdmission --------------------------
(***************************************************************************)
(* Instances of UploadAdmission for TLC: a seeded and a second profile,    *)
(* panel requests in two API processes, an upload and one rescan.          *)
(***************************************************************************)
EXTENDS UploadAdmission, TLC

CONSTANTS standard, strict, engine, app, a1, a2, r1, r2

(* The API processes are alike: no step and no property names one. *)
AdminSymmetry == Permutations(Admins)
=============================================================================
