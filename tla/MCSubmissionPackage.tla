------------------------ MODULE MCSubmissionPackage ------------------------
(***************************************************************************)
(* Instances of SubmissionPackage for TLC.                                 *)
(***************************************************************************)
EXTENDS SubmissionPackage
=============================================================================
