------------------------------- MODULE Scans --------------------------------
(***************************************************************************)
(* What the scan of a tag rests on: the signature of its link and the row  *)
(* of access it is answered with.  Signing keys and tags share no state.   *)
(***************************************************************************)
EXTENDS Tags, Signatures

ScansInit == TagsInit /\ SignInit

ScansNext ==
    \/ TagSteps /\ UNCHANGED signVars
    \/ SignSteps /\ UNCHANGED tagVars

ScansSpec == ScansInit /\ [][ScansNext]_<<tagVars, signVars>>

(* What a scanned link leads to: its signature verifies on every instance  *)
(* until it ends, and the context that is resolved for the scan shows the  *)
(* tag under row level security.                                           *)
ScansOpen == SignaturesVerify /\ ScanAgreesWithRowSecurity
=============================================================================
