------------------------------ MODULE MCCdcRx ------------------------------
(* Model-checking instances of CdcRx. *)
EXTENDS CdcRx

\* The properties say nothing of a stream once it is spoilt: such states are
\* checked and not explored further.
UntilSpoilt == Sane
=============================================================================
