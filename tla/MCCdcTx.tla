------------------------------ MODULE MCCdcTx ------------------------------
(* Model-checking instances of CdcTx. *)
EXTENDS CdcTx

\* The stream properties say nothing of a stream once it is torn: such states
\* are checked and not explored further.
UntilTorn == ~torn
=============================================================================
