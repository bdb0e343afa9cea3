------------------------------ MODULE MCEthRx ------------------------------
(* Model-checking instances of EthRx. *)
EXTENDS EthRx, TLC

\* The pool hands out any free buffer, so buffers are interchangeable.
BufSymmetry == Permutations(Buf)
=============================================================================
