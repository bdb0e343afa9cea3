------------------------------- MODULE MCNode -------------------------------
(* Model-checking instance of Node. *)
EXTENDS Node

\* Two modes that differ in both bits, so that an old mode shows.
TwoModes == {[speed |-> 100, duplex |-> "full"], [speed |-> 10, duplex |-> "half"]}
=============================================================================
