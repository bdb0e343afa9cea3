---------------------------- MODULE MCUartSerial ----------------------------
(* Model-checking instance of UartSerial. *)
EXTENDS UartSerial

\* The transmit properties say nothing of a port once write() has started bytes
\* that had left: such states are checked and not explored further.
UntilRaced == ~raced
=============================================================================
