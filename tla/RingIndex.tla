----------------------------- MODULE RingIndex -----------------------------
(***************************************************************************)
(* Distances in a ring buffer. The serial ports all count the bytes        *)
(* between two positions this way.                                         *)
(***************************************************************************)
EXTENDS Integers

\* How far it is from one position of a ring of n places to another. The code
\* adds n first, since the positions are unsigned.
Ring(n, from, to) == (n + to - from) % n
=============================================================================
