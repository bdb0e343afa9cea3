----------------------------- MODULE ByteStream -----------------------------
(***************************************************************************)
(* What a serial port promises, whatever it is made of: a bounded pipe.    *)
(* Bytes are accepted at one end and delivered at the other, each once and *)
(* in the order they were accepted. A connection that is set up again      *)
(* empties the pipe. A pipe that broke promises nothing any more.          *)
(*                                                                         *)
(* Bytes are numbered in the order they are accepted.                      *)
(***************************************************************************)
EXTENDS Integers, Sequences

CONSTANT Capacity   \* bytes the pipe holds at most

VARIABLES
  accepted,   \* number of bytes accepted so far
  delivered,  \* number of bytes delivered or lost so far
  chan,       \* the bytes in the pipe, the oldest first
  broken

vars == <<accepted, delivered, chan, broken>>

\* The n bytes that follow byte a of the stream.
Run(a, n) == [k \in 1 .. n |-> a + k]

Init ==
  /\ accepted = 0
  /\ delivered = 0
  /\ chan = <<>>
  /\ broken = FALSE

\* n bytes enter the pipe, ...
Accept(n) ==
  /\ Len(chan) + n <= Capacity
  /\ accepted' = accepted + n
  /\ chan' = chan \o Run(accepted, n)
  /\ UNCHANGED delivered

\* ... and the n oldest leave it: they are the next ones of the stream.
Deliver(n) ==
  /\ n <= Len(chan)
  /\ SubSeq(chan, 1, n) = Run(delivered, n)
  /\ delivered' = delivered + n
  /\ chan' = SubSeq(chan, n + 1, Len(chan))
  /\ UNCHANGED accepted

\* The connection is set up again: the bytes in the pipe are lost.
Clear ==
  /\ chan' = <<>>
  /\ delivered' = accepted
  /\ UNCHANGED accepted

\* From here on anything may happen.
Break == broken'

Work ==
  \/ \E n \in 1 .. Capacity : Accept(n)
  \/ \E n \in 1 .. Capacity : Deliver(n)
  \/ Clear

Next == Break \/ (~broken /\ ~broken' /\ Work)

Spec == Init /\ [][Next]_vars
=============================================================================
