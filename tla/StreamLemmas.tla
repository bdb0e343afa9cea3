---------------------------- MODULE StreamLemmas ----------------------------
(***************************************************************************)
(* Facts about numbered bytes and ring positions that the proofs of the    *)
(* serial ports share.                                                     *)
(***************************************************************************)
EXTENDS Integers, Sequences, RingIndex, SequenceTheorems, TLAPS

\* The n bytes that follow byte a of a stream (Run of ByteStream).
Bytes(a, n) == [k \in 1 .. n |-> a + k]

\* Bytes are a sequence.
LEMMA BytesSeq ==
  ASSUME NEW a \in Nat, NEW n \in Nat
  PROVE  /\ Bytes(a, n) \in Seq(Nat)
         /\ Len(Bytes(a, n)) = n
         /\ \A k \in 1 .. n : Bytes(a, n)[k] = a + k
BY DEF Bytes

\* There is one stream of no bytes.
LEMMA NoBytes ==
  ASSUME NEW a \in Nat
  PROVE  Bytes(a, 0) = <<>>
BY BytesSeq

\* Bytes that follow one another make one run.
LEMMA BytesConcat ==
  ASSUME NEW a \in Nat, NEW m \in Nat, NEW n \in Nat
  PROVE  Bytes(a, m) \o Bytes(a + m, n) = Bytes(a, m + n)
<1> DEFINE s == Bytes(a, m)
           t == Bytes(a + m, n)
           u == Bytes(a, m + n)
<1>1. /\ s \in Seq(Nat) /\ Len(s) = m /\ \A k \in 1 .. m : s[k] = a + k
      /\ t \in Seq(Nat) /\ Len(t) = n /\ \A k \in 1 .. n : t[k] = (a + m) + k
      /\ u \in Seq(Nat) /\ Len(u) = m + n /\ \A k \in 1 .. m + n : u[k] = a + k
  <2>1. m + n \in Nat /\ a + m \in Nat
    OBVIOUS
  <2>2. s \in Seq(Nat) /\ Len(s) = m /\ \A k \in 1 .. m : s[k] = a + k
    BY BytesSeq
  <2>3. t \in Seq(Nat) /\ Len(t) = n /\ \A k \in 1 .. n : t[k] = (a + m) + k
    BY <2>1, BytesSeq
  <2>4. u \in Seq(Nat) /\ Len(u) = m + n /\ \A k \in 1 .. m + n : u[k] = a + k
    BY <2>1, BytesSeq
  <2> QED
    BY <2>2, <2>3, <2>4
<1> HIDE DEF s, t, u
<1>2. /\ s \o t \in Seq(Nat)
      /\ Len(s \o t) = m + n
      /\ \A i \in 1 .. m + n : (s \o t)[i] = IF i <= m THEN s[i] ELSE t[i - m]
  BY <1>1, ConcatProperties
<1>3. ASSUME NEW i \in 1 .. m + n PROVE (s \o t)[i] = u[i]
  <2>1. CASE i <= m
    BY <1>1, <1>2, <2>1
  <2>2. CASE i > m
    <3>1. i - m \in 1 .. n
      BY <2>2
    <3> QED
      BY <1>1, <1>2, <2>2, <3>1
  <2>3. i <= m \/ i > m
    OBVIOUS
  <2> QED
    BY <2>1, <2>2, <2>3
<1>4. s \o t = u
  BY <1>1, <1>2, <1>3, SeqEqual
<1> QED
  BY <1>4 DEF s, t, u

\* A part of a run is a run.
LEMMA BytesSub ==
  ASSUME NEW a \in Nat, NEW m \in Nat, NEW n \in 0 .. m
  PROVE  /\ SubSeq(Bytes(a, m), 1, n) = Bytes(a, n)
         /\ SubSeq(Bytes(a, m), n + 1, m) = Bytes(a + n, m - n)
<1> DEFINE s == Bytes(a, m)
           u == Bytes(a, n)
           v == Bytes(a + n, m - n)
<1>1. /\ s \in Seq(Nat) /\ Len(s) = m /\ \A k \in 1 .. m : s[k] = a + k
      /\ u \in Seq(Nat) /\ Len(u) = n /\ \A k \in 1 .. n : u[k] = a + k
      /\ v \in Seq(Nat) /\ Len(v) = m - n /\ \A k \in 1 .. m - n : v[k] = (a + n) + k
  <2>1. n \in Nat /\ m - n \in Nat /\ a + n \in Nat
    OBVIOUS
  <2>2. s \in Seq(Nat) /\ Len(s) = m /\ \A k \in 1 .. m : s[k] = a + k
    BY BytesSeq
  <2>3. u \in Seq(Nat) /\ Len(u) = n /\ \A k \in 1 .. n : u[k] = a + k
    BY <2>1, BytesSeq
  <2>4. v \in Seq(Nat) /\ Len(v) = m - n /\ \A k \in 1 .. m - n : v[k] = (a + n) + k
    BY <2>1, BytesSeq
  <2> QED
    BY <2>2, <2>3, <2>4
<1> HIDE DEF s, u, v
<1>2. SubSeq(s, 1, n) = u
  <2>1. /\ SubSeq(s, 1, n) \in Seq(Nat)
        /\ Len(SubSeq(s, 1, n)) = n
        /\ \A i \in 1 .. n : SubSeq(s, 1, n)[i] = s[i]
    <3>1. \A i \in 1 .. n : s[i] \in Nat
      BY <1>1
    <3> QED
      BY <1>1, <3>1, SubSeqProperties
  <2> QED
    BY <1>1, <2>1, SeqEqual
<1>3. SubSeq(s, n + 1, m) = v
  <2>1. /\ SubSeq(s, n + 1, m) \in Seq(Nat)
        /\ Len(SubSeq(s, n + 1, m)) = m - n
        /\ \A i \in 1 .. m - n : SubSeq(s, n + 1, m)[i] = s[n + i]
    <3>1. \A i \in n + 1 .. m : s[i] \in Nat
      BY <1>1
    <3> QED
      BY <1>1, <3>1, SubSeqProperties
  <2> QED
    BY <1>1, <2>1, SeqEqual
<1> QED
  BY <1>2, <1>3 DEF s, u, v

\* A pipe that holds bytes d + 1 .. a, with n more: it holds d + 1 .. a + n.
LEMMA RunGrows ==
  ASSUME NEW a \in Nat, NEW d \in Nat, NEW n \in Nat, d <= a
  PROVE  Bytes(d, a - d) \o Bytes(a, n) = Bytes(d, (a + n) - d)
<1>1. a - d \in Nat /\ d + (a - d) = a /\ (a - d) + n = (a + n) - d
  OBVIOUS
<1>2. Bytes(d, a - d) \o Bytes(d + (a - d), n) = Bytes(d, (a - d) + n)
  BY <1>1, BytesConcat
<1> QED
  BY <1>1, <1>2

\* With the n oldest taken out, it holds d + n + 1 .. a.
LEMMA RunShrinks ==
  ASSUME NEW a \in Nat, NEW d \in Nat, NEW n \in Nat, d + n <= a
  PROVE  /\ SubSeq(Bytes(d, a - d), 1, n) = Bytes(d, n)
         /\ Bytes(d + n, a - (d + n)) = SubSeq(Bytes(d, a - d), n + 1, a - d)
<1>1. a - d \in Nat /\ n \in 0 .. (a - d) /\ (a - d) - n = a - (d + n)
  OBVIOUS
<1>2. /\ SubSeq(Bytes(d, a - d), 1, n) = Bytes(d, n)
      /\ SubSeq(Bytes(d, a - d), n + 1, a - d) = Bytes(d + n, (a - d) - n)
  BY <1>1, BytesSub
<1> QED
  BY <1>1, <1>2

-----------------------------------------------------------------------------
(* Positions in a ring of N bytes.                                         *)

LEMMA ModSmall ==
  ASSUME NEW N \in Nat \ {0}, NEW a \in 0 .. N - 1
  PROVE  a % N = a
BY Z3

LEMMA ModOnce ==
  ASSUME NEW N \in Nat \ {0}, NEW a \in N .. 2 * N - 1
  PROVE  a % N = a - N
BY Z3

\* How far it is from one position to another, without the modulus.
LEMMA RingCases ==
  ASSUME NEW n \in Nat \ {0}, NEW from \in 0 .. n - 1, NEW to \in 0 .. n - 1
  PROVE  /\ Ring(n, from, to) = IF to >= from THEN to - from ELSE n + to - from
         /\ Ring(n, from, to) \in 0 .. n - 1
<1>1. Ring(n, from, to) = IF to >= from THEN to - from ELSE n + to - from
  <2>1. CASE to >= from
    <3>1. n + to - from \in n .. 2 * n - 1
      BY <2>1
    <3> QED
      BY <2>1, <3>1, ModOnce DEF Ring
  <2>2. CASE to < from
    <3>1. n + to - from \in 0 .. n - 1
      BY <2>2
    <3> QED
      BY <2>2, <3>1, ModSmall DEF Ring
  <2> QED
    BY <2>1, <2>2
<1>2. (IF to >= from THEN to - from ELSE n + to - from) \in 0 .. n - 1
  OBVIOUS
<1> QED
  BY <1>1, <1>2

\* A position moved on by at most the size of the ring.
LEMMA MoveCases ==
  ASSUME NEW n \in Nat \ {0}, NEW p \in 0 .. n - 1, NEW k \in 0 .. n
  PROVE  (p + k) % n = IF p + k < n THEN p + k ELSE p + k - n
<1>1. CASE p + k < n
  BY <1>1, ModSmall
<1>2. CASE p + k >= n
  <2>1. p + k \in n .. 2 * n - 1
    BY <1>2
  <2> QED
    BY <1>2, <2>1, ModOnce
<1> QED
  BY <1>1, <1>2

\* k of the bytes between two positions are done with: there are k less, ...
LEMMA RingShrinks ==
  ASSUME NEW n \in Nat \ {0, 1}, NEW from \in 0 .. n - 1, NEW to \in 0 .. n - 1,
         NEW k \in Nat, from + k <= n, k <= Ring(n, from, to)
  PROVE  /\ (from + k) % n = IF from + k = n THEN 0 ELSE from + k
         /\ (from + k) % n \in 0 .. n - 1
         /\ Ring(n, (from + k) % n, to) = Ring(n, from, to) - k
<1> DEFINE u == (from + k) % n
<1>1. u = IF from + k < n THEN from + k ELSE from + k - n
  <2>1. n \in Nat \ {0} /\ k \in 0 .. n
    OBVIOUS
  <2> QED
    BY <2>1, MoveCases
<1>2. u = IF from + k = n THEN 0 ELSE from + k
  BY <1>1
<1>3. u \in 0 .. n - 1
  BY <1>2
<1> HIDE DEF u
<1>4. Ring(n, from, to) = IF to >= from THEN to - from ELSE n + to - from
  BY RingCases
<1>5. Ring(n, u, to) = IF to >= u THEN to - u ELSE n + to - u
  BY <1>3, RingCases
<1>6. Ring(n, u, to) = Ring(n, from, to) - k
  <2>1. CASE to >= from
    BY <1>2, <1>3, <1>4, <1>5, <2>1
  <2>2. CASE to < from
    <3>1. CASE from + k = n
      BY <1>2, <1>4, <1>5, <2>2, <3>1
    <3>2. CASE from + k < n
      BY <1>2, <1>4, <1>5, <2>2, <3>2
    <3> QED
      BY <3>1, <3>2
  <2> QED
    BY <2>1, <2>2
<1> QED
  BY <1>2, <1>3, <1>6 DEF u

\* ... or k are added, in the room there is: there are k more.
LEMMA RingGrows ==
  ASSUME NEW n \in Nat \ {0, 1}, NEW from \in 0 .. n - 1, NEW to \in 0 .. n - 1,
         NEW k \in Nat, to + k <= n, k <= n - 1 - Ring(n, from, to)
  PROVE  /\ (to + k) % n = IF to + k = n THEN 0 ELSE to + k
         /\ (to + k) % n \in 0 .. n - 1
         /\ Ring(n, from, (to + k) % n) = Ring(n, from, to) + k
<1> DEFINE u == (to + k) % n
<1>1. u = IF to + k < n THEN to + k ELSE to + k - n
  <2>1. n \in Nat \ {0} /\ k \in 0 .. n
    OBVIOUS
  <2> QED
    BY <2>1, MoveCases
<1>2. u = IF to + k = n THEN 0 ELSE to + k
  BY <1>1
<1>3. u \in 0 .. n - 1
  BY <1>2
<1> HIDE DEF u
<1>4. Ring(n, from, to) = IF to >= from THEN to - from ELSE n + to - from
  BY RingCases
<1>5. Ring(n, from, u) = IF u >= from THEN u - from ELSE n + u - from
  BY <1>3, RingCases
<1>6. Ring(n, from, u) = Ring(n, from, to) + k
  BY <1>2, <1>3, <1>4, <1>5
<1> QED
  BY <1>2, <1>3, <1>6 DEF u

\* The m places of a ring of n from a position on hold the bytes behind byte d.
RingHolds(n, buff, from, m, d) ==
  \A i \in 0 .. n - 1 :
    Ring(n, from, i) < m => buff[i] = d + 1 + Ring(n, from, i)

\* Read from that position on they are a run.
LEMMA RingRun ==
  ASSUME NEW n \in Nat \ {0}, NEW from \in 0 .. n - 1, NEW m \in 0 .. n - 1,
         NEW d \in Nat, NEW buff \in [0 .. n - 1 -> Nat], RingHolds(n, buff, from, m, d)
  PROVE  \A k \in 1 .. m : buff[(from + k - 1) % n] = d + k
<1> SUFFICES ASSUME NEW k \in 1 .. m PROVE buff[(from + k - 1) % n] = d + k
  OBVIOUS
<1> DEFINE i == (from + k - 1) % n
<1>1. i = IF from + (k - 1) < n THEN from + (k - 1) ELSE from + (k - 1) - n
  <2>1. k - 1 \in 0 .. n /\ from + k - 1 = from + (k - 1)
    OBVIOUS
  <2> QED
    BY <2>1, MoveCases
<1>2. i \in 0 .. n - 1
  BY <1>1
<1> HIDE DEF i
<1>3. Ring(n, from, i) = k - 1
  <2>1. Ring(n, from, i) = IF i >= from THEN i - from ELSE n + i - from
    BY <1>2, RingCases
  <2> QED
    BY <1>1, <1>2, <2>1
<1>4. buff[i] = d + 1 + (k - 1)
  BY <1>2, <1>3 DEF RingHolds
<1> QED
  BY <1>4 DEF i

\* The way from one position to a third goes by the second, or once round less.
LEMMA RingVia ==
  ASSUME NEW n \in Nat \ {0, 1}, NEW p \in 0 .. n - 1, NEW q \in 0 .. n - 1,
         NEW i \in 0 .. n - 1
  PROVE  Ring(n, p, i) = IF Ring(n, p, q) + Ring(n, q, i) < n
                         THEN Ring(n, p, q) + Ring(n, q, i)
                         ELSE Ring(n, p, q) + Ring(n, q, i) - n
<1>1. /\ Ring(n, p, i) = IF i >= p THEN i - p ELSE n + i - p
      /\ Ring(n, p, q) = IF q >= p THEN q - p ELSE n + q - p
      /\ Ring(n, q, i) = IF i >= q THEN i - q ELSE n + i - q
  <2>1. n \in Nat \ {0}
    OBVIOUS
  <2> QED
    BY <2>1, RingCases
<1>2. CASE q >= p
  BY <1>1, <1>2
<1>3. CASE q < p
  BY <1>1, <1>3
<1> QED
  BY <1>2, <1>3

\* With the first byte gone the places behind it hold what follows.
LEMMA HoldsNext ==
  ASSUME NEW n \in Nat \ {0, 1}, NEW from \in 0 .. n - 1, NEW m \in 1 .. n - 1,
         NEW d \in Nat, NEW buff \in [0 .. n - 1 -> Nat], RingHolds(n, buff, from, m, d)
  PROVE  RingHolds(n, buff, (from + 1) % n, m - 1, d + 1)
<1> DEFINE u == (from + 1) % n
<1>1. u = IF from + 1 < n THEN from + 1 ELSE 0
  <2>1. u = IF from + 1 < n THEN from + 1 ELSE from + 1 - n
    <3>1. n \in Nat \ {0} /\ 1 \in 0 .. n
      OBVIOUS
    <3> QED
      BY <3>1, MoveCases
  <2> QED
    BY <2>1
<1>2. u \in 0 .. n - 1
  BY <1>1
<1> HIDE DEF u
<1>3. ASSUME NEW i \in 0 .. n - 1, Ring(n, u, i) < m - 1
      PROVE  buff[i] = (d + 1) + 1 + Ring(n, u, i)
  <2>1. n \in Nat \ {0}
    OBVIOUS
  <2>2. Ring(n, u, i) = IF i >= u THEN i - u ELSE n + i - u
    BY <1>2, <2>1, RingCases
  <2>3. Ring(n, from, i) = IF i >= from THEN i - from ELSE n + i - from
    BY <2>1, RingCases
  <2>4. PICK r \in 0 .. n - 1 : r = Ring(n, u, i)
    BY <1>2, <2>1, RingCases
  <2>5. r < m - 1
    BY <1>3, <2>4
  <2>6. Ring(n, from, i) = r + 1
    <3>1. CASE from + 1 < n
      BY <1>1, <2>2, <2>3, <2>4, <2>5, <3>1
    <3>2. CASE from + 1 = n
      BY <1>1, <2>2, <2>3, <2>4, <2>5, <3>2
    <3> QED
      BY <3>1, <3>2
  <2>7. buff[i] = d + 1 + (r + 1)
    BY <2>5, <2>6 DEF RingHolds
  <2> QED
    BY <2>4, <2>7
<1>4. RingHolds(n, buff, u, m - 1, d + 1)
  BY <1>3 DEF RingHolds
<1> QED
  BY <1>4 DEF u

\* k more bytes stored behind the m there are, not over them, lengthen the run.
LEMMA HoldsMore ==
  ASSUME NEW n \in Nat \ {0, 1}, NEW from \in 0 .. n - 1, NEW to \in 0 .. n - 1,
         NEW k \in Nat, NEW d \in Nat, NEW buff \in [0 .. n - 1 -> Nat],
         Ring(n, from, to) + k <= n - 1,
         RingHolds(n, buff, from, Ring(n, from, to), d),
         NEW next,
         next = [i \in 0 .. n - 1 |-> IF Ring(n, to, i) < k
                                      THEN (d + Ring(n, from, to)) + 1 + Ring(n, to, i)
                                      ELSE buff[i]]
  PROVE  RingHolds(n, next, from, Ring(n, from, to) + k, d)
<1> DEFINE m == Ring(n, from, to)
<1>1. ASSUME NEW i \in 0 .. n - 1, Ring(n, from, i) < m + k
      PROVE  next[i] = d + 1 + Ring(n, from, i)
  <2>1. n \in Nat \ {0}
    OBVIOUS
  <2>2. /\ m \in 0 .. n - 1 /\ Ring(n, to, i) \in 0 .. n - 1
        /\ Ring(n, from, i) \in 0 .. n - 1
    BY <2>1, RingCases
  <2>3. Ring(n, from, i) = IF m + Ring(n, to, i) < n THEN m + Ring(n, to, i)
                                                     ELSE m + Ring(n, to, i) - n
    BY RingVia
  <2> HIDE DEF m
  <2>4. CASE Ring(n, to, i) < k
    <3>1. Ring(n, from, i) = m + Ring(n, to, i)
      BY <2>2, <2>3, <2>4 DEF m
    <3>2. next[i] = (d + m) + 1 + Ring(n, to, i)
      BY <2>4 DEF m
    <3> QED
      BY <2>2, <3>1, <3>2
  <2>5. CASE ~(Ring(n, to, i) < k)
    <3>1. Ring(n, from, i) < m
      BY <1>1, <2>2, <2>3, <2>5
    <3>2. next[i] = buff[i]
      BY <2>5
    <3> QED
      BY <3>1, <3>2 DEF RingHolds, m
  <2> QED
    BY <2>4, <2>5
<1> QED
  BY <1>1 DEF RingHolds

\* The same wherever the k bytes wrap.
LEMMA RingAdds ==
  ASSUME NEW n \in Nat \ {0, 1}, NEW from \in 0 .. n - 1, NEW to \in 0 .. n - 1,
         NEW k \in Nat, Ring(n, from, to) + k <= n - 1
  PROVE  /\ (to + k) % n \in 0 .. n - 1
         /\ Ring(n, from, (to + k) % n) = Ring(n, from, to) + k
<1> DEFINE u == (to + k) % n
<1>0. n \in Nat \ {0}
  OBVIOUS
<1>1. Ring(n, from, to) = IF to >= from THEN to - from ELSE n + to - from
  BY <1>0, RingCases
<1>2. u = IF to + k < n THEN to + k ELSE to + k - n
  <2>1. k \in 0 .. n
    BY <1>1
  <2> QED
    BY <1>0, <2>1, MoveCases
<1>3. u \in 0 .. n - 1
  BY <1>1, <1>2
<1> HIDE DEF u
<1>4. Ring(n, from, u) = IF u >= from THEN u - from ELSE n + u - from
  BY <1>0, <1>3, RingCases
<1>5. Ring(n, from, u) = Ring(n, from, to) + k
  <2>1. CASE to >= from
    BY <1>1, <1>2, <1>3, <1>4, <2>1
  <2>2. CASE to < from
    BY <1>1, <1>2, <1>3, <1>4, <2>2
  <2> QED
    BY <2>1, <2>2
<1> QED
  BY <1>3, <1>5 DEF u

\* With the first k bytes gone the places behind them hold what follows.
LEMMA HoldsSkip ==
  ASSUME NEW n \in Nat \ {0, 1}, NEW from \in 0 .. n - 1, NEW m \in 0 .. n - 1,
         NEW k \in 0 .. m, NEW d \in Nat, NEW buff, RingHolds(n, buff, from, m, d)
  PROVE  RingHolds(n, buff, (from + k) % n, m - k, d + k)
<1> DEFINE u == (from + k) % n
<1>0. n \in Nat \ {0}
  OBVIOUS
<1>1. u \in 0 .. n - 1 /\ Ring(n, from, u) = k
  <2>1. Ring(n, from, from) = 0
    BY <1>0, RingCases
  <2>2. k \in Nat /\ Ring(n, from, from) + k <= n - 1
    BY <2>1
  <2> QED
    BY <2>1, <2>2, RingAdds
<1> HIDE DEF u
<1>2. ASSUME NEW i \in 0 .. n - 1, Ring(n, u, i) < m - k
      PROVE  buff[i] = (d + k) + 1 + Ring(n, u, i)
  <2>1. Ring(n, u, i) \in 0 .. n - 1
    BY <1>0, <1>1, RingCases
  <2>2. k + Ring(n, u, i) < m
    BY <1>2, <2>1
  <2>3. Ring(n, from, i) = k + Ring(n, u, i)
    BY <1>1, <2>1, <2>2, RingVia
  <2>4. buff[i] = d + 1 + Ring(n, from, i)
    BY <2>2, <2>3 DEF RingHolds
  <2> QED
    BY <2>1, <2>3, <2>4
<1>3. RingHolds(n, buff, u, m - k, d + k)
  BY <1>2 DEF RingHolds
<1> QED
  BY <1>3 DEF u
=============================================================================
