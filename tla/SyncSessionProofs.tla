-------------------------- MODULE SyncSessionProofs --------------------------
(***************************************************************************)
(* Proofs about SyncSession, for buffers, manifests and messages of any    *)
(* size.                                                                   *)
(*                                                                         *)
(* Link says of each direction that the bytes between the two threads,     *)
(* wherever writes and reads have cut them, are those of the frames that   *)
(* were sent and not yet received.  SessionInv says where the two threads  *)
(* can be and which frames are on their way then.  No step of SyncSession  *)
(* violates Inv, the conjunction of both.                                  *)
(***************************************************************************)
EXTENDS SyncSession, SequenceTheorems, TLAPS

-----------------------------------------------------------------------------
(***************************************************************************)
(* The words before a payload are read as they were written.               *)
(***************************************************************************)
LEMMA RadixBig == Radix \in Nat /\ Radix >= 3
  BY BaseAssumption DEF Radix

LEMMA DivMod ==
  ASSUME NEW n \in Nat, NEW b \in Nat, b > 0
  PROVE  /\ n \div b \in Nat /\ n % b \in 0 .. b - 1
         /\ n = (n \div b) * b + (n % b)
  BY Z3

LEMMA DivLess ==
  ASSUME NEW n \in Nat, NEW b \in Nat, b > 0, NEW c \in Nat, n < c * b
  PROVE  n \div b < c
<1> DEFINE q == n \div b
           r == n % b
<1>1. q \in Nat /\ r \in Nat /\ n = q * b + r
  BY DivMod
<1> HIDE DEF q, r
<1>2. SUFFICES ASSUME q >= c PROVE FALSE
  BY <1>1 DEF q
<1>3. q * b >= c * b
  BY <1>1, <1>2
<1> QED
  BY <1>1, <1>3

LEMMA DivDiv ==
  ASSUME NEW n \in Nat, NEW a \in Nat, NEW b \in Nat, a > 0, b > 0
  PROVE  n \div (a * b) = (n \div b) \div a
<1> DEFINE q == n \div b
           r == n % b
           p == q \div a
           s == q % a
<1>1. q \in Nat /\ r \in 0 .. b - 1 /\ n = q * b + r
  BY DivMod
<1>2. p \in Nat /\ s \in 0 .. a - 1 /\ q = p * a + s
  BY <1>1, DivMod
<1> HIDE DEF q, r, p, s
<1>3. n = p * (a * b) + (s * b + r)
  BY <1>1, <1>2
<1>4. s * b <= (a - 1) * b
  BY <1>2
<1>5. s * b + r \in 0 .. a * b - 1
  BY <1>1, <1>2, <1>4
<1>6. a * b \in Nat /\ a * b > 0
  OBVIOUS
<1> QED
  BY <1>2, <1>3, <1>5, <1>6 DEF p, q

Word == {w \in Seq(Byte) : Len(w) = WordSize}

LEMMA WordExact ==
  ASSUME NEW n \in Nat, n < WordLimit
  PROVE  /\ HostToNet32(n) \in Word
         /\ NetToHost32(HostToNet32(n)) = n
<1> DEFINE R == Radix
           q1 == n \div R
           q2 == n \div (R * R)
           q3 == n \div (R * R * R)
<1>0. R \in Nat /\ R >= 3 /\ R * R \in Nat /\ R * R > 0 /\ R * R * R \in Nat /\ R * R * R > 0
  BY RadixBig
<1>1. q1 \in Nat /\ q2 \in Nat /\ q3 \in Nat
  BY <1>0, DivMod
<1>2. q2 = q1 \div R
  BY <1>0, DivDiv
<1>3. q3 = q2 \div R
  <2>1. R * R * R = R * (R * R)
    BY <1>0
  <2> QED
    BY <1>0, <2>1, DivDiv
<1>4. q3 < R
  <2>1. WordLimit = R * (R * R * R)
    BY <1>0 DEF WordLimit
  <2>2. q3 < R
    BY <1>0, <2>1, DivLess
  <2> QED
    BY <2>2
<1>5. /\ n = q1 * R + (n % R) /\ n % R \in 0 .. R - 1
      /\ q1 = q2 * R + (q1 % R) /\ q1 % R \in 0 .. R - 1
      /\ q2 = q3 * R + (q2 % R) /\ q2 % R \in 0 .. R - 1
      /\ q3 % R \in 0 .. R - 1
  BY <1>0, <1>1, <1>2, <1>3, DivMod
<1>6. q3 % R = q3
  BY <1>0, <1>1, <1>4
<1>7. Byte = 0 .. R - 1
  BY BaseAssumption DEF Byte, Radix
<1> DEFINE w == HostToNet32(n)
<1>8. w = <<q3 % R, q2 % R, q1 % R, n % R>>
  BY DEF HostToNet32
<1>9. w \in Word
  BY <1>5, <1>7, <1>8 DEF Word, WordSize
<1>10. NetToHost32(w) = n
  <2> HIDE DEF R, q1, q2, q3
  <2>1. NetToHost32(w) = (((q3 % R) * R + (q2 % R)) * R + (q1 % R)) * R + (n % R)
    BY <1>8 DEF NetToHost32, R
  <2>2. (q3 % R) * R + (q2 % R) = q2
    BY <1>5, <1>6
  <2>3. q2 * R + (q1 % R) = q1
    BY <1>5
  <2> QED
    BY <2>1, <2>2, <2>3, <1>5
<1> QED
  BY <1>9, <1>10

-----------------------------------------------------------------------------
(***************************************************************************)
(* The bytes of a queue of frames.                                         *)
(*                                                                         *)
(* Recursion over the queue is out of reach of the provers, so a byte      *)
(* sequence is said to be that of a queue if there are places to cut it    *)
(* into the bytes of the frames, one after the other.                      *)
(***************************************************************************)
\* The frames whose type and size fit into a word.
FrameSet == {f \in [type : Nat, payload : Seq(Byte)] : f.type < WordLimit /\ Len(f.payload) < WordLimit}

\* What Send writes for a frame.
Bytes(f) == HostToNet32(f.type) \o HostToNet32(Len(f.payload)) \o f.payload

\* Frame k of q is in P between cut[k - 1] and cut[k].
Cuts(P, q) ==
  {cut \in [0 .. Len(q) -> 0 .. Len(P)] :
     /\ cut[0] = 0 /\ cut[Len(q)] = Len(P)
     /\ \A j, k \in 0 .. Len(q) : j <= k => cut[j] <= cut[k]
     /\ \A k \in 1 .. Len(q) : SubSeq(P, cut[k - 1] + 1, cut[k]) = Bytes(q[k])}

Framed(P, q) == Cuts(P, q) # {}

LEMMA NothingIsEmpty == Len(<<>>) = 0
  OBVIOUS

LEMMA CutNonempty ==
  ASSUME NEW s, NEW i \in Nat, NEW j \in Nat, NEW B, SubSeq(s, i + 1, j) = B, Len(B) > 0
  PROVE  i < j
<1>1. SUFFICES ASSUME j < i + 1 PROVE FALSE
  OBVIOUS
<1>2. SubSeq(s, i + 1, j) = <<>>
  BY <1>1, SubSeqEmpty, i + 1 \in Int, j \in Int
<1>3. B = <<>>
  BY <1>2, Zenon
<1>4. Len(B) = 0
  BY <1>3, NothingIsEmpty
<1> QED
  BY <1>4

\* Concatenation under a name of its own, which the provers do not expand.
Cat(s, t) == s \o t

LEMMA ConcatTyped ==
  ASSUME NEW S, NEW s \in Seq(S), NEW t \in Seq(S)
  PROVE  s \o t \in Seq(S) /\ Len(s \o t) = Len(s) + Len(t)
  BY ConcatProperties

LEMMA BytesTyped ==
  ASSUME NEW f \in FrameSet
  PROVE  /\ Bytes(f) \in Seq(Byte)
         /\ Len(Bytes(f)) = 8 + Len(f.payload)
         /\ Len(Bytes(f)) \in Nat /\ Len(Bytes(f)) > 0
         /\ HostToNet32(f.type) \in Word /\ HostToNet32(Len(f.payload)) \in Word
         /\ f.payload \in Seq(Byte) /\ Len(f.payload) \in Nat /\ f.type \in Nat
<1>1. f.type \in Nat /\ f.payload \in Seq(Byte) /\ f.type < WordLimit /\ Len(f.payload) < WordLimit
  BY DEF FrameSet
<1>2. Len(f.payload) \in Nat
  BY <1>1
<1>3. HostToNet32(f.type) \in Word /\ HostToNet32(Len(f.payload)) \in Word
  BY <1>1, <1>2, WordExact
<1>4. /\ HostToNet32(f.type) \in Seq(Byte) /\ Len(HostToNet32(f.type)) = WordSize
      /\ HostToNet32(Len(f.payload)) \in Seq(Byte) /\ Len(HostToNet32(Len(f.payload))) = WordSize
  BY <1>3 DEF Word
<1> DEFINE head == HostToNet32(f.type) \o HostToNet32(Len(f.payload))
<1>5. head \in Seq(Byte) /\ Len(head) = WordSize + WordSize
  BY <1>4, ConcatTyped
<1>6. Bytes(f) = head \o f.payload
  BY DEF Bytes
<1> HIDE DEF head
<1>7. Bytes(f) \in Seq(Byte) /\ Len(Bytes(f)) = WordSize + WordSize + Len(f.payload)
  BY <1>1, <1>5, <1>6, ConcatTyped
<1>8. WordSize + WordSize = 8
  BY DEF WordSize
<1> QED
  BY <1>1, <1>2, <1>3, <1>7, <1>8

LEMMA FramedNothing == Framed(<<>>, <<>>)
<1> DEFINE cut == [k \in 0 .. 0 |-> 0]
<1>1. cut \in Cuts(<<>>, <<>>)
  BY DEF Cuts
<1> QED
  BY <1>1 DEF Framed

LEMMA FramedEmpty ==
  ASSUME NEW P \in Seq(Byte), Framed(P, <<>>)
  PROVE  P = <<>>
<1>1. PICK cut \in Cuts(P, <<>>) : TRUE
  BY DEF Framed
<1>2. cut[0] = 0 /\ cut[Len(<<>>)] = Len(P)
  BY <1>1 DEF Cuts
<1>3. Len(P) = 0
  BY <1>2
<1> QED
  BY <1>3, EmptySeq

LEMMA FramedAppend ==
  ASSUME NEW P \in Seq(Byte), NEW q \in Seq(FrameSet), NEW f \in FrameSet, Framed(P, q)
  PROVE  Framed(Cat(P, Bytes(f)), Append(q, f))
<1>1. PICK cut \in Cuts(P, q) : TRUE
  BY DEF Framed
<1> DEFINE n == Len(q)
           B == Bytes(f)
           PB == P \o B
           qf == Append(q, f)
           new == [k \in 0 .. n + 1 |-> IF k <= n THEN cut[k] ELSE Len(PB)]
<1>2. B \in Seq(Byte) /\ Len(B) \in Nat /\ Len(B) > 0
  BY BytesTyped
<1>3. n \in Nat /\ Len(P) \in Nat
  OBVIOUS
<1>4. PB \in Seq(Byte) /\ Len(PB) = Len(P) + Len(B)
  BY <1>2, ConcatTyped
<1>5. Len(qf) = n + 1 /\ (\A k \in 1 .. n : qf[k] = q[k]) /\ qf[n + 1] = f
  BY AppendProperties
<1>6. /\ cut \in [0 .. n -> 0 .. Len(P)]
      /\ cut[0] = 0 /\ cut[n] = Len(P)
      /\ \A j, k \in 0 .. n : j <= k => cut[j] <= cut[k]
      /\ \A k \in 1 .. n : SubSeq(P, cut[k - 1] + 1, cut[k]) = Bytes(q[k])
  BY <1>1 DEF Cuts
<1> HIDE DEF n, B, PB, qf
<1>7. new \in [0 .. n + 1 -> 0 .. Len(PB)]
  BY <1>2, <1>3, <1>4, <1>6
<1>8. new[0] = 0 /\ new[n + 1] = Len(PB)
  BY <1>3, <1>6
<1>9. \A j, k \in 0 .. n + 1 : j <= k => new[j] <= new[k]
  BY <1>2, <1>3, <1>4, <1>6
<1>10. ASSUME NEW k \in 1 .. n + 1
       PROVE  SubSeq(PB, new[k - 1] + 1, new[k]) = Bytes(qf[k])
  <2>1. CASE k <= n
    <3>1. new[k - 1] = cut[k - 1] /\ new[k] = cut[k] /\ qf[k] = q[k] /\ k - 1 \in 0 .. n /\ k \in 1 .. n
      BY <2>1, <1>3, <1>5
    <3>2. SubSeq(P, cut[k - 1] + 1, cut[k]) = Bytes(q[k])
      BY <3>1, <1>6
    <3>3. q[k] \in FrameSet
      BY <3>1, ElementOfSeq DEF n
    <3>4. Len(Bytes(q[k])) > 0
      BY <3>3, BytesTyped
    <3>5. cut[k - 1] \in 0 .. Len(P) /\ cut[k] \in 0 .. Len(P)
      BY <3>1, <1>3, <1>6
    <3>6. cut[k - 1] < cut[k]
      <4>1. cut[k - 1] \in Nat /\ cut[k] \in Nat
        BY <3>5, <1>3
      <4> QED
        BY <4>1, <3>2, <3>4, CutNonempty
    <3>7. cut[k - 1] + 1 \in 1 .. Len(P) /\ cut[k] \in 1 .. Len(P)
      BY <3>5, <3>6, <1>3
    <3>8. SubSeq(PB, cut[k - 1] + 1, cut[k]) = SubSeq(P, cut[k - 1] + 1, cut[k])
      BY <3>7, <1>2, SubSeqOfConcat1 DEF PB
    <3> QED
      BY <3>1, <3>2, <3>8
  <2>2. CASE k = n + 1
    <3>1. new[k - 1] = Len(P) /\ new[k] = Len(P) + Len(B) /\ qf[k] = f
      BY <2>2, <1>3, <1>4, <1>5, <1>6
    <3>2. Len(P) + 1 \in Len(P) + 1 .. Len(P) + Len(B) /\ Len(P) + Len(B) \in Len(P) + 1 .. Len(P) + Len(B)
      BY <1>2, <1>3
    <3>3. SubSeq(PB, Len(P) + 1, Len(P) + Len(B)) = SubSeq(B, Len(P) + 1 - Len(P), Len(P) + Len(B) - Len(P))
      BY <3>2, <1>2, SubSeqOfConcat2 DEF PB
    <3>4. Len(P) + 1 - Len(P) = 1 /\ Len(P) + Len(B) - Len(P) = Len(B)
      BY <1>2, <1>3
    <3>5. SubSeq(B, 1, Len(B)) = B
      BY <1>2, SubSeqFull
    <3> QED
      BY <3>1, <3>3, <3>4, <3>5 DEF B
  <2>3. k <= n \/ k = n + 1
    BY <1>3
  <2> QED
    BY <2>1, <2>2, <2>3
<1>11. new \in Cuts(PB, qf)
  BY <1>5, <1>7, <1>8, <1>9, <1>10 DEF Cuts
<1> QED
  BY <1>11 DEF Framed, PB, qf, B, Cat

\* The bytes begin with those of the first frame, and go on with the others.
LEMMA FramedHead ==
  ASSUME NEW P \in Seq(Byte), NEW q \in Seq(FrameSet), q # <<>>, Framed(P, q)
  PROVE  \E rest \in Seq(Byte) : P = Cat(Bytes(Head(q)), rest) /\ Framed(rest, Tail(q))
<1>1. PICK cut \in Cuts(P, q) : TRUE
  BY DEF Framed
<1> DEFINE n == Len(q)
           B == Bytes(Head(q))
           L == Len(P)
           c == cut[1]
           rest == SubSeq(P, c + 1, L)
           t == Tail(q)
           new == [k \in 0 .. n - 1 |-> cut[k + 1] - c]
<1>2. n \in Nat /\ n > 0 /\ L \in Nat
  BY EmptySeq
<1>3. Head(q) = q[1] /\ Head(q) \in FrameSet /\ t \in Seq(FrameSet) /\ Len(t) = n - 1
      /\ \A k \in 1 .. n - 1 : t[k] = q[k + 1]
  BY <1>2, HeadTailProperties
<1>4. B \in Seq(Byte) /\ Len(B) \in Nat /\ Len(B) > 0
  BY <1>3, BytesTyped
<1>5. /\ cut \in [0 .. n -> 0 .. L]
      /\ cut[0] = 0 /\ cut[n] = L
      /\ \A j, k \in 0 .. n : j <= k => cut[j] <= cut[k]
      /\ \A k \in 1 .. n : SubSeq(P, cut[k - 1] + 1, cut[k]) = Bytes(q[k])
  BY <1>1 DEF Cuts
<1> HIDE DEF n, B, L, t
<1>6. c \in 0 .. L /\ SubSeq(P, 1, c) = B
  <2> HIDE DEF new, rest
  <2>1. 1 \in 0 .. n /\ 1 \in 1 .. n /\ 1 - 1 = 0
    BY <1>2
  <2>2. SubSeq(P, cut[1 - 1] + 1, cut[1]) = Bytes(q[1])
    BY <2>1, <1>5
  <2>3. cut[1 - 1] + 1 = 1
    BY <2>1, <1>5
  <2>4. c \in 0 .. L
    BY <2>1, <1>5
  <2> QED
    BY <2>2, <2>3, <2>4, <1>3 DEF B
<1>7. P = B \o rest
  <2>1. SubSeq(P, 1, c) \o SubSeq(P, c + 1, L) = SubSeq(P, 1, L)
    <3> HIDE DEF new, rest, c
    <3>1. 1 \in 1 .. L + 1 /\ c \in 1 - 1 .. L /\ L \in c .. L
      BY <1>2, <1>6
    <3> QED
      BY <3>1, ConcatAdjacentSubSeq DEF L
  <2>2. SubSeq(P, 1, L) = P
    BY SubSeqFull DEF L
  <2> QED
    BY <2>1, <2>2, <1>6
<1>8. rest \in Seq(Byte) /\ Len(rest) = L - c
  <2>1. \A i \in c + 1 .. L : P[i] \in Byte
    BY <1>2, <1>6, ElementOfSeq DEF L
  <2>2. rest \in Seq(Byte) /\ Len(rest) = IF c + 1 <= L THEN L - (c + 1) + 1 ELSE 0
    BY <2>1, <1>2, <1>6, SubSeqProperties
  <2> QED
    BY <2>2, <1>2, <1>6
<1> HIDE DEF rest
<1>9. new \in [0 .. n - 1 -> 0 .. Len(rest)]
  <2> SUFFICES ASSUME NEW k \in 0 .. n - 1 PROVE cut[k + 1] - c \in 0 .. L - c
    BY <1>8
  <2>1. k + 1 \in 0 .. n /\ 1 \in 0 .. n /\ 1 <= k + 1
    BY <1>2
  <2>2. cut[k + 1] \in 0 .. L /\ c <= cut[k + 1]
    BY <2>1, <1>5
  <2> QED
    BY <2>2, <1>2, <1>6
<1>10. new[0] = 0 /\ new[n - 1] = Len(rest)
  BY <1>2, <1>5, <1>6, <1>8
<1>11. \A j, k \in 0 .. n - 1 : j <= k => new[j] <= new[k]
  <2> SUFFICES ASSUME NEW j \in 0 .. n - 1, NEW k \in 0 .. n - 1, j <= k PROVE new[j] <= new[k]
    OBVIOUS
  <2>1. j + 1 \in 0 .. n /\ k + 1 \in 0 .. n /\ j + 1 <= k + 1
    BY <1>2
  <2>2. cut[j + 1] \in 0 .. L /\ cut[k + 1] \in 0 .. L /\ cut[j + 1] <= cut[k + 1]
    BY <2>1, <1>5
  <2>3. new[j] = cut[j + 1] - c /\ new[k] = cut[k + 1] - c
    OBVIOUS
  <2> HIDE DEF new
  <2> QED
    BY <2>2, <2>3, <1>2, <1>6
<1>12. ASSUME NEW k \in 1 .. n - 1
       PROVE  SubSeq(rest, new[k - 1] + 1, new[k]) = Bytes(t[k])
  <2>1. k \in 0 .. n /\ k + 1 \in 1 .. n /\ 1 \in 0 .. n /\ 1 <= k /\ k - 1 \in 0 .. n - 1 /\ k \in 0 .. n - 1
        /\ k + 1 - 1 = k
    BY <1>2
  <2>2. new[k - 1] = cut[k] - c /\ new[k] = cut[k + 1] - c
    BY <2>1
  <2>3. SubSeq(P, cut[k] + 1, cut[k + 1]) = Bytes(q[k + 1])
    BY <2>1, <1>5
  <2>4. cut[k] \in 0 .. L /\ cut[k + 1] \in 0 .. L /\ c <= cut[k]
    <3> HIDE DEF new
    <3>1. k + 1 \in 0 .. n
      BY <1>2
    <3> QED
      BY <2>1, <3>1, <1>5
  <2>5. Len(Bytes(q[k + 1])) > 0
    <3>1. q[k + 1] \in FrameSet
      BY <2>1, ElementOfSeq DEF n
    <3> QED
      BY <3>1, BytesTyped
  <2>6. cut[k] < cut[k + 1]
    <3>1. cut[k] \in Nat /\ cut[k + 1] \in Nat
      BY <2>4, <1>2
    <3> QED
      BY <3>1, <2>3, <2>5, CutNonempty
  <2> DEFINE x == cut[k]
             y == cut[k + 1]
             i == c + 1
             m == x - c + 1
             e == y - c
  <2>7. i \in 1 .. L /\ m \in 1 .. L - i + 1 /\ e \in 1 .. L - i + 1 /\ L \in 1 .. L
        /\ i + m - 1 = x + 1 /\ i + e - 1 = y
    <3>1. c \in Nat /\ x \in Nat /\ y \in Nat /\ L \in Nat /\ c <= x /\ x < y /\ y <= L
      <4> HIDE DEF new, c
      <4> QED
        BY <2>4, <2>6, <1>2, <1>6
    <3> HIDE DEF new, c, x, y
    <3> QED
      BY <3>1
  <2>8. SubSeq(SubSeq(P, i, L), m, e) = SubSeq(P, i + m - 1, i + e - 1)
    <3> HIDE DEF i, m, e
    <3> QED
      BY <2>7, SubSeqOfSubSeq DEF L
  <2>9. SubSeq(rest, m, e) = SubSeq(P, cut[k] + 1, cut[k + 1])
    BY <2>7, <2>8 DEF rest
  <2> QED
    BY <2>2, <2>3, <2>9, <1>3
<1>13. new \in Cuts(rest, t)
  BY <1>3, <1>9, <1>10, <1>11, <1>12 DEF Cuts
<1> QED
  BY <1>7, <1>8, <1>13 DEF Framed, B, t, Cat

\* Two ways to cut a sequence at one place are the same.
LEMMA SamePrefix ==
  ASSUME NEW S, NEW a \in Seq(S), NEW b \in Seq(S), NEW c \in Seq(S), NEW d \in Seq(S),
         a \o b = c \o d, Len(a) = Len(c)
  PROVE  a = c /\ b = d
<1>1. Len(a) \in Nat /\ Len(b) \in Nat
  OBVIOUS
<1>2. ASSUME NEW i \in 1 .. Len(a) PROVE a[i] = c[i]
  <2>1. i \in 1 .. Len(a) + Len(b) /\ i \in 1 .. Len(c) + Len(d)
    BY <1>1
  <2>2. (a \o b)[i] = a[i] /\ (c \o d)[i] = c[i]
    BY <2>1, ConcatProperties
  <2> QED
    BY <2>2
<1>3. a = c
  BY <1>2, SeqEqual
<1> QED
  BY <1>3, ConcatSimplifications

LEMMA CatTyped ==
  ASSUME NEW s \in Seq(Byte), NEW t \in Seq(Byte)
  PROVE  Cat(s, t) \in Seq(Byte) /\ Len(Cat(s, t)) = Len(s) + Len(t)
  BY ConcatTyped DEF Cat

LEMMA CatEmpty ==
  ASSUME NEW s \in Seq(Byte)
  PROVE  Cat(<<>>, s) = s /\ Cat(s, <<>>) = s
  BY ConcatEmptySeq DEF Cat

LEMMA CatAssociative ==
  ASSUME NEW s \in Seq(Byte), NEW t \in Seq(Byte), NEW u \in Seq(Byte)
  PROVE  Cat(s, Cat(t, u)) = Cat(Cat(s, t), u)
  BY ConcatAssociative DEF Cat

LEMMA CatCancel ==
  ASSUME NEW a \in Seq(Byte), NEW b \in Seq(Byte), NEW c \in Seq(Byte), NEW d \in Seq(Byte),
         Cat(a, b) = Cat(c, d), Len(a) = Len(c)
  PROVE  a = c /\ b = d
<1>1. a \o b = c \o d
  BY DEF Cat
<1> QED
  BY <1>1, SamePrefix

-----------------------------------------------------------------------------
(***************************************************************************)
(* One direction of the connection: what is still to arrive is what was    *)
(* sent, without what was received.                                        *)
(***************************************************************************)
LEMMA CutInTwo ==
  ASSUME NEW S, NEW s \in Seq(S), NEW k \in 1 .. Len(s)
  PROVE  /\ SubSeq(s, 1, k) \in Seq(S) /\ Len(SubSeq(s, 1, k)) = k
         /\ SubSeq(s, k + 1, Len(s)) \in Seq(S)
         /\ s = Cat(SubSeq(s, 1, k), SubSeq(s, k + 1, Len(s)))
<1> DEFINE L == Len(s)
<1>1. L \in Nat /\ k \in 1 .. L
  OBVIOUS
<1>2. \A i \in 1 .. L : s[i] \in S
  BY ElementOfSeq
<1> HIDE DEF L
<1>3. SubSeq(s, 1, k) \in Seq(S) /\ Len(SubSeq(s, 1, k)) = k
  <2>1. SubSeq(s, 1, k) \in Seq(S) /\ Len(SubSeq(s, 1, k)) = IF 1 <= k THEN k - 1 + 1 ELSE 0
    BY <1>1, <1>2, SubSeqProperties
  <2> QED
    BY <2>1, <1>1
<1>4. SubSeq(s, k + 1, L) \in Seq(S)
  BY <1>1, <1>2, SubSeqProperties
<1>5. SubSeq(s, 1, k) \o SubSeq(s, k + 1, L) = SubSeq(s, 1, L)
  <2>1. 1 \in 1 .. L + 1 /\ k \in 1 - 1 .. L /\ L \in k .. L
    BY <1>1
  <2> QED
    BY <2>1, ConcatAdjacentSubSeq DEF L
<1>6. SubSeq(s, 1, L) = s
  BY SubSeqFull DEF L
<1> QED
  BY <1>3, <1>4, <1>5, <1>6 DEF L, Cat

LEMMA BytesThen ==
  ASSUME NEW f \in FrameSet, NEW rest \in Seq(Byte)
  PROVE  Cat(Bytes(f), rest) =
           Cat(HostToNet32(f.type), Cat(HostToNet32(Len(f.payload)), Cat(f.payload, rest)))
<1> DEFINE a == HostToNet32(f.type)
           b == HostToNet32(Len(f.payload))
           p == f.payload
<1>1. a \in Seq(Byte) /\ b \in Seq(Byte) /\ p \in Seq(Byte)
  BY BytesTyped DEF Word
<1>2. Bytes(f) = Cat(Cat(a, b), p)
  BY DEF Bytes, Cat
<1> HIDE DEF a, b, p
<1>3. Cat(a, b) \in Seq(Byte) /\ Cat(p, rest) \in Seq(Byte)
  BY <1>1, CatTyped
<1>4. Cat(Cat(Cat(a, b), p), rest) = Cat(Cat(a, b), Cat(p, rest))
  BY <1>1, <1>3, CatAssociative
<1>5. Cat(Cat(a, b), Cat(p, rest)) = Cat(a, Cat(b, Cat(p, rest)))
  BY <1>1, <1>3, CatAssociative
<1> QED
  BY <1>2, <1>4, <1>5 DEF a, b, p

ReadStages == {"type", "size", "payload"}
Stages == ReadStages \cup {"idle", "frame", "eof"}

Receiving(r) ==
  /\ r \in [stage : Stages, need : Nat, bytes : Seq(Byte), type : Nat]
  /\ r.type < WordLimit /\ r.need < WordLimit
  /\ r.stage \in {"type", "size"} => r.need = WordSize
  /\ r.stage \in ReadStages => Len(r.bytes) < r.need

\* The bytes of one direction that make no complete frame at the receiver yet:
\* those its Receive in progress has taken, those in the connection and those
\* still to be written.
Left(o, n, r) ==
  CASE r.stage = "type" -> Cat(r.bytes, Cat(n, o))
    [] r.stage = "size" -> Cat(HostToNet32(r.type), Cat(r.bytes, Cat(n, o)))
    [] r.stage = "payload" -> Cat(HostToNet32(r.type), Cat(HostToNet32(r.need), Cat(r.bytes, Cat(n, o))))
    [] OTHER -> Cat(n, o)

After(s, m) == SubSeq(s, m + 1, Len(s))

Pending(s, g) == After(s, Len(g))

FrameOf(r) == [type |-> r.type, payload |-> r.bytes]

Wire(o, n, r, s, g) ==
  /\ o \in Seq(Byte) /\ n \in Seq(Byte) /\ Receiving(r)
  /\ s \in Seq(FrameSet) /\ g \in Seq(FrameSet)
  /\ Len(g) <= Len(s) /\ \A k \in 1 .. Len(g) : g[k] = s[k]
  /\ Framed(Left(o, n, r), Pending(s, g))
  /\ r.stage = "frame" => Len(g) > 0 /\ g[Len(g)] = FrameOf(r)

LEMMA LeftTyped ==
  ASSUME NEW o \in Seq(Byte), NEW n \in Seq(Byte), NEW r, Receiving(r)
  PROVE  /\ Left(o, n, r) \in Seq(Byte)
         /\ Len(Left(o, n, r)) >= Len(n) + Len(o)
         /\ r.stage \in ReadStages => Len(Left(o, n, r)) >= Len(n) + Len(o) + Len(r.bytes)
<1> DEFINE a == HostToNet32(r.type)
           b == HostToNet32(r.need)
           p == r.bytes
<1>1. a \in Seq(Byte) /\ Len(a) = 4 /\ b \in Seq(Byte) /\ Len(b) = 4 /\ p \in Seq(Byte)
  <2>1. r.type \in Nat /\ r.need \in Nat /\ r.type < WordLimit /\ r.need < WordLimit /\ p \in Seq(Byte)
    BY DEF Receiving
  <2>2. a \in Word /\ b \in Word
    BY <2>1, WordExact
  <2> QED
    BY <2>1, <2>2 DEF Word, WordSize
<1> DEFINE no == Cat(n, o)
           pno == Cat(p, no)
           apno == Cat(a, pno)
           bpno == Cat(b, pno)
           abpno == Cat(a, bpno)
<1>2. /\ Left(o, n, r) \in {no, pno, apno, abpno}
      /\ r.stage \in ReadStages => Left(o, n, r) \in {pno, apno, abpno}
  BY DEF Left, ReadStages
<1> HIDE DEF a, b, p
<1>3. no \in Seq(Byte) /\ Len(no) = Len(n) + Len(o)
  BY CatTyped
<1> HIDE DEF no
<1>4. pno \in Seq(Byte) /\ Len(pno) = Len(p) + Len(no)
  BY <1>1, <1>3, CatTyped
<1> HIDE DEF pno
<1>5. apno \in Seq(Byte) /\ Len(apno) = Len(a) + Len(pno)
  BY <1>1, <1>4, CatTyped
<1>6. bpno \in Seq(Byte) /\ Len(bpno) = Len(b) + Len(pno)
  BY <1>1, <1>4, CatTyped
<1> HIDE DEF apno, bpno
<1>7. abpno \in Seq(Byte) /\ Len(abpno) = Len(a) + Len(bpno)
  BY <1>1, <1>6, CatTyped
<1> HIDE DEF abpno
<1>8. Len(n) \in Nat /\ Len(o) \in Nat /\ Len(p) \in Nat
  BY <1>1
<1> DEFINE l == Len(Left(o, n, r))
<1>9. Left(o, n, r) \in Seq(Byte)
  BY <1>2, <1>3, <1>4, <1>5, <1>7
<1>10. l \in {Len(n) + Len(o), Len(p) + (Len(n) + Len(o)), 4 + (Len(p) + (Len(n) + Len(o))),
              4 + (4 + (Len(p) + (Len(n) + Len(o))))}
  BY <1>1, <1>2, <1>3, <1>4, <1>5, <1>6, <1>7
<1>11. r.stage \in ReadStages =>
         l \in {Len(p) + (Len(n) + Len(o)), 4 + (Len(p) + (Len(n) + Len(o))),
                4 + (4 + (Len(p) + (Len(n) + Len(o))))}
  BY <1>1, <1>2, <1>3, <1>4, <1>5, <1>6, <1>7
<1> HIDE DEF l
<1>12. l >= Len(n) + Len(o)
  BY <1>8, <1>10
<1>13. r.stage \in ReadStages => l >= Len(n) + Len(o) + Len(p)
  BY <1>8, <1>11
<1> QED
  BY <1>9, <1>12, <1>13 DEF l, p

LEMMA AfterTyped ==
  ASSUME NEW s \in Seq(FrameSet), NEW m \in 0 .. Len(s)
  PROVE  /\ After(s, m) \in Seq(FrameSet)
         /\ Len(After(s, m)) = Len(s) - m
         /\ \A i \in 1 .. Len(s) - m : After(s, m)[i] = s[m + i]
<1> DEFINE l == Len(s)
<1>1. l \in Nat /\ m \in Nat /\ m <= l
  BY LenProperties
<1>2. \A i \in 1 .. l : s[i] \in FrameSet
  BY ElementOfSeq
<1> HIDE DEF l
<1>3. m + 1 \in Int /\ l \in Int /\ \A i \in m + 1 .. l : s[i] \in FrameSet
  BY <1>1, <1>2
<1>4. /\ SubSeq(s, m + 1, l) \in Seq(FrameSet)
      /\ Len(SubSeq(s, m + 1, l)) = IF m + 1 <= l THEN l - (m + 1) + 1 ELSE 0
      /\ \A i \in 1 .. l - (m + 1) + 1 : SubSeq(s, m + 1, l)[i] = s[m + 1 + i - 1]
  BY <1>3, SubSeqProperties
<1>5. Len(SubSeq(s, m + 1, l)) = l - m
  BY <1>1, <1>4
<1>6. ASSUME NEW i \in 1 .. l - m PROVE SubSeq(s, m + 1, l)[i] = s[m + i]
  <2>1. i \in 1 .. l - (m + 1) + 1 /\ m + 1 + i - 1 = m + i
    BY <1>1
  <2> QED
    BY <2>1, <1>4
<1> QED
  BY <1>4, <1>5, <1>6 DEF After, l

LEMMA AfterAppend ==
  ASSUME NEW s \in Seq(FrameSet), NEW m \in 0 .. Len(s), NEW f \in FrameSet
  PROVE  After(Append(s, f), m) = Append(After(s, m), f)
<1> DEFINE sf == Append(s, f)
           p == After(s, m)
           pf == Append(p, f)
           q == After(sf, m)
           l == Len(s)
<1>1. l \in Nat /\ m \in Nat /\ m <= l
  BY LenProperties
<1>2. sf \in Seq(FrameSet) /\ Len(sf) = l + 1 /\ (\A k \in 1 .. l : sf[k] = s[k]) /\ sf[l + 1] = f
  BY AppendProperties
<1>3. p \in Seq(FrameSet) /\ Len(p) = l - m /\ \A i \in 1 .. l - m : p[i] = s[m + i]
  BY AfterTyped
<1>4. q \in Seq(FrameSet) /\ Len(q) = l + 1 - m /\ \A i \in 1 .. l + 1 - m : q[i] = sf[m + i]
  <2> HIDE DEF sf
  <2>1. m \in 0 .. Len(sf)
    BY <1>1, <1>2
  <2>2. /\ After(sf, m) \in Seq(FrameSet)
        /\ Len(After(sf, m)) = Len(sf) - m
        /\ \A i \in 1 .. Len(sf) - m : After(sf, m)[i] = sf[m + i]
    BY <1>2, <2>1, AfterTyped
  <2> QED
    BY <2>2, <1>2
<1> HIDE DEF p, q
<1>5. pf \in Seq(FrameSet) /\ Len(pf) = l - m + 1 /\ (\A k \in 1 .. l - m : pf[k] = p[k]) /\ pf[l - m + 1] = f
  BY <1>3, AppendProperties
<1> HIDE DEF sf, pf, l
<1>6. ASSUME NEW i \in 1 .. l + 1 - m PROVE q[i] = pf[i]
  <2>1. CASE i \in 1 .. l - m
    <3>1. m + i \in 1 .. l
      BY <2>1, <1>1
    <3> QED
      BY <3>1, <2>1, <1>2, <1>3, <1>4, <1>5
  <2>2. CASE i = l - m + 1
    <3>1. m + i = l + 1
      BY <2>2, <1>1
    <3> QED
      BY <3>1, <2>2, <1>2, <1>4, <1>5
  <2> QED
    BY <2>1, <2>2, <1>1
<1>7. Len(q) = Len(pf) /\ Len(q) = l + 1 - m
  BY <1>1, <1>4, <1>5
<1>8. q = pf
  BY <1>4, <1>5, <1>6, <1>7, SeqEqual
<1> QED
  BY <1>8 DEF q, pf, p, sf

LEMMA AfterTail ==
  ASSUME NEW s \in Seq(FrameSet), NEW m \in 0 .. Len(s), m < Len(s)
  PROVE  /\ After(s, m) # <<>>
         /\ Head(After(s, m)) = s[m + 1]
         /\ s[m + 1] \in FrameSet
         /\ After(s, m + 1) = Tail(After(s, m))
<1> DEFINE l == Len(s)
           p == After(s, m)
           t == Tail(p)
           q == After(s, m + 1)
<1>1. l \in Nat /\ m \in Nat /\ m < l /\ m <= l
  BY LenProperties
<1>2. s[m + 1] \in FrameSet
  BY <1>1, ElementOfSeq, m + 1 \in 1 .. l
<1>3. p \in Seq(FrameSet) /\ Len(p) = l - m /\ \A i \in 1 .. l - m : p[i] = s[m + i]
  BY AfterTyped
<1>5. q \in Seq(FrameSet) /\ Len(q) = l - (m + 1) /\ \A i \in 1 .. l - (m + 1) : q[i] = s[m + 1 + i]
  <2>1. m + 1 \in 0 .. Len(s)
    BY <1>1
  <2> QED
    BY <2>1, AfterTyped
<1> HIDE DEF p, q, l
<1>6. p # <<>>
  BY <1>1, <1>3, NothingIsEmpty
<1>7. p[1] = s[m + 1]
  BY <1>1, <1>3
<1>8. t \in Seq(FrameSet) /\ Len(t) = l - m - 1 /\ (\A i \in 1 .. l - m - 1 : t[i] = p[i + 1])
  <2>1. t \in Seq(FrameSet) /\ Len(t) = Len(p) - 1 /\ \A i \in 1 .. Len(t) : t[i] = p[i + 1]
    BY <1>3, <1>6, HeadTailProperties
  <2> QED
    BY <2>1, <1>3
<1>9. Head(p) = s[m + 1]
  BY <1>3, <1>6, <1>7
<1> HIDE DEF t
<1>10. ASSUME NEW i \in 1 .. l - (m + 1) PROVE q[i] = t[i]
  <2>1. i \in 1 .. l - m - 1 /\ i + 1 \in 1 .. l - m /\ m + (i + 1) = m + 1 + i
    BY <1>1
  <2> QED
    BY <2>1, <1>3, <1>5, <1>8
<1>11. Len(q) = Len(t) /\ Len(q) = l - (m + 1)
  BY <1>1, <1>5, <1>8
<1>12. q = t
  BY <1>5, <1>8, <1>10, <1>11, SeqEqual
<1> QED
  BY <1>2, <1>6, <1>9, <1>12 DEF q, t, p

LEMMA PendingTyped ==
  ASSUME NEW s \in Seq(FrameSet), NEW g \in Seq(FrameSet), Len(g) <= Len(s)
  PROVE  Pending(s, g) \in Seq(FrameSet) /\ Len(Pending(s, g)) = Len(s) - Len(g)
<1>1. Len(g) \in 0 .. Len(s)
  BY LenProperties
<1> QED
  BY <1>1, AfterTyped DEF Pending

LEMMA PendingAppend ==
  ASSUME NEW s \in Seq(FrameSet), NEW g \in Seq(FrameSet), Len(g) <= Len(s), NEW f \in FrameSet
  PROVE  Pending(Append(s, f), g) = Append(Pending(s, g), f)
<1>1. Len(g) \in 0 .. Len(s)
  BY LenProperties
<1> QED
  BY <1>1, AfterAppend DEF Pending

LEMMA PendingTail ==
  ASSUME NEW s \in Seq(FrameSet), NEW g \in Seq(FrameSet), Len(g) < Len(s)
  PROVE  /\ Pending(s, g) # <<>>
         /\ Head(Pending(s, g)) = s[Len(g) + 1]
         /\ s[Len(g) + 1] \in FrameSet
         /\ Pending(s, Append(g, s[Len(g) + 1])) = Tail(Pending(s, g))
<1>1. Len(g) \in 0 .. Len(s)
  BY LenProperties
<1>2. /\ After(s, Len(g)) # <<>> /\ Head(After(s, Len(g))) = s[Len(g) + 1]
      /\ s[Len(g) + 1] \in FrameSet
      /\ After(s, Len(g) + 1) = Tail(After(s, Len(g)))
  BY <1>1, AfterTail
<1>3. Len(Append(g, s[Len(g) + 1])) = Len(g) + 1
  BY <1>2, AppendProperties
<1> QED
  BY <1>2, <1>3 DEF Pending

-----------------------------------------------------------------------------
(***************************************************************************)
(* What the steps of an end do to the bytes that are on their way.         *)
(***************************************************************************)
\* A word holds the sizes of words and the types of messages.
LEMMA SmallWords == WordLimit \in Nat /\ WordLimit >= 9 /\ 5 < WordLimit /\ WordSize < WordLimit
<1>1. Radix \in Nat /\ Radix >= 3
  BY RadixBig
<1>2. Radix * Radix >= 9
  BY <1>1
<1>3. Radix * Radix * Radix >= 9
  <2> DEFINE x == Radix * Radix
  <2>1. x \in Nat /\ x >= 9
    BY <1>1, <1>2
  <2> HIDE DEF x
  <2>2. x * Radix >= 9
    BY <2>1, <1>1
  <2> QED
    BY <2>2 DEF x
<1>4. WordLimit >= 9 /\ WordLimit \in Nat
  <2> DEFINE x == Radix * Radix * Radix
  <2>1. x \in Nat /\ x >= 9
    BY <1>1, <1>3
  <2> HIDE DEF x
  <2>2. x * Radix >= 9 /\ x * Radix \in Nat
    BY <2>1, <1>1
  <2> QED
    BY <2>2 DEF x, WordLimit
<1> QED
  BY <1>4 DEF WordSize

LEMMA IdleReceives == Receiving(Idle) /\ Receiving(EndOfStream) /\ Receiving(Reading("type", WordSize, 0))
<1>1. 4 \in Nat /\ 0 < WordLimit /\ 4 < WordLimit
  BY SmallWords
<1>2. <<>> \in Seq(Byte) /\ Len(<<>>) = 0
  OBVIOUS
<1> QED
  BY <1>1, <1>2 DEF Receiving, Idle, EndOfStream, Reading, WordSize, ReadStages, Stages

LEMMA ReadingReceives ==
  ASSUME NEW stage \in ReadStages, NEW need \in Nat, NEW type \in Nat,
         0 < need, need < WordLimit, type < WordLimit, stage \in {"type", "size"} => need = WordSize
  PROVE  Receiving(Reading(stage, need, type))
<1>1. <<>> \in Seq(Byte) /\ Len(<<>>) = 0
  OBVIOUS
<1> QED
  BY <1>1 DEF Receiving, Reading, Stages

LEMMA ReceivedReceives ==
  ASSUME NEW f \in FrameSet
  PROVE  Receiving(Received(f.type, f.payload)) /\ FrameOf(Received(f.type, f.payload)) = f
<1>1. f.type \in Nat /\ f.payload \in Seq(Byte) /\ f.type < WordLimit
      /\ f = [type |-> f.type, payload |-> f.payload]
  BY DEF FrameSet
<1>2. 0 < WordLimit
  BY IdleReceives DEF Receiving, Idle
<1> QED
  BY <1>1, <1>2 DEF Receiving, Received, FrameOf, Stages, ReadStages

LEMMA WireConnection == Wire(<<>>, <<>>, Idle, <<>>, <<>>)
<1>1. <<>> \in Seq(Byte) /\ <<>> \in Seq(FrameSet) /\ Len(<<>>) = 0
  OBVIOUS
<1>2. Left(<<>>, <<>>, Idle) = <<>>
  BY <1>1, CatEmpty DEF Left, Idle
<1>3. Pending(<<>>, <<>>) = <<>>
  BY <1>1, SubSeqEmpty DEF Pending, After
<1> QED
  BY <1>1, <1>2, <1>3, IdleReceives, FramedNothing DEF Wire, Idle

\* Send appends the bytes of the frame behind all others.
LEMMA WireSend ==
  ASSUME NEW n, NEW r, NEW s, NEW g, NEW f \in FrameSet, Wire(<<>>, n, r, s, g)
  PROVE  Wire(Bytes(f), n, r, Append(s, f), g)
<1> DEFINE B == Bytes(f)
           a == HostToNet32(r.type)
           b == HostToNet32(r.need)
           p == r.bytes
           sf == Append(s, f)
<1>1. /\ n \in Seq(Byte) /\ Receiving(r) /\ s \in Seq(FrameSet) /\ g \in Seq(FrameSet)
      /\ Len(g) <= Len(s) /\ \A k \in 1 .. Len(g) : g[k] = s[k]
      /\ Framed(Left(<<>>, n, r), Pending(s, g))
      /\ r.stage = "frame" => Len(g) > 0 /\ g[Len(g)] = FrameOf(r)
  BY DEF Wire
<1>2. B \in Seq(Byte)
  BY BytesTyped
<1>3. a \in Seq(Byte) /\ b \in Seq(Byte) /\ p \in Seq(Byte)
  <2>1. r.type \in Nat /\ r.need \in Nat /\ r.type < WordLimit /\ r.need < WordLimit /\ p \in Seq(Byte)
    BY <1>1 DEF Receiving
  <2>2. a \in Word /\ b \in Word
    BY <2>1, WordExact
  <2> QED
    BY <2>1, <2>2 DEF Word
<1>4. Left(B, n, r) = Cat(Left(<<>>, n, r), B)
  <2> HIDE DEF B, a, b, p
  <2>1. Cat(n, <<>>) = n
    BY <1>1, CatEmpty
  <2>2. Cat(p, n) \in Seq(Byte) /\ Cat(b, Cat(p, n)) \in Seq(Byte)
    BY <1>1, <1>3, CatTyped
  <2>3. Cat(p, Cat(n, B)) = Cat(Cat(p, n), B)
    BY <1>1, <1>2, <1>3, CatAssociative
  <2>4. Cat(b, Cat(Cat(p, n), B)) = Cat(Cat(b, Cat(p, n)), B)
    BY <2>2, <1>2, <1>3, CatAssociative
  <2>5. Cat(a, Cat(Cat(p, n), B)) = Cat(Cat(a, Cat(p, n)), B)
    BY <2>2, <1>2, <1>3, CatAssociative
  <2>6. Cat(a, Cat(Cat(b, Cat(p, n)), B)) = Cat(Cat(a, Cat(b, Cat(p, n))), B)
    BY <2>2, <1>2, <1>3, CatAssociative
  <2>7. CASE r.stage = "type"
    BY <2>1, <2>3, <2>7 DEF Left, p
  <2>8. CASE r.stage = "size"
    BY <2>1, <2>3, <2>5, <2>8 DEF Left, a, p
  <2>9. CASE r.stage = "payload"
    BY <2>1, <2>3, <2>4, <2>6, <2>9 DEF Left, a, b, p
  <2>10. CASE r.stage \notin ReadStages
    BY <2>1, <2>10 DEF Left, ReadStages
  <2> QED
    BY <2>7, <2>8, <2>9, <2>10 DEF ReadStages
<1>5. /\ sf \in Seq(FrameSet) /\ Len(sf) = Len(s) + 1 /\ \A k \in 1 .. Len(s) : sf[k] = s[k]
  BY <1>1, AppendProperties
<1>6. Len(g) <= Len(sf) /\ \A k \in 1 .. Len(g) : g[k] = sf[k]
  <2> HIDE DEF sf
  <2>1. Len(g) \in Nat /\ Len(s) \in Nat
    BY <1>1
  <2>2. \A k \in 1 .. Len(g) : k \in 1 .. Len(s)
    BY <2>1, <1>1
  <2> QED
    BY <2>1, <2>2, <1>1, <1>5
<1>7. Framed(Left(B, n, r), Pending(sf, g))
  <2>1. Left(<<>>, n, r) \in Seq(Byte)
    BY <1>1, LeftTyped, EmptySeq
  <2>2. Pending(s, g) \in Seq(FrameSet)
    BY <1>1, PendingTyped
  <2>3. Framed(Cat(Left(<<>>, n, r), B), Append(Pending(s, g), f))
    BY <2>1, <2>2, <1>1, FramedAppend
  <2>4. Pending(sf, g) = Append(Pending(s, g), f)
    BY <1>1, PendingAppend
  <2> QED
    BY <2>3, <2>4, <1>4
<1> QED
  BY <1>1, <1>2, <1>5, <1>6, <1>7 DEF Wire

\* WriteAll moves bytes into the connection, in their order.
LEMMA WireWrite ==
  ASSUME NEW o, NEW n, NEW r, NEW s, NEW g, Wire(o, n, r, s, g), NEW k \in 1 .. Len(o)
  PROVE  Wire(SubSeq(o, k + 1, Len(o)), Cat(n, SubSeq(o, 1, k)), r, s, g)
<1> DEFINE x == SubSeq(o, 1, k)
           y == SubSeq(o, k + 1, Len(o))
<1>1. o \in Seq(Byte) /\ n \in Seq(Byte)
  BY DEF Wire
<1>2. x \in Seq(Byte) /\ y \in Seq(Byte) /\ o = Cat(x, y)
  BY <1>1, CutInTwo
<1> HIDE DEF x, y
<1>3. Cat(Cat(n, x), y) = Cat(n, o) /\ Cat(n, x) \in Seq(Byte)
  BY <1>1, <1>2, CatAssociative, CatTyped
<1>4. Left(y, Cat(n, x), r) = Left(o, n, r)
  BY <1>3 DEF Left
<1> QED
  BY <1>2, <1>3, <1>4 DEF Wire, x, y

\* Between two frames a Receive may begin, or the one that has ended be used.
LEMMA WireBetween ==
  ASSUME NEW o, NEW n, NEW r, NEW s, NEW g, Wire(o, n, r, s, g), r.stage \notin ReadStages
  PROVE  Wire(o, n, Idle, s, g) /\ Wire(o, n, Reading("type", WordSize, 0), s, g)
<1> DEFINE new == Reading("type", WordSize, 0)
<1>1. o \in Seq(Byte) /\ n \in Seq(Byte)
  BY DEF Wire
<1>2. Left(o, n, r) = Cat(n, o)
  BY DEF Left, ReadStages
<1>3. Left(o, n, Idle) = Cat(n, o)
  BY DEF Left, Idle
<1>4. Left(o, n, new) = Cat(n, o)
  <2>1. Left(o, n, new) = Cat(<<>>, Cat(n, o))
    BY DEF Left, Reading
  <2>2. Cat(n, o) \in Seq(Byte)
    BY <1>1, CatTyped
  <2> QED
    BY <2>1, <2>2, CatEmpty
<1>5. Idle.stage # "frame" /\ new.stage # "frame"
  BY DEF Idle, Reading
<1> QED
  BY <1>2, <1>3, <1>4, <1>5, IdleReceives DEF Wire

\* Bytes that begin with a word, and are those of a frame, begin with its type.
LEMMA FirstWord ==
  ASSUME NEW w \in Word, NEW tail \in Seq(Byte), NEW f \in FrameSet, NEW rest \in Seq(Byte),
         Cat(w, tail) = Cat(Bytes(f), rest)
  PROVE  /\ w = HostToNet32(f.type)
         /\ NetToHost32(w) = f.type
         /\ tail = Cat(HostToNet32(Len(f.payload)), Cat(f.payload, rest))
<1> DEFINE a == HostToNet32(f.type)
           more == Cat(HostToNet32(Len(f.payload)), Cat(f.payload, rest))
<1>1. a \in Word /\ HostToNet32(Len(f.payload)) \in Word /\ f.payload \in Seq(Byte)
  BY BytesTyped
<1>2. w \in Seq(Byte) /\ a \in Seq(Byte) /\ Len(w) = Len(a)
  BY <1>1 DEF Word
<1>3. more \in Seq(Byte)
  <2>1. Cat(f.payload, rest) \in Seq(Byte)
    BY <1>1, CatTyped
  <2>2. HostToNet32(Len(f.payload)) \in Seq(Byte)
    BY <1>1 DEF Word
  <2> QED
    BY <2>1, <2>2, CatTyped
<1>4. Cat(w, tail) = Cat(a, more)
  BY BytesThen
<1> HIDE DEF a, more
<1>5. w = a /\ tail = more
  BY <1>2, <1>3, <1>4, CatCancel
<1>6. NetToHost32(HostToNet32(f.type)) = f.type
  BY WordExact DEF FrameSet
<1> QED
  BY <1>5, <1>6 DEF a, more

\* And go on with its size.
LEMMA SecondWord ==
  ASSUME NEW w \in Word, NEW tail \in Seq(Byte), NEW f \in FrameSet, NEW rest \in Seq(Byte),
         Cat(w, tail) = Cat(HostToNet32(Len(f.payload)), Cat(f.payload, rest))
  PROVE  /\ w = HostToNet32(Len(f.payload))
         /\ NetToHost32(w) = Len(f.payload)
         /\ tail = Cat(f.payload, rest)
<1> DEFINE a == HostToNet32(Len(f.payload))
           more == Cat(f.payload, rest)
<1>1. a \in Word /\ f.payload \in Seq(Byte) /\ Len(f.payload) \in Nat
  BY BytesTyped
<1>2. w \in Seq(Byte) /\ a \in Seq(Byte) /\ Len(w) = Len(a)
  BY <1>1 DEF Word
<1>3. more \in Seq(Byte)
  BY <1>1, CatTyped
<1>4. NetToHost32(a) = Len(f.payload)
  BY <1>1, WordExact DEF FrameSet
<1>5. Cat(w, tail) = Cat(a, more)
  OBVIOUS
<1> HIDE DEF a, more
<1>6. w = a /\ tail = more
  BY <1>2, <1>3, <1>5, CatCancel
<1> QED
  BY <1>4, <1>6 DEF a, more

\* P begins with the bytes of f, and goes on with those of q.
Begins(P, f, q) == \E rest \in Seq(Byte) : P = Cat(Bytes(f), rest) /\ Framed(rest, q)

LEMMA HeadFrame ==
  ASSUME NEW o, NEW n, NEW r, NEW s, NEW g, Wire(o, n, r, s, g), Left(o, n, r) # <<>>
  PROVE  /\ Len(g) < Len(s)
         /\ s[Len(g) + 1] \in FrameSet
         /\ Begins(Left(o, n, r), s[Len(g) + 1], Pending(s, Append(g, s[Len(g) + 1])))
<1>1. /\ o \in Seq(Byte) /\ n \in Seq(Byte) /\ Receiving(r)
      /\ s \in Seq(FrameSet) /\ g \in Seq(FrameSet) /\ Len(g) <= Len(s)
      /\ Framed(Left(o, n, r), Pending(s, g))
  BY DEF Wire
<1>2. Left(o, n, r) \in Seq(Byte)
  BY <1>1, LeftTyped
<1>3. Pending(s, g) \in Seq(FrameSet) /\ Len(Pending(s, g)) = Len(s) - Len(g)
  BY <1>1, PendingTyped
<1>4. Pending(s, g) # <<>>
  BY <1>1, <1>2, FramedEmpty
<1>5. Len(g) < Len(s)
  <2>1. Len(Pending(s, g)) > 0
    BY <1>3, <1>4, EmptySeq
  <2>2. Len(s) \in Nat /\ Len(g) \in Nat
    BY <1>1
  <2> QED
    BY <2>1, <2>2, <1>3
<1>6. /\ Head(Pending(s, g)) = s[Len(g) + 1] /\ s[Len(g) + 1] \in FrameSet
      /\ Pending(s, Append(g, s[Len(g) + 1])) = Tail(Pending(s, g))
  BY <1>1, <1>5, PendingTail
<1>7. Begins(Left(o, n, r), Head(Pending(s, g)), Tail(Pending(s, g)))
  <2> DEFINE P == Left(o, n, r)
             q == Pending(s, g)
  <2>1. P \in Seq(Byte) /\ q \in Seq(FrameSet) /\ q # <<>> /\ Framed(P, q)
    BY <1>1, <1>2, <1>3, <1>4
  <2> HIDE DEF P, q
  <2>2. Begins(P, Head(q), Tail(q))
    BY <2>1, FramedHead DEF Begins
  <2> QED
    BY <2>2 DEF P, q
<1> QED
  BY <1>5, <1>6, <1>7

\* One round of the loop in ReadExact takes k bytes from n.
ReadRound(r, n, k, next, g, h) ==
  /\ r.stage \in ReadStages /\ k \in 1 .. Len(n) /\ k <= r.need - Len(r.bytes)
  /\ next = ReadExact(r, SubSeq(n, 1, k))
  /\ next.stage # "frame" => h = g
  /\ next.stage = "frame" => h = Append(g, FrameOf(next))

\* It takes bytes of the first frame that is still to come, and returns that
\* frame with its last byte.
LEMMA WireRead ==
  ASSUME NEW o, NEW n, NEW r, NEW s, NEW g, Wire(o, n, r, s, g),
         NEW k, NEW next, NEW h, ReadRound(r, n, k, next, g, h)
  PROVE  /\ Wire(o, SubSeq(n, k + 1, Len(n)), next, s, h)
         /\ next.stage \in ReadStages \cup {"frame"}
         /\ next.stage = "frame" => Len(g) < Len(s) /\ h = Append(g, s[Len(g) + 1])
<1> DEFINE x == SubSeq(n, 1, k)
           y == SubSeq(n, k + 1, Len(n))
           more == [r EXCEPT !.bytes = @ \o x]
           p == Cat(r.bytes, x)
           tail == Cat(y, o)
           a == HostToNet32(r.type)
           b == HostToNet32(r.need)
           pt == Cat(p, tail)
           bpt == Cat(b, pt)
<1>0. /\ r.stage \in ReadStages /\ k \in 1 .. Len(n) /\ k <= r.need - Len(r.bytes)
      /\ next = ReadExact(r, x)
      /\ next.stage # "frame" => h = g
      /\ next.stage = "frame" => h = Append(g, FrameOf(next))
  BY DEF ReadRound
<1> USE <1>0
<1>1. /\ o \in Seq(Byte) /\ n \in Seq(Byte) /\ Receiving(r)
      /\ s \in Seq(FrameSet) /\ g \in Seq(FrameSet)
      /\ Len(g) <= Len(s) /\ \A i \in 1 .. Len(g) : g[i] = s[i]
      /\ Framed(Left(o, n, r), Pending(s, g))
  BY DEF Wire
<1>2. x \in Seq(Byte) /\ Len(x) = k /\ y \in Seq(Byte) /\ n = Cat(x, y)
  BY <1>1, CutInTwo
<1>3. /\ r \in [stage : Stages, need : Nat, bytes : Seq(Byte), type : Nat]
      /\ r.type \in Nat /\ r.need \in Nat /\ r.bytes \in Seq(Byte) /\ Len(r.bytes) \in Nat
      /\ r.type < WordLimit /\ r.need < WordLimit
      /\ r.stage \in {"type", "size"} => r.need = WordSize
      /\ Len(r.bytes) < r.need
  BY <1>1 DEF Receiving
<1>4. /\ more.stage = r.stage /\ more.need = r.need /\ more.type = r.type /\ more.bytes = p
      /\ more \in [stage : Stages, need : Nat, bytes : {p}, type : Nat]
  BY <1>3 DEF Cat
<1>5. p \in Seq(Byte) /\ Len(p) = Len(r.bytes) + k /\ Len(p) <= r.need /\ Len(p) \in Nat
  <2> HIDE DEF x
  <2>1. p \in Seq(Byte) /\ Len(p) = Len(r.bytes) + Len(x)
    BY <1>2, <1>3, CatTyped
  <2>2. k \in Nat
    OBVIOUS
  <2> HIDE DEF p
  <2> QED
    BY <2>1, <2>2, <1>2, <1>3
<1>6. a \in Word /\ b \in Word /\ a \in Seq(Byte) /\ b \in Seq(Byte)
  <2>1. a \in Word /\ b \in Word
    BY <1>3, WordExact
  <2> QED
    BY <2>1 DEF Word
<1>7. tail \in Seq(Byte)
  BY <1>1, <1>2, CatTyped
<1>8. pt = Cat(r.bytes, Cat(n, o))
  <2> HIDE DEF x, y
  <2>1. Cat(Cat(x, y), o) = Cat(x, Cat(y, o)) /\ Cat(y, o) \in Seq(Byte)
    BY <1>1, <1>2, CatAssociative, CatTyped
  <2>2. Cat(r.bytes, Cat(x, Cat(y, o))) = Cat(Cat(r.bytes, x), Cat(y, o))
    BY <2>1, <1>2, <1>3, CatAssociative
  <2> QED
    BY <2>1, <2>2, <1>2
<1>9. next = IF Len(p) = r.need THEN Completed(more) ELSE more
  BY <1>4 DEF ReadExact
<1>10. Cat(y, o) = tail
  OBVIOUS
<1> HIDE DEF x, y, more, p, tail, a, b, pt, bpt
<1>11. /\ r.stage = "type" => Left(o, n, r) = pt
       /\ r.stage = "size" => Left(o, n, r) = Cat(a, pt)
       /\ r.stage = "payload" => Left(o, n, r) = Cat(a, bpt)
  BY <1>8 DEF Left, a, b, bpt
<1> DEFINE f == s[Len(g) + 1]
<1>12. Left(o, n, r) # <<>>
  <2>1. Len(Left(o, n, r)) >= Len(n) + Len(o)
    BY <1>1, LeftTyped
  <2>2. Len(n) \in Nat /\ Len(o) \in Nat /\ Len(n) > 0
    <3>1. n \in Seq(Byte) /\ o \in Seq(Byte)
      BY <1>1
    <3>2. Len(n) \in Nat /\ Len(o) \in Nat
      BY <3>1, LenProperties
    <3> QED
      BY <3>2
  <2>3. Len(Left(o, n, r)) # 0
    BY <2>1, <2>2
  <2> QED
    BY <2>3, NothingIsEmpty
<1>13. Len(g) < Len(s) /\ f \in FrameSet
  BY <1>12, HeadFrame
<1>14. PICK rest \in Seq(Byte) : /\ Left(o, n, r) = Cat(Bytes(f), rest)
                                 /\ Framed(rest, Pending(s, Append(g, f)))
  <2>1. Begins(Left(o, n, r), f, Pending(s, Append(g, f)))
    BY <1>12, HeadFrame
  <2> HIDE DEF f
  <2> QED
    BY <2>1, Zenon DEF Begins
<1> HIDE DEF f
<1>15. f.payload \in Seq(Byte) /\ Len(f.payload) \in Nat /\ f.type \in Nat
       /\ f.type < WordLimit /\ Len(f.payload) < WordLimit
  BY <1>13 DEF FrameSet
<1>16. pt \in Seq(Byte) /\ bpt \in Seq(Byte)
  <2>1. pt \in Seq(Byte)
    BY <1>5, <1>7, CatTyped DEF pt
  <2> QED
    BY <2>1, <1>6, CatTyped DEF bpt
<1>17. NetToHost32(a) = r.type /\ NetToHost32(b) = r.need
  BY <1>3, WordExact DEF a, b
\* The bytes stay the same, or the frame is taken from them.
<1>18. ASSUME next.stage \in ReadStages, Receiving(next), Left(o, y, next) = Left(o, n, r)
       PROVE  /\ Wire(o, y, next, s, h)
              /\ next.stage \in ReadStages \cup {"frame"}
              /\ next.stage = "frame" => Len(g) < Len(s) /\ h = Append(g, f)
  <2>1. next.stage # "frame" /\ h = g
    BY <1>18 DEF ReadStages
  <2> QED
    BY <2>1, <1>1, <1>2, <1>18 DEF Wire
<1>19. ASSUME next = Received(f.type, f.payload), tail = rest
       PROVE  /\ Wire(o, y, next, s, h)
              /\ next.stage \in ReadStages \cup {"frame"}
              /\ next.stage = "frame" => Len(g) < Len(s) /\ h = Append(g, f)
  <2>1. next.stage = "frame" /\ next.type = f.type /\ next.bytes = f.payload
    BY <1>19 DEF Received
  <2>2. FrameOf(next) = f
    <3>1. f = [type |-> f.type, payload |-> f.payload]
      BY <1>13 DEF FrameSet
    <3> QED
      BY <3>1, <2>1 DEF FrameOf
  <2>3. h = Append(g, f)
    BY <2>1, <2>2 DEF FrameOf
  <2>4. Receiving(next)
    BY <1>13, <1>19, ReceivedReceives
  <2>5. Left(o, y, next) = rest
    BY <2>1, <1>10, <1>19 DEF Left
  <2>6. /\ h \in Seq(FrameSet) /\ Len(h) = Len(g) + 1
        /\ \A i \in 1 .. Len(g) : h[i] = g[i]
        /\ h[Len(g) + 1] = f
    BY <2>3, <1>1, <1>13, AppendProperties
  <2>7. Len(h) <= Len(s) /\ Len(h) > 0 /\ \A i \in 1 .. Len(h) : h[i] = s[i]
    <3> DEFINE m == Len(g)
               l == Len(s)
    <3>1. m \in Nat /\ l \in Nat /\ m < l /\ Len(h) = m + 1
      BY <2>6, <1>1, <1>13, LenProperties
    <3>2. /\ \A i \in 1 .. m : h[i] = g[i]
          /\ \A i \in 1 .. m : g[i] = s[i]
          /\ h[m + 1] = s[m + 1]
      BY <2>6, <1>1 DEF f
    <3> HIDE DEF m, l
    <3>3. \A i \in 1 .. m + 1 : h[i] = s[i]
      <4> SUFFICES ASSUME NEW i \in 1 .. m + 1 PROVE h[i] = s[i]
        OBVIOUS
      <4>1. i \in 1 .. m \/ i = m + 1
        BY <3>1
      <4> QED
        BY <4>1, <3>2
    <3>4. m + 1 <= l /\ m + 1 > 0
      BY <3>1
    <3> QED
      BY <3>1, <3>3, <3>4 DEF l
  <2>8. Framed(Left(o, y, next), Pending(s, h))
    BY <2>3, <2>5, <1>14
  <2> QED
    BY <2>1, <2>2, <2>3, <2>4, <2>6, <2>7, <2>8, <1>1, <1>2, <1>13 DEF Wire
<1>20. CASE Len(p) # r.need
  <2>1. next = more
    BY <1>9, <1>20
  <2>2. Left(o, y, next) = Left(o, n, r)
    BY <2>1, <1>4, <1>10, <1>11 DEF Left, ReadStages, a, b, pt, bpt
  <2>3. Receiving(next)
    <3>1. more \in [stage : Stages, need : Nat, bytes : Seq(Byte), type : Nat]
      BY <1>4, <1>5
    <3>2. Len(more.bytes) < more.need
      <4> DEFINE l == Len(p)
                 m == r.need
      <4>0. l \in Nat /\ m \in Nat /\ l <= m /\ l # m
        BY <1>3, <1>5, <1>20
      <4> HIDE DEF l, m
      <4>2. l < m
        BY <4>0
      <4>1. Len(p) < r.need
        BY <4>2 DEF l, m
      <4> QED
        BY <4>1, <1>4
    <3> QED
      BY <2>1, <3>1, <3>2, <1>3, <1>4 DEF Receiving
  <2> QED
    BY <2>1, <2>2, <2>3, <1>4, <1>18 DEF f, y
<1>21. CASE Len(p) = r.need
  <2>0. next = Completed(more)
    BY <1>9, <1>21
  <2>1. CASE r.stage = "type"
    <3>1. p \in Word
      BY <2>1, <1>3, <1>5, <1>21 DEF Word
    <3>2. Cat(p, tail) = Cat(Bytes(f), rest)
      BY <2>1, <1>11, <1>14 DEF pt
    <3>3. p = HostToNet32(f.type) /\ NetToHost32(p) = f.type
      BY <3>1, <3>2, <1>7, <1>13, FirstWord
    <3>4. next = Reading("size", WordSize, f.type)
      BY <2>0, <2>1, <3>3, <1>4 DEF Completed
    <3>5. Receiving(next)
      <4>1. WordSize \in Nat /\ 0 < WordSize /\ WordSize < WordLimit
        BY IdleReceives DEF Receiving, Reading, WordSize
      <4> QED
        BY <4>1, <3>4, <1>15, ReadingReceives DEF ReadStages
    <3>6. Left(o, y, next) = pt
      <4>1. next.stage = "size" /\ next.type = f.type /\ next.bytes = <<>>
        BY <3>4 DEF Reading
      <4>2. Left(o, y, next) = Cat(p, Cat(<<>>, tail))
        BY <3>3, <4>1, <1>10 DEF Left
      <4> QED
        BY <4>2, <1>7, CatEmpty DEF pt
    <3>7. next.stage \in ReadStages /\ Left(o, n, r) = pt
      BY <2>1, <3>4, <1>11 DEF Reading, ReadStages
    <3> QED
      BY <3>5, <3>6, <3>7, <1>18 DEF f, y
  <2>2. CASE r.stage = "size"
    <3>1. p \in Word
      BY <2>2, <1>3, <1>5, <1>21 DEF Word
    <3>2. Cat(a, pt) = Cat(Bytes(f), rest)
      BY <2>2, <1>11, <1>14
    <3>3. a = HostToNet32(f.type) /\ r.type = f.type
          /\ Cat(p, tail) = Cat(HostToNet32(Len(f.payload)), Cat(f.payload, rest))
      BY <3>2, <1>6, <1>13, <1>16, <1>17, FirstWord DEF pt
    <3>4. p = HostToNet32(Len(f.payload)) /\ NetToHost32(p) = Len(f.payload)
          /\ tail = Cat(f.payload, rest)
      BY <3>1, <3>3, <1>7, <1>13, SecondWord
    <3>5. CASE Len(f.payload) = 0
      <4>1. f.payload = <<>>
        BY <3>5, <1>15, EmptySeq
      <4>2. tail = rest
        BY <4>1, <3>4, CatEmpty
      <4>3. next = Received(f.type, f.payload)
        BY <4>1, <2>0, <2>2, <3>3, <3>4, <3>5, <1>4 DEF Completed
      <4> QED
        BY <4>2, <4>3, <1>19 DEF f, y
    <3>6. CASE Len(f.payload) # 0
      <4>1. next = Reading("payload", Len(f.payload), f.type)
        BY <2>0, <2>2, <3>3, <3>4, <3>6, <1>4 DEF Completed
      <4>2. Receiving(next)
        BY <4>1, <3>6, <1>15, ReadingReceives DEF ReadStages
      <4>3. Left(o, y, next) = Cat(a, pt)
        <5>1. /\ next.stage = "payload" /\ next.type = f.type /\ next.need = Len(f.payload)
              /\ next.bytes = <<>>
          BY <4>1 DEF Reading
        <5>2. Left(o, y, next) = Cat(a, Cat(p, Cat(<<>>, tail)))
          BY <5>1, <3>3, <3>4, <1>10 DEF Left
        <5> QED
          BY <5>2, <1>7, CatEmpty DEF pt
      <4>4. next.stage \in ReadStages /\ Left(o, n, r) = Cat(a, pt)
        BY <2>2, <4>1, <1>11 DEF Reading, ReadStages
      <4> QED
        BY <4>2, <4>3, <4>4, <1>18 DEF f, y
    <3> QED
      BY <3>5, <3>6
  <2>3. CASE r.stage = "payload"
    <3>1. Cat(a, bpt) = Cat(Bytes(f), rest)
      BY <2>3, <1>11, <1>14
    <3>2. r.type = f.type
          /\ Cat(b, pt) = Cat(HostToNet32(Len(f.payload)), Cat(f.payload, rest))
      BY <3>1, <1>6, <1>13, <1>16, <1>17, FirstWord DEF bpt
    <3>3. r.need = Len(f.payload) /\ Cat(p, tail) = Cat(f.payload, rest)
      BY <3>2, <1>6, <1>13, <1>16, <1>17, SecondWord DEF pt
    <3>4. p = f.payload /\ tail = rest
      BY <3>3, <1>5, <1>7, <1>15, <1>21, CatCancel
    <3>5. next = Received(f.type, f.payload)
      BY <2>0, <2>3, <3>2, <3>4, <1>4 DEF Completed
    <3> QED
      BY <3>4, <3>5, <1>19 DEF f, y
  <2> QED
    BY <2>1, <2>2, <2>3 DEF ReadStages
<1> QED
  BY <1>20, <1>21

\* A Receive that has all the bytes there were, and will get no other, has
\* none: the end of the stream is never in the middle of a frame.
LEMMA WireEnd ==
  ASSUME NEW r, NEW s, NEW g, Wire(<<>>, <<>>, r, s, g), r.stage \in ReadStages
  PROVE  Wire(<<>>, <<>>, EndOfStream, s, g) /\ Len(s) = Len(g)
<1> DEFINE P == Left(<<>>, <<>>, r)
           a == HostToNet32(r.type)
           b == HostToNet32(r.need)
           p == r.bytes
<1>1. /\ Receiving(r) /\ s \in Seq(FrameSet) /\ g \in Seq(FrameSet)
      /\ Len(g) <= Len(s) /\ \A i \in 1 .. Len(g) : g[i] = s[i]
      /\ Framed(P, Pending(s, g))
  BY DEF Wire
<1>2. <<>> \in Seq(Byte) /\ Cat(<<>>, <<>>) = <<>>
  BY EmptySeq, CatEmpty
<1>3. /\ r.type \in Nat /\ r.need \in Nat /\ p \in Seq(Byte) /\ Len(p) \in Nat
      /\ r.type < WordLimit /\ r.need < WordLimit
      /\ r.stage \in {"type", "size"} => r.need = 4
      /\ Len(p) < r.need
  BY <1>1 DEF Receiving, WordSize
<1>4. a \in Word /\ b \in Word /\ a \in Seq(Byte) /\ b \in Seq(Byte) /\ Len(a) = 4 /\ Len(b) = 4
  <2>1. a \in Word /\ b \in Word
    BY <1>3, WordExact
  <2> QED
    BY <2>1 DEF Word, WordSize
<1>5. /\ r.stage = "type" => P = p
      /\ r.stage = "size" => P = Cat(a, p)
      /\ r.stage = "payload" => P = Cat(a, Cat(b, p))
  <2>1. Cat(p, <<>>) = p
    BY <1>3, CatEmpty
  <2> QED
    BY <2>1, <1>2 DEF Left
<1>6. P \in Seq(Byte)
  BY <1>1, <1>2, LeftTyped
<1>7. NetToHost32(a) = r.type /\ NetToHost32(b) = r.need
  BY <1>3, WordExact
<1> HIDE DEF P, a, b, p
<1>8. P = <<>>
  <2>1. SUFFICES ASSUME P # <<>> PROVE FALSE
    OBVIOUS
  <2> DEFINE f == s[Len(g) + 1]
  <2>2. f \in FrameSet
    BY <2>1, HeadFrame DEF P
  <2>3. PICK rest \in Seq(Byte) : P = Cat(Bytes(f), rest)
    BY <2>1, HeadFrame DEF P, Begins
  <2> HIDE DEF f
  <2>4. Bytes(f) \in Seq(Byte) /\ Len(Bytes(f)) = 8 + Len(f.payload) /\ Len(f.payload) \in Nat
    BY <2>2, BytesTyped
  <2>5. Len(P) = 8 + Len(f.payload) + Len(rest) /\ Len(rest) \in Nat
    <3>1. Len(Cat(Bytes(f), rest)) = Len(Bytes(f)) + Len(rest)
      BY <2>4, CatTyped
    <3>2. Len(rest) \in Nat
      BY LenProperties
    <3> QED
      BY <2>3, <2>4, <3>1, <3>2
  <2>6. CASE r.stage = "type"
    BY <2>4, <2>5, <2>6, <1>3, <1>5
  <2>7. CASE r.stage = "size"
    <3>1. Len(Cat(a, p)) = 4 + Len(p)
      BY <1>3, <1>4, CatTyped
    <3> QED
      BY <3>1, <2>4, <2>5, <2>7, <1>3, <1>5
  <2>8. CASE r.stage = "payload"
    <3>1. Cat(b, p) \in Seq(Byte) /\ Len(Cat(b, p)) = 4 + Len(p)
      BY <1>3, <1>4, CatTyped
    <3>2. Len(Cat(a, Cat(b, p))) = 4 + Len(Cat(b, p))
      <4> DEFINE bp == Cat(b, p)
      <4>1. bp \in Seq(Byte)
        BY <3>1
      <4> HIDE DEF bp
      <4>2. Len(Cat(a, bp)) = 4 + Len(bp)
        BY <4>1, <1>4, CatTyped
      <4> QED
        BY <4>2 DEF bp
    <3>3. Cat(a, Cat(b, p)) = Cat(Bytes(f), rest)
      <4>1. P = Cat(a, Cat(b, p))
        BY <2>8, <1>5
      <4> QED
        BY <2>3, <4>1, Zenon
    <3>4. Cat(b, p) = Cat(HostToNet32(Len(f.payload)), Cat(f.payload, rest))
      BY <3>1, <3>3, <1>4, <2>2, FirstWord
    <3>5. r.need = Len(f.payload)
      BY <3>4, <1>3, <1>4, <1>7, <2>2, SecondWord
    <3> QED
      BY <3>1, <3>2, <3>5, <2>4, <2>5, <2>8, <1>3, <1>5
  <2> QED
    BY <2>6, <2>7, <2>8 DEF ReadStages
<1>9. Pending(s, g) = <<>>
  <2>1. SUFFICES ASSUME Pending(s, g) # <<>> PROVE FALSE
    OBVIOUS
  <2> DEFINE q == Pending(s, g)
  <2>2. q \in Seq(FrameSet) /\ q # <<>> /\ Framed(P, q)
    BY <2>1, <1>1, PendingTyped
  <2> HIDE DEF q
  <2>3. PICK rest \in Seq(Byte) : P = Cat(Bytes(Head(q)), rest)
    BY <2>2, <1>6, FramedHead
  <2>4. Head(q) \in FrameSet
    BY <2>2, HeadTailProperties
  <2>5. Bytes(Head(q)) \in Seq(Byte) /\ Len(Bytes(Head(q))) > 0
    BY <2>4, BytesTyped
  <2>6. Bytes(Head(q)) = <<>>
    BY <2>3, <2>5, <1>8, ConcatEqualIffEmpty DEF Cat
  <2> QED
    BY <2>5, <2>6, NothingIsEmpty
<1>10. Len(s) = Len(g)
  <2>1. Len(Pending(s, g)) = Len(s) - Len(g) /\ Len(s) \in Nat /\ Len(g) \in Nat
    BY <1>1, PendingTyped
  <2>2. Len(Pending(s, g)) = 0
    BY <1>9, NothingIsEmpty
  <2> QED
    BY <2>1, <2>2
<1>11. Left(<<>>, <<>>, EndOfStream) = <<>> /\ EndOfStream.stage # "frame"
  BY <1>2 DEF Left, EndOfStream
<1> QED
  BY <1>1, <1>2, <1>9, <1>10, <1>11, FramedNothing, IdleReceives DEF Wire

\* Where no frame is to come, no byte is.
LEMMA WireDrained ==
  ASSUME NEW o, NEW n, NEW r, NEW s, NEW g, Wire(o, n, r, s, g), Len(s) = Len(g)
  PROVE  o = <<>> /\ n = <<>>
<1>1. /\ o \in Seq(Byte) /\ n \in Seq(Byte) /\ Receiving(r)
      /\ s \in Seq(FrameSet) /\ g \in Seq(FrameSet) /\ Len(g) <= Len(s)
      /\ Framed(Left(o, n, r), Pending(s, g))
  BY DEF Wire
<1>2. Left(o, n, r) = <<>>
  <2>1. SUFFICES ASSUME Left(o, n, r) # <<>> PROVE FALSE
    OBVIOUS
  <2>2. Len(g) < Len(s)
    BY <2>1, HeadFrame
  <2> QED
    BY <2>2, <1>1
<1>3. Len(n) + Len(o) <= 0 /\ Len(n) \in Nat /\ Len(o) \in Nat
  <2>1. Len(Left(o, n, r)) >= Len(n) + Len(o)
    BY <1>1, LeftTyped
  <2>2. Len(Left(o, n, r)) = 0 /\ Len(n) \in Nat /\ Len(o) \in Nat
    BY <1>1, <1>2, NothingIsEmpty
  <2> QED
    BY <2>1, <2>2
<1>4. Len(n) = 0 /\ Len(o) = 0
  BY <1>3
<1> QED
  BY <1>1, <1>4, EmptySeq

-----------------------------------------------------------------------------
(***************************************************************************)
(* Both directions: what the operations of SocketTransport do to the       *)
(* frames that an end has still to take.                                   *)
(***************************************************************************)
\* The frames that e has still to take: those in the connection, and the one
\* its last Receive has returned.
Taken(e) == IF in[e].stage = "frame" THEN Len(got[e]) - 1 ELSE Len(got[e])
Coming(e) == After(sent[Peer(e)], Taken(e))

Reads == [stage : Stages, need : Nat, bytes : Seq(Byte), type : Nat]

LinkTyped ==
  /\ out \in [Ends -> Seq(Byte)] /\ net \in [Ends -> Seq(Byte)]
  /\ in \in [Ends -> Reads]
  /\ sent \in [Ends -> Seq(FrameSet)] /\ got \in [Ends -> Seq(FrameSet)]

WireOf(e) == Wire(out[e], net[e], in[Peer(e)], sent[e], got[Peer(e)])

Link == LinkTyped /\ WireOf("server") /\ WireOf("client")

\* The queues of frames take a step of FrameQueue, or none.
QueueStep(s, g, t, h) ==
  \/ t = s /\ h = g
  \/ h = g /\ \E f \in FrameSet : t = Append(s, f)
  \/ t = s /\ Len(g) < Len(s) /\ h = Append(g, s[Len(g) + 1])

QueueSteps ==
  /\ QueueStep(sent["server"], got["client"], sent'["server"], got'["client"])
  /\ QueueStep(sent["client"], got["server"], sent'["client"], got'["server"])

LEMMA Peers ==
  /\ Peer("server") = "client" /\ Peer("client") = "server"
  /\ \A e \in Ends : Peer(e) \in Ends /\ Peer(e) # e /\ Peer(Peer(e)) = e /\ Ends = {e, Peer(e)}
<1>1. Peer("server") = "client"
  BY DEF Peer, Ends
<1>2. Peer("client") = "server"
  BY DEF Peer, Ends
<1> QED
  BY <1>1, <1>2 DEF Ends

LEMMA LinkWires ==
  ASSUME Link, NEW e \in Ends
  PROVE  /\ WireOf(e)
         /\ out[e] \in Seq(Byte) /\ net[e] \in Seq(Byte) /\ in[e] \in Reads
         /\ sent[e] \in Seq(FrameSet) /\ got[e] \in Seq(FrameSet)
<1>1. WireOf("server") /\ WireOf("client") /\ LinkTyped
  BY DEF Link
<1>2. WireOf(e)
  BY <1>1, Zenon DEF Ends
<1> QED
  BY <1>1, <1>2 DEF LinkTyped

\* A link is made of its two wires.
LEMMA LinkMade ==
  ASSUME NEW e \in Ends, LinkTyped', WireOf(e)', WireOf(Peer(e))'
  PROVE  Link'
<1>1. CASE e = "server"
  BY <1>1, Peers, Zenon DEF Link
<1>2. CASE e = "client"
  BY <1>2, Peers, Zenon DEF Link
<1> QED
  BY <1>1, <1>2 DEF Ends

\* Where neither the frames nor what was taken of them changes, the same are
\* coming.
LEMMA ComingSame ==
  ASSUME NEW e \in Ends, sent'[Peer(e)] = sent[Peer(e)], Taken(e)' = Taken(e)
  PROVE  Coming(e)' = Coming(e)
  BY DEF Coming

LEMMA TakenTyped ==
  ASSUME Link, NEW e \in Ends
  PROVE  /\ Taken(e) \in Nat /\ Taken(e) <= Len(sent[Peer(e)])
         /\ Coming(e) \in Seq(FrameSet)
         /\ Len(Coming(e)) = Len(sent[Peer(e)]) - Taken(e)
         /\ \A i \in 1 .. Len(Coming(e)) : Coming(e)[i] = sent[Peer(e)][Taken(e) + i]
<1> DEFINE s == sent[Peer(e)]
           g == got[e]
           l == Len(s)
           t == Taken(e)
<1>1. Peer(e) \in Ends /\ Peer(Peer(e)) = e
  BY Peers
<1>2. WireOf(Peer(e))
  BY <1>1, LinkWires
<1>3. s \in Seq(FrameSet) /\ g \in Seq(FrameSet) /\ Len(g) <= l /\ (in[e].stage = "frame" => Len(g) > 0)
  BY <1>1, <1>2 DEF WireOf, Wire
<1>4. t \in Nat /\ t <= l /\ l \in Nat
  <2>1. Len(g) \in Nat /\ l \in Nat
    BY <1>3, LenProperties
  <2>2. t = IF in[e].stage = "frame" THEN Len(g) - 1 ELSE Len(g)
    BY DEF Taken
  <2> HIDE DEF t, l, s
  <2> QED
    BY <2>1, <2>2, <1>3
<1>5. t \in 0 .. Len(s)
  BY <1>4
<1>6. /\ After(s, t) \in Seq(FrameSet) /\ Len(After(s, t)) = Len(s) - t
      /\ \A i \in 1 .. Len(s) - t : After(s, t)[i] = s[t + i]
  BY <1>3, <1>5, AfterTyped
<1> QED
  BY <1>4, <1>6 DEF Coming

\* The frame that Receive has returned is the first that is coming.
LEMMA ComingHead ==
  ASSUME Link, NEW e \in Ends, in[e].stage = "frame"
  PROVE  /\ Coming(e) # <<>> /\ Len(Coming(e)) > 0
         /\ Coming(e)[1] = FrameOf(in[e]) /\ Head(Coming(e)) = FrameOf(in[e])
<1> DEFINE s == sent[Peer(e)]
           g == got[e]
<1>1. Peer(e) \in Ends /\ Peer(Peer(e)) = e
  BY Peers
<1>2. WireOf(Peer(e))
  BY <1>1, LinkWires
<1>3. /\ s \in Seq(FrameSet) /\ g \in Seq(FrameSet) /\ Len(g) <= Len(s)
      /\ \A k \in 1 .. Len(g) : g[k] = s[k]
      /\ Len(g) > 0 /\ g[Len(g)] = FrameOf(in[e])
  BY <1>1, <1>2 DEF WireOf, Wire
<1>4. Taken(e) = Len(g) - 1
  BY DEF Taken
<1>5. Len(g) \in Nat /\ Len(s) \in Nat
  BY <1>3, LenProperties
<1> HIDE DEF s, g
<1>6. Len(Coming(e)) = Len(s) - Taken(e) /\ Coming(e) \in Seq(FrameSet)
      /\ \A i \in 1 .. Len(Coming(e)) : Coming(e)[i] = s[Taken(e) + i]
  BY TakenTyped DEF s
<1>7. Len(Coming(e)) > 0 /\ Len(Coming(e)) \in Nat
  BY <1>3, <1>4, <1>5, <1>6
<1>8. Coming(e)[1] = s[Len(g)]
  <2>1. 1 \in 1 .. Len(Coming(e)) /\ Taken(e) + 1 = Len(g)
    BY <1>4, <1>5, <1>7
  <2> QED
    BY <2>1, <1>6
<1>9. Coming(e)[1] = FrameOf(in[e])
  BY <1>3, <1>5, <1>8
<1>10. Coming(e) # <<>>
  BY <1>7, NothingIsEmpty
<1> QED
  BY <1>6, <1>7, <1>9, <1>10

\* Where nothing is coming, nothing is in the connection.
LEMMA ComingDrained ==
  ASSUME Link, NEW e \in Ends, Coming(e) = <<>>
  PROVE  out[Peer(e)] = <<>> /\ net[Peer(e)] = <<>>
<1>1. Peer(e) \in Ends /\ Peer(Peer(e)) = e
  BY Peers
<1>2. WireOf(Peer(e))
  BY <1>1, LinkWires
<1>3. in[e].stage # "frame"
  BY ComingHead
<1>4. Len(sent[Peer(e)]) = Len(got[e])
  <2>1. Taken(e) = Len(got[e])
    BY <1>3 DEF Taken
  <2>2. Len(Coming(e)) = Len(sent[Peer(e)]) - Taken(e) /\ Taken(e) \in Nat
    BY TakenTyped
  <2>3. Len(Coming(e)) = 0
    BY NothingIsEmpty
  <2>4. Len(sent[Peer(e)]) \in Nat
    BY <1>1, LinkWires, LenProperties
  <2> QED
    BY <2>1, <2>2, <2>3, <2>4
<1> QED
  BY <1>1, <1>2, <1>4, WireDrained DEF WireOf

LEMMA StutterStep ==
  ASSUME Link, UNCHANGED <<out, net, in, sent, got>>
  PROVE  Link' /\ QueueSteps /\ \A e \in Ends : Coming(e)' = Coming(e)
<1>1. Link'
  BY DEF Link, LinkTyped, WireOf
<1>2. QueueSteps
  BY DEF QueueSteps, QueueStep
<1>3. \A e \in Ends : Coming(e)' = Coming(e)
  BY DEF Coming, Taken
<1> QED
  BY <1>1, <1>2, <1>3

LEMMA SendStep ==
  ASSUME Link, NEW e \in Ends, NEW m, Frame(m) \in FrameSet, out[e] = <<>>, Send(e, m)
  PROVE  /\ Link' /\ QueueSteps
         /\ Coming(e)' = Coming(e)
         /\ Coming(Peer(e))' = Append(Coming(Peer(e)), Frame(m))
         /\ UNCHANGED <<net, in, open, got>> /\ out'[Peer(e)] = out[Peer(e)]
<1> DEFINE f == Peer(e)
           F == Frame(m)
<1>0. f \in Ends /\ f # e /\ Peer(f) = e /\ Ends = {e, f}
  BY Peers
<1>1. LinkTyped
  BY DEF Link
<1>2. /\ out' = [out EXCEPT ![e] = Bytes(F)] /\ sent' = [sent EXCEPT ![e] = Append(@, F)]
      /\ UNCHANGED <<net, in, open, got>>
  BY DEF Send, Bytes
<1> HIDE DEF f, F
<1>3. /\ out'[e] = Bytes(F) /\ out'[f] = out[f] /\ sent'[e] = Append(sent[e], F) /\ sent'[f] = sent[f]
  BY <1>0, <1>1, <1>2 DEF LinkTyped
<1>4. Bytes(F) \in Seq(Byte) /\ F \in FrameSet
  BY BytesTyped DEF F
<1>5. LinkTyped'
  <2>1. Append(sent[e], F) \in Seq(FrameSet)
    BY <1>1, <1>4, AppendProperties DEF LinkTyped
  <2> QED
    BY <2>1, <1>1, <1>2, <1>4 DEF LinkTyped
<1>6. WireOf(e)'
  <2>1. Wire(<<>>, net[e], in[f], sent[e], got[f])
    BY LinkWires DEF WireOf, f
  <2>2. Wire(Bytes(F), net[e], in[f], Append(sent[e], F), got[f])
    BY <2>1, <1>4, WireSend
  <2> QED
    BY <2>2, <1>2, <1>3 DEF WireOf, f
<1>7. WireOf(f)'
  <2>1. WireOf(f)
    BY <1>0, LinkWires
  <2> QED
    BY <2>1, <1>0, <1>2, <1>3 DEF WireOf
<1>8. Link'
  BY <1>5, <1>6, <1>7, LinkMade DEF f
<1>9. QueueSteps
  <2>1. \A x \in Ends : QueueStep(sent[x], got[Peer(x)], sent'[x], got'[Peer(x)])
    BY <1>0, <1>2, <1>3, <1>4 DEF QueueStep
  <2> QED
    BY <2>1, Peers DEF QueueSteps, Ends
<1>10. Taken(e)' = Taken(e) /\ Taken(f)' = Taken(f)
  BY <1>2 DEF Taken
<1>11. Coming(e)' = Coming(e)
  BY <1>3, <1>10, ComingSame DEF f
<1>12. Coming(f)' = Append(Coming(f), F)
  <2> DEFINE s == sent[e]
             t == Taken(f)
  <2>1. t \in Nat /\ t <= Len(s) /\ s \in Seq(FrameSet)
    BY <1>0, TakenTyped, LinkWires
  <2>2. Len(s) \in Nat
    BY <2>1, LenProperties
  <2> HIDE DEF s, t
  <2>3. t \in 0 .. Len(s)
    BY <2>1, <2>2
  <2>4. After(Append(s, F), t) = Append(After(s, t), F)
    BY <2>1, <2>3, <1>4, AfterAppend
  <2> QED
    BY <2>4, <1>0, <1>3, <1>10 DEF Coming, s, t
<1> QED
  BY <1>2, <1>3, <1>8, <1>9, <1>11, <1>12 DEF f, F

LEMMA NotMore ==
  ASSUME NEW a \in Int, NEW b \in Int, NEW k \in 1 .. Smaller(a, b)
  PROVE  k \in 1 .. a /\ k <= b
  BY DEF Smaller

LEMMA ReadsTyped ==
  /\ Idle \in Reads /\ EndOfStream \in Reads /\ Reading("type", WordSize, 0) \in Reads
  /\ \A r : Receiving(r) => r \in Reads
  BY IdleReceives DEF Receiving, Reads

\* Between two frames: a Receive begins, or what it returned has been used.
LEMMA BetweenStep ==
  ASSUME Link, NEW e \in Ends, in[e].stage \notin ReadStages,
         NEW r \in {Idle, Reading("type", WordSize, 0)},
         in' = [in EXCEPT ![e] = r], UNCHANGED <<out, net, sent, got>>
  PROVE  /\ Link' /\ QueueSteps
         /\ Coming(e)' = IF in[e].stage = "frame" THEN Tail(Coming(e)) ELSE Coming(e)
         /\ Coming(Peer(e))' = Coming(Peer(e))
         /\ in'[e] = r /\ in'[Peer(e)] = in[Peer(e)]
<1> DEFINE f == Peer(e)
<1>0. f \in Ends /\ f # e /\ Peer(f) = e /\ Ends = {e, f}
  BY Peers
<1>1. LinkTyped
  BY DEF Link
<1> HIDE DEF f
<1>2. in'[e] = r /\ in'[f] = in[f]
  BY <1>0, <1>1 DEF LinkTyped
<1>3. LinkTyped'
  <2>1. r \in Reads
    BY ReadsTyped
  <2>2. in' \in [Ends -> Reads]
    BY <2>1, <1>1 DEF LinkTyped
  <2> QED
    BY <2>2, <1>1 DEF LinkTyped
<1>4. WireOf(f)'
  <2>1. Wire(out[f], net[f], in[e], sent[f], got[e])
    BY <1>0, LinkWires DEF WireOf
  <2>2. Wire(out[f], net[f], r, sent[f], got[e])
    BY <2>1, WireBetween
  <2> QED
    BY <2>2, <1>0, <1>2 DEF WireOf
<1>5. WireOf(e)'
  <2>1. WireOf(e)
    BY LinkWires
  <2> QED
    BY <2>1, <1>2 DEF WireOf, f
<1>6. Link'
  BY <1>3, <1>4, <1>5, LinkMade DEF f
<1>7. QueueSteps
  BY DEF QueueSteps, QueueStep
<1>8. Coming(f)' = Coming(f)
  <2>1. Taken(f)' = Taken(f)
    BY <1>2 DEF Taken
  <2> QED
    BY <2>1, <1>0, ComingSame
<1>9. Taken(e)' = Len(got[e])
  <2>1. r.stage # "frame"
    BY DEF Idle, Reading
  <2> QED
    BY <2>1, <1>2 DEF Taken
<1>10. CASE in[e].stage = "frame"
  <2> DEFINE s == sent[f]
             m == Taken(e)
             l == Len(s)
             c == Len(got[e])
  <2>1. s \in Seq(FrameSet) /\ got[e] \in Seq(FrameSet) /\ m \in Nat /\ m <= l
        /\ Len(Coming(e)) > 0 /\ Len(Coming(e)) = l - m
    BY <1>0, <1>10, LinkWires, TakenTyped, ComingHead DEF f
  <2>2. l \in Nat /\ c \in Nat
    BY <2>1, LenProperties
  <2>3. m = c - 1
    BY <1>10 DEF Taken
  <2>4. Coming(e) = After(s, m) /\ Coming(e)' = After(s, c)
    BY <1>9 DEF Coming, f
  <2>8. l - m > 0 /\ m \in Nat /\ m <= l
    BY <2>1
  <2> HIDE DEF s, m, l, c
  <2>9. m \in 0 .. l /\ m < l /\ m + 1 = c
    <3>1. m \in Nat /\ l \in Nat /\ c \in Nat /\ l - m > 0 /\ m = c - 1
      BY <2>2, <2>3, <2>8
    <3> QED
      BY <3>1
  <2>5. m \in 0 .. Len(s) /\ m < Len(s) /\ m + 1 = c
    BY <2>9 DEF l
  <2>6. After(s, m + 1) = Tail(After(s, m))
    BY <2>1, <2>5, AfterTail
  <2>7. Coming(e)' = Tail(Coming(e))
    BY <2>4, <2>5, <2>6
  <2> QED
    BY <2>7, <1>2, <1>6, <1>7, <1>8, <1>10 DEF f
<1>11. CASE in[e].stage # "frame"
  <2>1. Taken(e)' = Taken(e)
    BY <1>9, <1>11 DEF Taken
  <2>2. Coming(e)' = Coming(e)
    BY <2>1, ComingSame
  <2> QED
    BY <2>2, <1>2, <1>6, <1>7, <1>8, <1>11 DEF f
<1> QED
  BY <1>10, <1>11

LEMMA WriteStep ==
  ASSUME Link, NEW e \in Ends, WriteAll(e)
  PROVE  /\ Link' /\ QueueSteps /\ out[e] # <<>>
         /\ \A x \in Ends : Coming(x)' = Coming(x)
         /\ UNCHANGED <<in, open, sent, got>> /\ out'[Peer(e)] = out[Peer(e)]
<1> DEFINE f == Peer(e)
<1>0. f \in Ends /\ f # e /\ Peer(f) = e /\ Ends = {e, f}
  BY Peers
<1>1. LinkTyped
  BY DEF Link
<1> HIDE DEF f
<1>2. PICK k \in 1 .. Smaller(Len(out[e]), Capacity - Len(net[e])) :
        /\ net' = [net EXCEPT ![e] = @ \o SubSeq(out[e], 1, k)]
        /\ out' = [out EXCEPT ![e] = SubSeq(@, k + 1, Len(@))]
        /\ UNCHANGED <<in, open, sent, got>>
  BY DEF WriteAll
<1> DEFINE n == Cat(net[e], SubSeq(out[e], 1, k))
           o == SubSeq(out[e], k + 1, Len(out[e]))
<1>3. out[e] \in Seq(Byte) /\ net[e] \in Seq(Byte) /\ Len(out[e]) \in Nat /\ Len(net[e]) \in Nat
  BY LinkWires, LenProperties
<1>4. k \in 1 .. Len(out[e])
  <2> HIDE DEF n, o
  <2>1. Len(out[e]) \in Int /\ Capacity - Len(net[e]) \in Int
    BY <1>3, CapacityAssumption
  <2> QED
    BY <2>1, NotMore
<1>5. out[e] # <<>>
  BY <1>3, <1>4, NothingIsEmpty
<1>6. net'[e] = n /\ out'[e] = o /\ net'[f] = net[f] /\ out'[f] = out[f]
  BY <1>0, <1>1, <1>2 DEF LinkTyped, Cat
<1>7. Wire(o, n, in[f], sent[e], got[f])
  <2>1. Wire(out[e], net[e], in[f], sent[e], got[f])
    BY LinkWires DEF WireOf, f
  <2> QED
    BY <2>1, <1>4, WireWrite
<1>8. n \in Seq(Byte) /\ o \in Seq(Byte)
  BY <1>7, Zenon DEF Wire
<1>9. net' = [net EXCEPT ![e] = n] /\ out' = [out EXCEPT ![e] = o]
  BY <1>2 DEF Cat
<1> HIDE DEF n, o
<1>10. LinkTyped'
  <2>1. net' \in [Ends -> Seq(Byte)] /\ out' \in [Ends -> Seq(Byte)]
    BY <1>1, <1>8, <1>9 DEF LinkTyped
  <2> QED
    BY <2>1, <1>1, <1>2 DEF LinkTyped
<1>11. WireOf(e)'
  BY <1>2, <1>6, <1>7 DEF WireOf, f
<1>12. WireOf(f)'
  <2>1. WireOf(f)
    BY <1>0, LinkWires
  <2> QED
    BY <2>1, <1>0, <1>2, <1>6 DEF WireOf
<1>13. Link'
  BY <1>10, <1>11, <1>12, LinkMade DEF f
<1>14. QueueSteps
  BY <1>2 DEF QueueSteps, QueueStep
<1>15. \A x \in Ends : Coming(x)' = Coming(x)
  BY <1>2 DEF Coming, Taken
<1> QED
  BY <1>2, <1>5, <1>6, <1>13, <1>14, <1>15 DEF f

LEMMA ReadStep ==
  ASSUME Link, NEW e \in Ends, ReadSome(e)
  PROVE  /\ Link' /\ QueueSteps /\ in[e].stage \in ReadStages
         /\ \A x \in Ends : Coming(x)' = Coming(x)
         /\ UNCHANGED <<out, open, sent>>
         /\ in'[Peer(e)] = in[Peer(e)] /\ in'[e].stage \in ReadStages \cup {"frame"}
<1> DEFINE f == Peer(e)
<1>0. f \in Ends /\ f # e /\ Peer(f) = e /\ Ends = {e, f}
  BY Peers
<1>1. LinkTyped
  BY DEF Link
<1> HIDE DEF f
<1>2. in[e].stage \in ReadStages /\ UNCHANGED <<out, open, sent>>
  BY DEF ReadSome, IsReading, ReadStages
<1>3. PICK k \in 1 .. Smaller(Len(net[f]), in[e].need - Len(in[e].bytes)) :
        LET next == ReadExact(in[e], SubSeq(net[f], 1, k))
        IN /\ net' = [net EXCEPT ![f] = SubSeq(@, k + 1, Len(@))]
           /\ in' = [in EXCEPT ![e] = next]
           /\ got' = IF next.stage # "frame" THEN got
                     ELSE [got EXCEPT ![e] = Append(@, [type |-> next.type, payload |-> next.bytes])]
  BY DEF ReadSome, f
<1> DEFINE next == ReadExact(in[e], SubSeq(net[f], 1, k))
           n == SubSeq(net[f], k + 1, Len(net[f]))
           h == IF next.stage # "frame" THEN got[e]
                ELSE Append(got[e], [type |-> next.type, payload |-> next.bytes])
<1>4. net' = [net EXCEPT ![f] = n] /\ in' = [in EXCEPT ![e] = next] /\ got' = [got EXCEPT ![e] = h]
  <2> HIDE DEF next
  <2>1. /\ net' = [net EXCEPT ![f] = SubSeq(@, k + 1, Len(@))]
        /\ in' = [in EXCEPT ![e] = next]
        /\ got' = IF next.stage # "frame" THEN got
                  ELSE [got EXCEPT ![e] = Append(@, [type |-> next.type, payload |-> next.bytes])]
    BY <1>3 DEF next
  <2> QED
    BY <2>1, <1>1 DEF LinkTyped
<1>5. Wire(out[f], net[f], in[e], sent[f], got[e])
  BY <1>0, LinkWires DEF WireOf
<1>6. k \in 1 .. Len(net[f]) /\ k <= in[e].need - Len(in[e].bytes)
  <2>1. Len(net[f]) \in Nat
    BY <1>0, LinkWires, LenProperties
  <2>2. in[e].need \in Nat /\ Len(in[e].bytes) \in Nat
    BY LinkWires, LenProperties DEF Reads
  <2>3. Len(net[f]) \in Int /\ in[e].need - Len(in[e].bytes) \in Int
    BY <2>1, <2>2
  <2> QED
    BY <2>3, NotMore
<1> HIDE DEF n, h, next
<1>7. /\ Wire(out[f], n, next, sent[f], h)
      /\ next.stage \in ReadStages \cup {"frame"}
      /\ next.stage = "frame" => Len(got[e]) < Len(sent[f]) /\ h = Append(got[e], sent[f][Len(got[e]) + 1])
  <2> DEFINE r == in[e]
             o == out[f]
             m == net[f]
             s == sent[f]
             g == got[e]
             x == SubSeq(m, 1, k)
             y == SubSeq(m, k + 1, Len(m))
  <2>1. next = ReadExact(r, x) /\ n = y
    BY DEF next, n
  <2>2. /\ next.stage # "frame" => h = g
        /\ next.stage = "frame" => h = Append(g, FrameOf(next))
    BY DEF h, FrameOf
  <2>3. r.stage \in ReadStages /\ Wire(o, m, r, s, g) /\ k \in 1 .. Len(m) /\ k <= r.need - Len(r.bytes)
    BY <1>2, <1>5, <1>6
  <2> HIDE DEF r, o, m, s, g
  <2>5. ReadRound(r, m, k, next, g, h)
    BY <2>1, <2>2, <2>3 DEF ReadRound
  <2> HIDE DEF x, y
  <2>4. /\ Wire(o, y, next, s, h)
        /\ next.stage \in ReadStages \cup {"frame"}
        /\ next.stage = "frame" => Len(g) < Len(s) /\ h = Append(g, s[Len(g) + 1])
    BY <2>3, <2>5, WireRead DEF y
  <2> QED
    BY <2>1, <2>4 DEF o, s, g
<1>8. next.stage # "frame" => h = got[e]
  BY DEF h
<1>9. n \in Seq(Byte) /\ next \in Reads /\ h \in Seq(FrameSet)
  <2>1. n \in Seq(Byte) /\ Receiving(next) /\ h \in Seq(FrameSet)
    BY <1>7 DEF Wire
  <2> QED
    BY <2>1, ReadsTyped
<1>10. net'[e] = net[e] /\ net'[f] = n /\ in'[e] = next /\ in'[f] = in[f] /\ got'[e] = h /\ got'[f] = got[f]
  BY <1>0, <1>1, <1>4 DEF LinkTyped
<1>11. LinkTyped'
  <2>1. net' \in [Ends -> Seq(Byte)] /\ in' \in [Ends -> Reads] /\ got' \in [Ends -> Seq(FrameSet)]
    BY <1>1, <1>4, <1>9 DEF LinkTyped
  <2> QED
    BY <2>1, <1>1, <1>2 DEF LinkTyped
<1>12. WireOf(f)'
  BY <1>0, <1>2, <1>7, <1>10 DEF WireOf
<1>13. WireOf(e)'
  <2>1. Wire(out[e], net[e], in[f], sent[e], got[f])
    BY LinkWires DEF WireOf, f
  <2> QED
    BY <2>1, <1>2, <1>10 DEF WireOf, f
<1>14. Link'
  BY <1>11, <1>12, <1>13, LinkMade DEF f
<1>15. QueueSteps
  <2>1. QueueStep(sent[f], got[e], sent'[f], got'[e])
    BY <1>2, <1>7, <1>8, <1>10 DEF QueueStep
  <2>2. QueueStep(sent[e], got[f], sent'[e], got'[f])
    BY <1>2, <1>10 DEF QueueStep
  <2>3. \A x \in Ends : QueueStep(sent[x], got[Peer(x)], sent'[x], got'[Peer(x)])
    BY <2>1, <2>2, <1>0 DEF f
  <2> QED
    BY <2>3, Peers DEF QueueSteps, Ends
<1>16. Taken(e)' = Taken(e)
  <2>1. Taken(e) = Len(got[e])
    BY <1>2 DEF Taken, ReadStages
  <2>2. CASE next.stage = "frame"
    <3>1. Len(h) = Len(got[e]) + 1 /\ Len(got[e]) \in Nat
      <4>1. got[e] \in Seq(FrameSet)
        BY LinkWires
      <4>2. sent[f][Len(got[e]) + 1] \in FrameSet
        BY <2>2, <1>7, <1>0, <4>1, LinkWires, LenProperties, ElementOfSeq
      <4> QED
        BY <2>2, <4>1, <4>2, <1>7, AppendProperties, LenProperties
    <3>2. Taken(e)' = Len(h) - 1
      BY <2>2, <1>10 DEF Taken
    <3> QED
      BY <2>1, <3>1, <3>2
  <2>3. CASE next.stage # "frame"
    BY <2>1, <2>3, <1>8, <1>10 DEF Taken
  <2> QED
    BY <2>2, <2>3
<1>17. Taken(f)' = Taken(f)
  BY <1>10 DEF Taken
<1>18. \A x \in Ends : Coming(x)' = Coming(x)
  BY <1>0, <1>2, <1>16, <1>17, ComingSame
<1> QED
  BY <1>2, <1>7, <1>10, <1>14, <1>15, <1>18 DEF f

LEMMA EndStep ==
  ASSUME Link, NEW e \in Ends, ReadEnd(e), out[Peer(e)] = <<>>
  PROVE  /\ Link' /\ QueueSteps /\ in[e].stage \in ReadStages
         /\ \A x \in Ends : Coming(x)' = Coming(x)
         /\ UNCHANGED <<out, open, sent>>
         /\ in'[Peer(e)] = in[Peer(e)] /\ in'[e] = EndOfStream
         /\ Coming(e) = <<>> /\ Peer(e) \notin open
<1> DEFINE f == Peer(e)
<1>0. f \in Ends /\ f # e /\ Peer(f) = e /\ Ends = {e, f}
  BY Peers
<1>1. LinkTyped
  BY DEF Link
<1>2. /\ in[e].stage \in ReadStages /\ net[f] = <<>> /\ f \notin open
      /\ in' = [in EXCEPT ![e] = EndOfStream] /\ UNCHANGED <<out, net, open, sent, got>>
  BY DEF ReadEnd, IsReading, ReadStages
<1>3. out[f] = <<>>
  OBVIOUS
<1> HIDE DEF f
<1>4. in'[e] = EndOfStream /\ in'[f] = in[f]
  BY <1>0, <1>1, <1>2 DEF LinkTyped
<1>5. Wire(<<>>, <<>>, EndOfStream, sent[f], got[e]) /\ Len(sent[f]) = Len(got[e])
  <2>1. Wire(out[f], net[f], in[e], sent[f], got[e])
    BY <1>0, LinkWires DEF WireOf
  <2>2. Wire(<<>>, <<>>, in[e], sent[f], got[e])
    BY <2>1, <1>2, <1>3, Zenon
  <2> QED
    BY <2>2, <1>2, WireEnd
<1>6. LinkTyped'
  <2>1. in' \in [Ends -> Reads]
    BY <1>1, <1>2, ReadsTyped DEF LinkTyped
  <2> QED
    BY <2>1, <1>1, <1>2 DEF LinkTyped
<1>7. WireOf(f)'
  BY <1>0, <1>2, <1>3, <1>4, <1>5 DEF WireOf
<1>8. WireOf(e)'
  <2>1. WireOf(e)
    BY LinkWires
  <2> QED
    BY <2>1, <1>2, <1>4 DEF WireOf, f
<1>9. Link'
  BY <1>6, <1>7, <1>8, LinkMade DEF f
<1>10. QueueSteps
  BY <1>2 DEF QueueSteps, QueueStep
<1>11. Taken(e)' = Taken(e) /\ Taken(f)' = Taken(f) /\ Taken(e) = Len(got[e])
  BY <1>2, <1>4 DEF Taken, EndOfStream, ReadStages
<1>12. \A x \in Ends : Coming(x)' = Coming(x)
  BY <1>0, <1>2, <1>11, ComingSame
<1>13. Coming(e) = <<>>
  <2>1. Coming(e) = SubSeq(sent[f], Len(got[e]) + 1, Len(got[e]))
    BY <1>5, <1>11 DEF Coming, After, f
  <2>2. Len(got[e]) \in Nat
    BY LinkWires, LenProperties
  <2>3. Len(got[e]) + 1 \in Int /\ Len(got[e]) \in Int /\ Len(got[e]) < Len(got[e]) + 1
    BY <2>2
  <2> QED
    BY <2>1, <2>3, SubSeqEmpty
<1> QED
  BY <1>2, <1>4, <1>9, <1>10, <1>12, <1>13 DEF f

(***************************************************************************)
(* Where the two threads are, and what is on its way between them.         *)
(***************************************************************************)
ServerPlaces == {"scan", "unbound", "accept", "hello", "manifest", "loop", "receive", "reply",
                 "acked", "failed", "closed"}
ClientPlaces == {"connect", "refused", "hello", "manifest", "next", "chunks", "acked", "done",
                 "failed", "aborted"}
Listening == {"loop", "receive", "reply"}

RequestFor(file, chunks) ==
  [type |-> "missing", values |-> <<FileId(file), RelativePath(file), RootHash(file), chunks>>]

AllRequests(files) == UNION {Requests(file) : file \in Range(files)}

\* The server's calls of Send and Receive, by its place.
ServerSide ==
  /\ srv \in ServerPlaces
  /\ srv # "receive" => in["server"] = Idle
  /\ out["server"] # <<>> => srv \in {"manifest", "loop", "reply"}
  /\ reply # <<>> => srv \in {"reply", "failed"}
  /\ in["server"].stage = "eof" => "client" \notin open /\ Coming("server") = <<>>

\* And the client's.
ClientSide ==
  /\ cli \in ClientPlaces
  /\ cli \notin {"hello", "manifest", "chunks"} => in["client"] = Idle
  /\ out["client"] # <<>> => cli \in {"chunks", "acked"} /\ in["client"] = Idle
  /\ in["client"].stage = "eof" => "server" \notin open /\ Coming("client") = <<>>

OpenEnds ==
  /\ "server" \in open <=> cli \notin {"connect", "refused"} /\ srv \notin {"acked", "failed", "closed"}
  /\ "client" \in open <=> cli \notin {"connect", "refused", "done", "failed", "aborted"}

Requested ==
  /\ manifest \in Manifests
  /\ plan \in Seq(AllRequests(manifest))

Quiet == Coming("client") = <<>> /\ Coming("server") = <<>> /\ reply = <<>>

\* The client is at some chunks of the file: none has to come, or the request
\* is on its way, or the answers that are on their way and those the server
\* has still to send are the last of the chunks asked for, in their order.
Answered(file) ==
  /\ awaited = 0 /\ Quiet /\ srv \in Listening /\ in["client"] = Idle

Requesting(file) ==
  /\ awaited = Len(asked) /\ awaited > 0
  /\ Coming("server") = <<Frame(RequestFor(file, asked))>>
  /\ Coming("client") = <<>> /\ reply = <<>> /\ srv \in Listening

Answering(file) ==
  /\ awaited > 0
  /\ Coming("server") = <<>>
  /\ srv \in Listening \cup {"failed"} /\ (srv = "failed" => reply # <<>>)
  /\ reply \in Seq(Messages(manifest))
  /\ Len(Coming("client")) + Len(reply) = awaited
  /\ \A i \in 1 .. Len(Coming("client")) :
       Coming("client")[i] = Frame(ChunkData(FileId(file), asked[Len(asked) - awaited + i]))
  /\ \A i \in 1 .. Len(reply) :
       reply[i] = ChunkData(FileId(file), asked[Len(asked) - Len(reply) + i])

\* The chunks that have come are those before the last ones.
Fetched ==
  /\ DOMAIN received = {Index(asked[i]) : i \in 1 .. Len(asked) - awaited}
  /\ \A i \in 1 .. Len(asked) - awaited : received[Index(asked[i])] = Hash(asked[i])

Fetching(file) ==
  /\ asked \in Subsequences(Chunks(file)) /\ awaited \in 0 .. Len(asked)
  /\ Fetched
  /\ Answered(file) \/ Requesting(file) \/ Answering(file)

Conversation ==
  /\ cli \in {"connect", "refused"} =>
       Quiet /\ srv \in {"scan", "accept", "unbound", "closed"} /\ (srv = "closed" => cli = "refused")
  /\ cli = "hello" =>
       /\ Coming("server") = <<>> /\ reply = <<>>
       /\ \/ srv \in {"accept", "hello"} /\ Coming("client") = <<>>
          \/ srv = "manifest" /\ Coming("client") = <<Frame(Hello)>>
          \/ srv \in {"loop", "receive"}
             /\ Coming("client") = <<Frame(Hello), Frame(Announcement(manifest))>>
  /\ cli = "manifest" =>
       /\ Coming("server") = <<>> /\ reply = <<>>
       /\ \/ srv = "manifest" /\ Coming("client") = <<>>
          \/ srv \in {"loop", "receive"} /\ Coming("client") = <<Frame(Announcement(manifest))>>
  /\ cli = "next" => Quiet /\ srv \in Listening
  /\ cli = "chunks" => \E file \in Range(manifest) : Fetching(file)
  /\ cli \in {"acked", "done"} =>
       /\ Coming("client") = <<>> /\ reply = <<>>
       /\ \/ srv \in Listening /\ Coming("server") = <<Frame(Ack)>>
          \/ srv = "acked" /\ Coming("server") = <<>>
  /\ cli = "failed" => srv = "failed" /\ Coming("client") = <<>> /\ Coming("server") = <<>>
  /\ cli = "aborted" => Quiet /\ srv \in Listening \cup {"closed"}

SessionInv == ServerSide /\ ClientSide /\ OpenEnds /\ Requested /\ Conversation

Inv == Link /\ SessionInv

LEMMA Files ==
  ASSUME manifest \in Manifests, NEW file \in Range(manifest)
  PROVE  /\ Chunks(file) \in Seq(Range(Chunks(file)))
         /\ \A j \in DOMAIN Chunks(file) : Index(Chunks(file)[j]) = j - 1
<1>1. PICK i \in DOMAIN manifest : file = manifest[i]
  BY DEF Range
<1> QED
  BY <1>1, ManifestsAreLists, ChunksAreNumbered

\* What can be sent, each kind with its type.
LEMMA Kinds ==
  ASSUME manifest \in Manifests
  PROVE  /\ {Hello, Ack, Error, Announcement(manifest)} \subseteq Messages(manifest)
         /\ AllRequests(manifest) \subseteq Messages(manifest)
         /\ \A file \in Range(manifest) : \A chunk \in Range(Chunks(file)) :
              ChunkData(FileId(file), chunk) \in Messages(manifest)
         /\ Hello.type = "hello" /\ Ack.type = "ack" /\ Announcement(manifest).type = "manifest"
         /\ Announcement(manifest).values[1] = manifest
<1>1. {Hello, Ack, Error, Announcement(manifest)} \subseteq Messages(manifest)
  BY DEF Messages
<1>2. ASSUME NEW file \in Range(manifest)
      PROVE  Requests(file) \cup Answers(file) \subseteq Messages(manifest)
  BY Zenon DEF Messages
<1>3. AllRequests(manifest) \subseteq Messages(manifest)
  BY <1>2 DEF AllRequests
<1>4. ASSUME NEW file \in Range(manifest), NEW chunk \in Range(Chunks(file))
      PROVE  ChunkData(FileId(file), chunk) \in Messages(manifest)
  <2>1. ChunkData(FileId(file), chunk) \in Answers(file)
    BY DEF Answers
  <2> QED
    BY <2>1, <1>2
<1>5. Hello.type = "hello" /\ Ack.type = "ack" /\ Announcement(manifest).type = "manifest"
      /\ Announcement(manifest).values[1] = manifest
  BY DEF Hello, Ack, Announcement
<1> QED
  BY <1>1, <1>3, <1>4, <1>5

LEMMA Typed ==
  ASSUME manifest \in Manifests, NEW m \in Messages(manifest)
  PROVE  m.type \in {"hello", "ack", "error", "manifest", "missing", "chunk"}
<1>1. CASE m \in {Hello, Ack, Error, Announcement(manifest)}
  <2>1. Hello.type = "hello" /\ Ack.type = "ack" /\ Error.type = "error"
        /\ Announcement(manifest).type = "manifest"
    BY DEF Hello, Ack, Error, Announcement
  <2> QED
    BY <1>1, <2>1
<1>2. ASSUME NEW file \in Range(manifest), m \in Requests(file) \cup Answers(file)
      PROVE  m.type \in {"missing", "chunk"}
  <2>1. CASE m \in Requests(file)
    BY <2>1 DEF Requests
  <2>2. CASE m \in Answers(file)
    BY <2>2 DEF Answers, ChunkData
  <2> QED
    BY <1>2, <2>1, <2>2
<1>3. m \in {Hello, Ack, Error, Announcement(manifest)}
        \/ \E file \in Range(manifest) : m \in Requests(file) \cup Answers(file)
  BY Zenon DEF Messages
<1> QED
  BY <1>1, <1>2, <1>3

LEMMA FrameTyped ==
  ASSUME manifest \in Manifests, NEW m \in Messages(manifest)
  PROVE  Frame(m) \in FrameSet
<1>1. Payload(m) \in Seq(Byte) /\ Len(Payload(m)) < WordLimit
  BY CodecAssumption
<1>2. TypeCode[m.type] \in 0 .. 5
  BY Typed DEF TypeCode
<1>3. 5 < WordLimit /\ WordLimit \in Nat
  BY SmallWords
<1>4. TypeCode[m.type] \in Nat /\ TypeCode[m.type] < WordLimit
  BY <1>2, <1>3
<1> QED
  BY <1>1, <1>4, Zenon DEF Frame, FrameSet

\* What the receiver makes of the frame of a message is the message.
LEMMA IncomingIs ==
  ASSUME manifest \in Manifests, NEW m \in Messages(manifest), NEW e \in Ends,
         in[e] \in Reads, FrameOf(in[e]) = Frame(m)
  PROVE  Incoming(e) = m
<1>1. in[e].type = TypeCode[m.type] /\ in[e].bytes = Payload(m)
  BY DEF FrameOf, Frame
<1>2. {t \in DOMAIN TypeCode : TypeCode[t] = in[e].type} = {m.type}
  BY <1>1, Typed DEF TypeCode
<1>3. Message(m.type, Payload(m)) = m
  BY CodecAssumption
<1>4. Kind(e) = CHOOSE t \in {m.type} : TRUE
  BY <1>2 DEF Kind
<1>5. Kind(e) = m.type /\ m.type # "unknown"
  BY <1>4, Typed DEF TypeCode
<1> QED
  BY <1>1, <1>3, <1>5 DEF Incoming

LEMMA Init0 ==
  ASSUME Init
  PROVE  Inv
<1>1. /\ Connection /\ manifest \in Manifests /\ srv = "scan" /\ reply = <<>>
      /\ cli = "connect" /\ plan = <<>>
  BY DEF Init
<1>2. LinkTyped
  <2>1. <<>> \in Seq(Byte) /\ <<>> \in Seq(FrameSet)
    OBVIOUS
  <2> QED
    BY <1>1, <2>1, ReadsTyped DEF Connection, LinkTyped
<1>3. WireOf("server") /\ WireOf("client")
  <2>1. \A e \in Ends : WireOf(e)
    BY <1>1, Peers, WireConnection DEF Connection, WireOf
  <2> QED
    BY <2>1 DEF Ends
<1>4. Coming("server") = <<>> /\ Coming("client") = <<>>
  <2>1. \A e \in Ends : Coming(e) = SubSeq(<<>>, 1, 0)
    <3> SUFFICES ASSUME NEW e \in Ends PROVE Coming(e) = SubSeq(<<>>, 1, 0)
      OBVIOUS
    <3>1. Len(<<>>) = 0 /\ Len(<<>>) + 1 = 1
      BY NothingIsEmpty
    <3>2. sent[Peer(e)] = <<>> /\ got[e] = <<>> /\ in[e].stage # "frame"
      BY <1>1, Peers DEF Connection, Idle
    <3> QED
      BY <3>1, <3>2 DEF Coming, After, Taken
  <2>2. SubSeq(<<>>, 1, 0) = <<>>
    BY SubSeqEmpty
  <2> QED
    BY <2>1, <2>2 DEF Ends
<1>5. in["server"] = Idle /\ in["client"] = Idle /\ out["server"] = <<>> /\ out["client"] = <<>> /\ open = {}
  BY <1>1 DEF Connection, Ends
<1>6. SessionInv
  <2>1. ServerSide
    BY <1>1, <1>5 DEF ServerSide, ServerPlaces, Idle
  <2>2. ClientSide
    BY <1>1, <1>5 DEF ClientSide, ClientPlaces, Idle
  <2>3. OpenEnds
    BY <1>1, <1>5 DEF OpenEnds
  <2>4. Requested
    BY <1>1 DEF Requested
  <2>5. Conversation
    BY <1>1, <1>4 DEF Conversation, Quiet
  <2> QED
    BY <2>1, <2>2, <2>3, <2>4, <2>5 DEF SessionInv
<1> QED
  BY <1>2, <1>3, <1>6 DEF Inv, Link

LEMMA ConversationSame ==
  ASSUME Conversation, UNCHANGED session,
         Coming("server")' = Coming("server"), Coming("client")' = Coming("client"),
         in["client"] = Idle => in'["client"] = Idle
  PROVE  Conversation'
<1>1. /\ manifest' = manifest /\ srv' = srv /\ reply' = reply /\ cli' = cli /\ asked' = asked
      /\ awaited' = awaited /\ received' = received
  BY DEF session
<1>2. Quiet => Quiet'
  BY <1>1 DEF Quiet
<1>3. ASSUME NEW file, Fetching(file) PROVE Fetching(file)'
  <2>1. Answered(file) => Answered(file)'
    BY <1>1, <1>2 DEF Answered
  <2>2. Requesting(file) => Requesting(file)'
    BY <1>1 DEF Requesting
  <2>3. Answering(file) => Answering(file)'
    BY <1>1 DEF Answering
  <2>4. Fetched => Fetched'
    BY <1>1 DEF Fetched
  <2> QED
    BY <1>1, <1>3, <2>1, <2>2, <2>3, <2>4 DEF Fetching
<1>4. (\E file \in Range(manifest) : Fetching(file)) => (\E file \in Range(manifest) : Fetching(file)')
  BY <1>3
<1> QED
  BY <1>1, <1>2, <1>4 DEF Conversation

\* A write or a read changes nothing that the two threads know.
LEMMA IOKeeps ==
  ASSUME Inv, NEW e \in Ends, IO(e), UNCHANGED session
  PROVE  Inv' /\ QueueSteps
<1> DEFINE f == Peer(e)
<1>0. f \in Ends /\ f # e /\ Ends = {e, f} /\ "server" \in Ends /\ "client" \in Ends
  BY Peers DEF Ends
<1>1. Link /\ ServerSide /\ ClientSide /\ OpenEnds /\ Requested /\ Conversation
  BY DEF Inv, SessionInv
<1>2. /\ manifest' = manifest /\ srv' = srv /\ reply' = reply /\ cli' = cli /\ asked' = asked
      /\ awaited' = awaited /\ received' = received /\ plan' = plan
  BY DEF session
<1>3. f \notin open => out[f] = <<>>
  <2>1. "server" \notin open => out["server"] = <<>>
    BY <1>1 DEF OpenEnds, ServerSide, Conversation
  <2>2. "client" \notin open => out["client"] = <<>>
    BY <1>1 DEF OpenEnds, ClientSide
  <2> QED
    BY <1>0, <2>1, <2>2 DEF Ends
<1> HIDE DEF f
<1>4. /\ Link' /\ QueueSteps /\ \A x \in Ends : Coming(x)' = Coming(x)
      /\ open' = open
      /\ \A x \in Ends : out[x] = <<>> => out'[x] = <<>>
      /\ \A x \in Ends :
           \/ in'[x] = in[x]
           \/ /\ in[x].stage \in ReadStages
              /\ in'[x].stage \in ReadStages \cup {"frame"}
           \/ in[x].stage \in ReadStages /\ Coming(x) = <<>> /\ Peer(x) \notin open
  <2>1. CASE WriteAll(e)
    <3>1. /\ Link' /\ QueueSteps /\ out[e] # <<>>
          /\ \A x \in Ends : Coming(x)' = Coming(x)
          /\ UNCHANGED <<in, open, sent, got>> /\ out'[f] = out[f]
      BY <1>1, <2>1, WriteStep DEF f
    <3>2. \A x \in {e, f} : out[x] = <<>> => out'[x] = <<>>
      BY <3>1
    <3>3. in' = in /\ open' = open
      BY <3>1
    <3> QED
      BY <3>1, <3>2, <3>3, <1>0
  <2>2. CASE ReadSome(e)
    <3>1. /\ Link' /\ QueueSteps /\ in[e].stage \in ReadStages
          /\ \A x \in Ends : Coming(x)' = Coming(x)
          /\ UNCHANGED <<out, open, sent>>
          /\ in'[f] = in[f] /\ in'[e].stage \in ReadStages \cup {"frame"}
      BY <1>1, <2>2, ReadStep DEF f
    <3>2. \A x \in {e, f} :
            in'[x] = in[x] \/ (in[x].stage \in ReadStages /\ in'[x].stage \in ReadStages \cup {"frame"})
      <4>1. in[e].stage \in ReadStages /\ in'[f] = in[f] /\ in'[e].stage \in ReadStages \cup {"frame"}
        BY <3>1
      <4> TAKE x \in {e, f}
      <4>2. CASE x = e
        BY <4>1, <4>2
      <4>3. CASE x = f
        BY <4>1, <4>3
      <4> QED
        BY <4>2, <4>3
    <3>3. out' = out /\ open' = open
      BY <3>1
    <3> QED
      BY <3>1, <3>2, <3>3, <1>0
  <2>3. CASE ReadEnd(e)
    <3>1. f \notin open
      BY <2>3 DEF ReadEnd, f
    <3>2. /\ Link' /\ QueueSteps /\ in[e].stage \in ReadStages
          /\ \A x \in Ends : Coming(x)' = Coming(x)
          /\ UNCHANGED <<out, open, sent>>
          /\ in'[f] = in[f] /\ Coming(e) = <<>> /\ Peer(e) \notin open
      BY <1>1, <1>3, <2>3, <3>1, EndStep DEF f
    <3>3. \A x \in {e, f} :
            in'[x] = in[x] \/ (in[x].stage \in ReadStages /\ Coming(x) = <<>> /\ Peer(x) \notin open)
      <4>1. in[e].stage \in ReadStages /\ in'[f] = in[f] /\ Coming(e) = <<>> /\ Peer(e) \notin open
        BY <3>2
      <4> TAKE x \in {e, f}
      <4>2. CASE x = e
        BY <4>1, <4>2
      <4>3. CASE x = f
        BY <4>1, <4>3
      <4> QED
        BY <4>2, <4>3
    <3>4. out' = out /\ open' = open
      BY <3>2
    <3> QED
      BY <3>2, <3>3, <3>4, <1>0
  <2> QED
    BY <2>1, <2>2, <2>3 DEF IO
<1>5. Idle.stage \notin ReadStages
  BY DEF Idle, ReadStages
<1>6. /\ Coming("server")' = Coming("server") /\ Coming("client")' = Coming("client")
      /\ out["server"] = <<>> => out'["server"] = <<>>
      /\ out["client"] = <<>> => out'["client"] = <<>>
      /\ in["server"] = Idle => in'["server"] = Idle
      /\ in["client"] = Idle => in'["client"] = Idle
  BY <1>0, <1>4, <1>5
<1>7. ServerSide'
  <2>1. in'["server"].stage = "eof" => "client" \notin open /\ Coming("server") = <<>>
    BY <1>0, <1>1, <1>4, Peers DEF ServerSide, ReadStages
  <2> QED
    BY <2>1, <1>1, <1>2, <1>4, <1>6 DEF ServerSide
<1>8. ClientSide'
  <2>1. in'["client"].stage = "eof" => "server" \notin open /\ Coming("client") = <<>>
    BY <1>0, <1>1, <1>4, Peers DEF ClientSide, ReadStages
  <2> QED
    BY <2>1, <1>1, <1>2, <1>4, <1>6 DEF ClientSide
<1>9. OpenEnds' /\ Requested'
  BY <1>1, <1>2, <1>4 DEF OpenEnds, Requested
<1>10. Conversation'
  BY <1>1, <1>6, ConversationSame
<1> QED
  BY <1>4, <1>7, <1>8, <1>9, <1>10 DEF Inv, SessionInv

-----------------------------------------------------------------------------
(***************************************************************************)
(* Each step of a thread keeps the invariant and is one of the queues of   *)
(* frames, or none.                                                        *)
(***************************************************************************)

\* Queues of up to two frames.
LEMMA Few ==
  ASSUME NEW F, NEW G
  PROVE  /\ Append(<<>>, F) = <<F>> /\ Append(<<F>>, G) = <<F, G>>
         /\ Tail(<<F>>) = <<>> /\ Tail(<<F, G>>) = <<G>>
         /\ <<F>>[1] = F /\ <<F, G>>[1] = F /\ Len(<<F>>) = 1
         /\ <<F>> # <<>> /\ <<F, G>> # <<>>
<1>1. Append(<<>>, F) = <<F>>
  OBVIOUS
<1>2. Append(<<F>>, G) = <<F, G>>
  <2> DEFINE S == {F, G}
             s == <<F>>
             t == <<F, G>>
  <2>1. s \in Seq(S) /\ t \in Seq(S) /\ G \in S /\ Len(s) = 1 /\ Len(t) = 2
        /\ s[1] = F /\ t[1] = F /\ t[2] = G
    OBVIOUS
  <2> HIDE DEF S, s, t
  <2>2. /\ Append(s, G) \in Seq(S) /\ Len(Append(s, G)) = 2
        /\ Append(s, G)[1] = F /\ Append(s, G)[2] = G
    <3>0. s \in Seq(S) /\ G \in S
      BY <2>1
    <3>1. Append(s, G) \in Seq(S)
      BY <3>0, AppendProperties
    <3>2. Len(Append(s, G)) = Len(s) + 1
      BY <3>0, AppendProperties
    <3>3. Append(s, G)[Len(s) + 1] = G
      BY <3>0, AppendProperties
    <3>4. \A i \in 1 .. Len(s) : Append(s, G)[i] = s[i]
      BY <3>0, AppendProperties
    <3>5. Len(s) + 1 = 2 /\ 1 \in 1 .. Len(s)
      BY <2>1
    <3> QED
      BY <2>1, <3>1, <3>2, <3>3, <3>4, <3>5
  <2>3. \A i \in 1 .. 2 : Append(s, G)[i] = t[i]
    BY <2>1, <2>2
  <2>4. Append(s, G) = t
    BY <2>1, <2>2, <2>3, SeqEqual
  <2> QED
    BY <2>4 DEF s, t
<1>3. Tail(<<F>>) = <<>>
  OBVIOUS
<1>4. Tail(<<F, G>>) = <<G>>
  OBVIOUS
<1>5. <<F>>[1] = F /\ <<F, G>>[1] = F /\ Len(<<F>>) = 1 /\ Len(<<F, G>>) = 2
  OBVIOUS
<1>6. <<F>> # <<>> /\ <<F, G>> # <<>>
  BY <1>5, NothingIsEmpty
<1> QED
  BY <1>1, <1>2, <1>3, <1>4, <1>5, <1>6

\* A step between two frames, as the two ends see it.
LEMMA ServerBetween ==
  ASSUME Link, in["server"].stage \notin ReadStages,
         NEW r \in {Idle, Reading("type", WordSize, 0)},
         in' = [in EXCEPT !["server"] = r], UNCHANGED <<out, net, sent, got>>
  PROVE  /\ Link' /\ QueueSteps
         /\ Coming("server")' =
              IF in["server"].stage = "frame" THEN Tail(Coming("server")) ELSE Coming("server")
         /\ Coming("client")' = Coming("client")
         /\ in'["server"] = r /\ in'["client"] = in["client"]
<1>1. "server" \in Ends /\ Peer("server") = "client"
  BY Peers DEF Ends
<1> QED
  BY <1>1, BetweenStep

LEMMA ClientBetween ==
  ASSUME Link, in["client"].stage \notin ReadStages,
         NEW r \in {Idle, Reading("type", WordSize, 0)},
         in' = [in EXCEPT !["client"] = r], UNCHANGED <<out, net, sent, got>>
  PROVE  /\ Link' /\ QueueSteps
         /\ Coming("client")' =
              IF in["client"].stage = "frame" THEN Tail(Coming("client")) ELSE Coming("client")
         /\ Coming("server")' = Coming("server")
         /\ in'["client"] = r /\ in'["server"] = in["server"]
<1>1. "client" \in Ends /\ Peer("client") = "server"
  BY Peers DEF Ends
<1> QED
  BY <1>1, BetweenStep

LEMMA ServerSend ==
  ASSUME Link, NEW m, Frame(m) \in FrameSet, out["server"] = <<>>, Send("server", m)
  PROVE  /\ Link' /\ QueueSteps
         /\ Coming("server")' = Coming("server")
         /\ Coming("client")' = Append(Coming("client"), Frame(m))
         /\ in' = in /\ open' = open /\ out'["client"] = out["client"]
<1>1. "server" \in Ends /\ Peer("server") = "client"
  BY Peers DEF Ends
<1> QED
  BY <1>1, SendStep

LEMMA ClientSend ==
  ASSUME Link, NEW m, Frame(m) \in FrameSet, out["client"] = <<>>, Send("client", m)
  PROVE  /\ Link' /\ QueueSteps
         /\ Coming("client")' = Coming("client")
         /\ Coming("server")' = Append(Coming("server"), Frame(m))
         /\ in' = in /\ open' = open /\ out'["server"] = out["server"]
<1>1. "client" \in Ends /\ Peer("client") = "server"
  BY Peers DEF Ends
<1> QED
  BY <1>1, SendStep

LEMMA SameComing ==
  ASSUME Link, UNCHANGED <<out, net, in, sent, got>>
  PROVE  /\ Link' /\ QueueSteps
         /\ Coming("server")' = Coming("server") /\ Coming("client")' = Coming("client")
  BY StutterStep DEF Ends

\* The stages of a Receive.
LEMMA IdleStage == /\ Idle.stage = "idle" /\ Idle.stage \notin ReadStages
                   /\ Reading("type", WordSize, 0).stage = "type"
                   /\ "frame" \notin ReadStages /\ "eof" \notin ReadStages
  BY DEF Idle, Reading, ReadStages

\* Where the client fetches a file, nothing that concerns it has changed.
LEMMA FetchingSame ==
  ASSUME NEW file, Fetching(file), srv' \in Listening, srv \in Listening,
         UNCHANGED <<manifest, reply, cli, asked, awaited, received>>,
         Coming("server")' = Coming("server"), Coming("client")' = Coming("client"),
         in'["client"] = in["client"]
  PROVE  Fetching(file)'
<1>1. /\ manifest' = manifest /\ reply' = reply /\ asked' = asked
      /\ awaited' = awaited /\ received' = received
  OBVIOUS
<1>2. Answered(file) => Answered(file)'
  BY <1>1 DEF Answered, Quiet
<1>3. Requesting(file) => Requesting(file)'
  BY <1>1 DEF Requesting
<1>4. Answering(file) => Answering(file)'
  BY <1>1 DEF Answering, Listening
<1>5. Fetched => Fetched'
  BY <1>1 DEF Fetched
<1> QED
  BY <1>1, <1>2, <1>3, <1>4, <1>5 DEF Fetching

LEMMA ServerListenKeeps ==
  ASSUME Inv, ServerListen \/ ServerListenFails
  PROVE  Inv' /\ QueueSteps
<1>1. Link /\ ServerSide /\ ClientSide /\ OpenEnds /\ Requested /\ Conversation
  BY DEF Inv, SessionInv
<1>2. /\ srv = "scan" /\ srv' \in {"accept", "unbound"}
      /\ UNCHANGED <<out, net, in, open, sent, got, manifest, cli, reply, plan, asked, awaited, received>>
  BY DEF ServerListen, ServerListenFails, ServerAt, ServerGoes, connection
<1>3. /\ Link' /\ QueueSteps
      /\ Coming("server")' = Coming("server") /\ Coming("client")' = Coming("client")
  BY <1>1, <1>2, SameComing
<1>4. cli \in {"connect", "refused"}
  BY <1>1, <1>2 DEF Conversation, ClientSide, ClientPlaces, Fetching, Answered, Requesting, Answering, Listening
<1>5. ServerSide'
  BY <1>1, <1>2, <1>3 DEF ServerSide, ServerPlaces
<1>6. ClientSide'
  BY <1>1, <1>2, <1>3 DEF ClientSide
<1>7. OpenEnds' /\ Requested'
  BY <1>1, <1>2 DEF OpenEnds, Requested
<1>8. Conversation'
  BY <1>1, <1>2, <1>3, <1>4 DEF Conversation, Quiet
<1> QED
  BY <1>3, <1>5, <1>6, <1>7, <1>8 DEF Inv, SessionInv

LEMMA ServerAcceptKeeps ==
  ASSUME Inv, ServerAccept
  PROVE  Inv' /\ QueueSteps
<1>1. Link /\ ServerSide /\ ClientSide /\ OpenEnds /\ Requested /\ Conversation
  BY DEF Inv, SessionInv
<1>2. /\ srv = "accept" /\ srv' = "hello" /\ "server" \in open
      /\ UNCHANGED <<out, net, in, open, sent, got, manifest, cli, reply, plan, asked, awaited, received>>
  BY DEF ServerAccept, ServerAt, ServerGoes, connection
<1>3. /\ Link' /\ QueueSteps
      /\ Coming("server")' = Coming("server") /\ Coming("client")' = Coming("client")
  BY <1>1, <1>2, SameComing
<1>4. cli = "hello"
  BY <1>1, <1>2 DEF Conversation, ClientSide, ClientPlaces, OpenEnds, Fetching, Answered, Requesting, Answering, Listening
<1>5. ServerSide'
  BY <1>1, <1>2, <1>3 DEF ServerSide, ServerPlaces
<1>6. ClientSide'
  BY <1>1, <1>2, <1>3 DEF ClientSide
<1>7. OpenEnds' /\ Requested'
  BY <1>1, <1>2, <1>4 DEF OpenEnds, Requested
<1>8. Conversation'
  BY <1>1, <1>2, <1>3, <1>4 DEF Conversation
<1> QED
  BY <1>3, <1>5, <1>6, <1>7, <1>8 DEF Inv, SessionInv

LEMMA ServerHelloKeeps ==
  ASSUME Inv, ServerHello \/ ServerManifest
  PROVE  Inv' /\ QueueSteps
<1>1. Link /\ ServerSide /\ ClientSide /\ OpenEnds /\ Requested /\ Conversation
  BY DEF Inv, SessionInv
<1> DEFINE m == IF srv = "hello" THEN Hello ELSE Announcement(manifest)
<1>2. /\ srv \in {"hello", "manifest"} /\ srv' = IF srv = "hello" THEN "manifest" ELSE "loop"
      /\ out["server"] = <<>> /\ in["server"] = Idle
      /\ Send("server", m)
      /\ UNCHANGED <<manifest, cli, reply, plan, asked, awaited, received>>
  BY DEF ServerHello, ServerManifest, ServerAt, Ready, ServerGoes
<1>3. Frame(m) \in FrameSet
  BY <1>1, Kinds, FrameTyped DEF Requested
<1>4. Frame(m) = IF srv = "hello" THEN Frame(Hello) ELSE Frame(Announcement(manifest))
  OBVIOUS
<1> HIDE DEF m
<1>5. /\ Link' /\ QueueSteps /\ Coming("server")' = Coming("server")
      /\ Coming("client")' = Append(Coming("client"), Frame(m))
      /\ in' = in /\ open' = open /\ out'["client"] = out["client"]
  BY <1>1, <1>2, <1>3, ServerSend
<1>6. cli \in {"hello", "manifest"} /\ (cli = "manifest" => srv = "manifest")
  BY <1>1, <1>2 DEF Conversation, ClientSide, ClientPlaces, Fetching, Answered, Requesting, Answering, Listening
<1>7. ServerSide'
  BY <1>1, <1>2, <1>5, IdleStage DEF ServerSide, ServerPlaces
<1>8. ClientSide'
  <2>1. in["client"].stage # "eof"
    BY <1>1, <1>2, <1>6 DEF ClientSide, OpenEnds
  <2> QED
    BY <1>1, <1>2, <1>5, <1>6, <2>1 DEF ClientSide
<1>9. OpenEnds' /\ Requested'
  BY <1>1, <1>2, <1>5 DEF OpenEnds, Requested
<1>10. Conversation'
  <2>1. Coming("server")' = <<>> /\ reply' = <<>>
    BY <1>1, <1>2, <1>5, <1>6 DEF Conversation
  <2>2. CASE srv = "hello"
    <3>1. cli = "hello" /\ Coming("client")' = <<Frame(Hello)>>
      <4>1. cli = "hello" /\ Coming("client") = <<>>
        BY <1>1, <1>6, <2>2 DEF Conversation
      <4>2. Append(<<>>, Frame(Hello)) = <<Frame(Hello)>>
        BY Few, Zenon
      <4> QED
        BY <1>4, <1>5, <2>2, <4>1, <4>2
    <3> QED
      BY <2>1, <2>2, <3>1, <1>2 DEF Conversation
  <2>3. CASE srv = "manifest" /\ cli = "hello"
    <3>1. Coming("client")' = <<Frame(Hello), Frame(Announcement(manifest))>>
      <4>1. Coming("client") = <<Frame(Hello)>>
        BY <1>1, <2>3 DEF Conversation
      <4>2. Append(<<Frame(Hello)>>, Frame(Announcement(manifest)))
              = <<Frame(Hello), Frame(Announcement(manifest))>>
        BY Few, Zenon
      <4> QED
        BY <1>4, <1>5, <2>3, <4>1, <4>2
    <3> QED
      BY <2>1, <2>3, <3>1, <1>2 DEF Conversation
  <2>4. CASE srv = "manifest" /\ cli = "manifest"
    <3>1. Coming("client")' = <<Frame(Announcement(manifest))>>
      <4>1. Coming("client") = <<>>
        BY <1>1, <2>4 DEF Conversation
      <4>2. Append(<<>>, Frame(Announcement(manifest))) = <<Frame(Announcement(manifest))>>
        BY Few, Zenon
      <4> QED
        BY <1>4, <1>5, <2>4, <4>1, <4>2
    <3> QED
      BY <2>1, <2>4, <3>1, <1>2 DEF Conversation
  <2> QED
    BY <2>2, <2>3, <2>4, <1>2, <1>6
<1> QED
  BY <1>5, <1>7, <1>8, <1>9, <1>10 DEF Inv, SessionInv

\* What a selection of chunks is.
LEMMA Selected ==
  ASSUME NEW S, NEW s \in Seq(S), NEW t \in Subsequences(s)
  PROVE  /\ t \in Seq(Range(s))
         /\ \E order \in [1 .. Len(t) -> 1 .. Len(s)] :
              /\ \A i, j \in 1 .. Len(t) : i < j => order[i] < order[j]
              /\ \A i \in 1 .. Len(t) : t[i] = s[order[i]]
<1>1. PICK order \in Increasing(Len(s)) : t = [i \in DOMAIN order |-> s[order[i]]]
  BY DEF Subsequences
<1>2. PICK k \in 0 .. Len(s) : order \in [1 .. k -> 1 .. Len(s)]
  BY DEF Increasing
<1>3. \A i, j \in 1 .. k : i < j => order[i] < order[j]
  BY <1>1, <1>2 DEF Increasing
<1>4. k \in Nat /\ DOMAIN s = 1 .. Len(s)
  BY <1>2, LenProperties
<1>5. t = [i \in 1 .. k |-> s[order[i]]]
  BY <1>1, <1>2
<1>6. \A i \in 1 .. k : s[order[i]] \in Range(s)
  BY <1>2, <1>4 DEF Range
<1>7. t \in [1 .. k -> Range(s)]
  BY <1>5, <1>6
<1>8. t \in Seq(Range(s)) /\ Len(t) = k
  BY <1>4, <1>7, IsASeq, LenProperties
<1> QED
  BY <1>2, <1>3, <1>5, <1>8

\* The chunks asked for are chunks of the file, each at most once.
LEMMA Chosen ==
  ASSUME manifest \in Manifests, NEW file \in Range(manifest), NEW t \in Subsequences(Chunks(file))
  PROVE  /\ t \in Seq(Range(Chunks(file))) /\ Len(t) \in Nat /\ DOMAIN t = 1 .. Len(t)
         /\ \A i \in 1 .. Len(t) : t[i] \in Range(Chunks(file))
         /\ \A i, j \in 1 .. Len(t) : i < j => Index(t[i]) # Index(t[j])
<1> DEFINE s == Chunks(file)
<1>1. s \in Seq(Range(s)) /\ \A j \in DOMAIN s : Index(s[j]) = j - 1
  BY Files
<1>2. DOMAIN s = 1 .. Len(s) /\ Len(s) \in Nat
  BY <1>1, LenProperties
<1> HIDE DEF s
<1>3. t \in Subsequences(s)
  BY DEF s
<1>4. t \in Seq(Range(s))
  BY <1>1, <1>3, Selected
<1>5. PICK order \in [1 .. Len(t) -> 1 .. Len(s)] :
        /\ \A i, j \in 1 .. Len(t) : i < j => order[i] < order[j]
        /\ \A i \in 1 .. Len(t) : t[i] = s[order[i]]
  BY <1>1, <1>3, Selected
<1>6. Len(t) \in Nat /\ DOMAIN t = 1 .. Len(t)
  BY <1>4, LenProperties
<1>7. \A i \in 1 .. Len(t) : t[i] \in Range(s)
  BY <1>4, <1>6, ElementOfSeq
<1>8. ASSUME NEW i \in 1 .. Len(t), NEW j \in 1 .. Len(t), i < j
      PROVE  Index(t[i]) # Index(t[j])
  <2>1. order[i] \in 1 .. Len(s) /\ order[j] \in 1 .. Len(s) /\ order[i] < order[j]
    BY <1>5, <1>8
  <2>2. Index(t[i]) = order[i] - 1 /\ Index(t[j]) = order[j] - 1
    BY <1>1, <1>2, <1>5, <2>1
  <2> QED
    BY <2>1, <2>2, <1>2
<1> QED
  BY <1>4, <1>6, <1>7, <1>8 DEF s

\* A request is one of its file, for some of its chunks.
LEMMA RequestIs ==
  ASSUME NEW files, NEW m \in AllRequests(files)
  PROVE  \E file \in Range(files) : \E chunks \in Subsequences(Chunks(file)) :
           m = RequestFor(file, chunks)
  BY DEF AllRequests, Requests, RequestFor

LEMMA RequestTyped ==
  ASSUME NEW files, NEW file \in Range(files), NEW chunks \in Subsequences(Chunks(file))
  PROVE  RequestFor(file, chunks) \in AllRequests(files)
  BY DEF AllRequests, Requests, RequestFor

LEMMA ServerReceiveKeeps ==
  ASSUME Inv, ServerReceive
  PROVE  Inv' /\ QueueSteps
<1>1. Link /\ ServerSide /\ ClientSide /\ OpenEnds /\ Requested /\ Conversation
  BY DEF Inv, SessionInv
<1> DEFINE r == Reading("type", WordSize, 0)
<1>2. /\ srv = "loop" /\ srv' = "receive" /\ in["server"] = Idle
      /\ in' = [in EXCEPT !["server"] = r]
      /\ UNCHANGED <<out, net, open, sent, got, manifest, cli, reply, plan, asked, awaited, received>>
  BY DEF ServerReceive, ServerAt, Ready, ServerGoes, Receive
<1>3. in["server"].stage = "idle" /\ in["server"].stage \notin ReadStages /\ r.stage = "type"
  BY <1>2, IdleStage
<1> HIDE DEF r
<1>4. /\ Link' /\ QueueSteps
      /\ Coming("server")' = Coming("server") /\ Coming("client")' = Coming("client")
      /\ in'["server"] = r /\ in'["client"] = in["client"]
  <2>1. in["server"].stage # "frame" /\ r \in {Idle, Reading("type", WordSize, 0)}
    BY <1>3 DEF r
  <2> QED
    BY <1>1, <1>2, <1>3, <2>1, ServerBetween
<1>5. ServerSide'
  <2>1. out["server"] = <<>>
    BY DEF ServerReceive, ServerAt, Ready
  <2>2. reply = <<>>
    BY <1>1, <1>2 DEF ServerSide
  <2> QED
    BY <2>1, <2>2, <1>1, <1>2, <1>3, <1>4 DEF ServerSide, ServerPlaces
<1>6. ClientSide'
  BY <1>1, <1>2, <1>4 DEF ClientSide
<1>7. OpenEnds' /\ Requested'
  BY <1>1, <1>2 DEF OpenEnds, Requested
<1>8. Conversation'
  <2>1. ASSUME NEW file, Fetching(file) PROVE Fetching(file)'
    BY <2>1, <1>2, <1>4, FetchingSame DEF Listening
  <2>2. cli = "chunks" => \E file \in Range(manifest)' : Fetching(file)'
    BY <2>1, <1>1, <1>2 DEF Conversation
  <2> QED
    BY <2>2, <1>1, <1>2, <1>4 DEF Conversation, Quiet, Listening
<1> QED
  BY <1>4, <1>5, <1>6, <1>7, <1>8 DEF Inv, SessionInv

\* With every answer sent, the server listens again.
LEMMA ServerRepliedKeeps ==
  ASSUME Inv, ServerReplied
  PROVE  Inv' /\ QueueSteps
<1>1. Link /\ ServerSide /\ ClientSide /\ OpenEnds /\ Requested /\ Conversation
  BY DEF Inv, SessionInv
<1>2. /\ srv = "reply" /\ srv' = "loop" /\ reply = <<>>
      /\ UNCHANGED <<out, net, in, open, sent, got, manifest, cli, reply, plan, asked, awaited, received>>
  BY DEF ServerReplied, ServerAt, ServerGoes, connection
<1>3. /\ Link' /\ QueueSteps
      /\ Coming("server")' = Coming("server") /\ Coming("client")' = Coming("client")
  BY <1>1, <1>2, SameComing
<1>4. ServerSide'
  BY <1>1, <1>2, <1>3 DEF ServerSide, ServerPlaces
<1>5. ClientSide'
  BY <1>1, <1>2, <1>3 DEF ClientSide
<1>6. OpenEnds' /\ Requested'
  BY <1>1, <1>2 DEF OpenEnds, Requested
<1>7. Conversation'
  <2>1. ASSUME NEW file, Fetching(file) PROVE Fetching(file)'
    BY <2>1, <1>2, <1>3, FetchingSame DEF Listening
  <2>2. cli = "chunks" => \E file \in Range(manifest)' : Fetching(file)'
    BY <2>1, <1>1, <1>2 DEF Conversation
  <2> QED
    BY <2>2, <1>1, <1>2, <1>3 DEF Conversation, Quiet, Listening
<1> QED
  BY <1>3, <1>4, <1>5, <1>6, <1>7 DEF Inv, SessionInv

LEMMA Replying ==
  ASSUME SessionInv, srv = "reply", reply # <<>>
  PROVE  cli = "chunks" /\ \E file \in Range(manifest) : Fetching(file) /\ Answering(file)
<1>1. ClientSide /\ Conversation
  BY DEF SessionInv
<1>2. cli = "chunks"
  BY <1>1 DEF Conversation, Quiet, ClientSide, ClientPlaces
<1>3. PICK file \in Range(manifest) : Fetching(file)
  BY <1>1, <1>2 DEF Conversation
<1>4. Answering(file)
  BY <1>3 DEF Fetching, Answered, Requesting, Quiet
<1> QED
  BY <1>2, <1>3, <1>4

LEMMA ServerReplyFailsKeeps ==
  ASSUME Inv, ServerReplyFails
  PROVE  Inv' /\ QueueSteps
<1>1. Link /\ ServerSide /\ ClientSide /\ OpenEnds /\ Requested /\ Conversation
  BY DEF Inv, SessionInv
<1>2. /\ srv = "reply" /\ srv' = "failed" /\ in["server"] = Idle /\ out["server"] = <<>>
      /\ reply # <<>>
      /\ in' = [in EXCEPT !["server"] = Idle] /\ open' = open \ {"server"}
      /\ UNCHANGED <<out, net, sent, got, manifest, cli, reply, plan, asked, awaited, received>>
  BY DEF ServerReplyFails, ServerAt, Ready, ServerGoes, Close
<1>3. in["server"].stage \notin ReadStages /\ in["server"].stage # "frame"
  BY <1>2, IdleStage
<1>4. /\ Link' /\ QueueSteps
      /\ Coming("server")' = Coming("server") /\ Coming("client")' = Coming("client")
      /\ in'["server"] = Idle /\ in'["client"] = in["client"]
  <2>1. Idle \in {Idle, Reading("type", WordSize, 0)}
    OBVIOUS
  <2> QED
    BY <1>1, <1>2, <1>3, <2>1, ServerBetween
<1>5. PICK file \in Range(manifest) : Fetching(file) /\ Answering(file)
  BY <1>2, Replying DEF Inv
<1>6. cli = "chunks"
  BY <1>2, Replying DEF Inv
<1>7. ServerSide'
  BY <1>2, <1>4, IdleStage DEF ServerSide, ServerPlaces
<1>8. ClientSide'
  BY <1>1, <1>2, <1>4 DEF ClientSide
<1>9. OpenEnds' /\ Requested'
  BY <1>1, <1>2, <1>6 DEF OpenEnds, Requested
<1>10. Fetching(file)'
  <2>1. Answering(file)'
    BY <1>2, <1>4, <1>5 DEF Answering
  <2>2. Fetched'
    BY <1>2, <1>5 DEF Fetched, Fetching
  <2> QED
    BY <2>1, <2>2, <1>2, <1>5 DEF Fetching
<1>11. Conversation'
  BY <1>2, <1>6, <1>10 DEF Conversation
<1> QED
  BY <1>4, <1>7, <1>8, <1>9, <1>11 DEF Inv, SessionInv

LEMMA ServerReplyKeeps ==
  ASSUME Inv, ServerReply
  PROVE  Inv' /\ QueueSteps
<1>1. Link /\ ServerSide /\ ClientSide /\ OpenEnds /\ Requested /\ Conversation
  BY DEF Inv, SessionInv
<1> DEFINE m == Head(reply)
<1>2. /\ srv = "reply" /\ srv' = "reply" /\ in["server"] = Idle /\ out["server"] = <<>>
      /\ reply # <<>> /\ reply' = Tail(reply) /\ Send("server", m)
      /\ UNCHANGED <<manifest, cli, plan, asked, awaited, received>>
  BY DEF ServerReply, ServerAt, Ready, ServerGoes
<1>3. PICK file \in Range(manifest) : Fetching(file) /\ Answering(file)
  BY <1>2, Replying DEF Inv
<1>4. cli = "chunks"
  BY <1>2, Replying DEF Inv
<1> DEFINE M == Messages(manifest)
           k == Len(reply)
           l == Len(asked)
<1>5. reply \in Seq(M)
  BY <1>3 DEF Answering
<1>6. /\ m \in M /\ m = reply[1] /\ reply' \in Seq(M) /\ Len(reply') = k - 1 /\ k \in Nat /\ k > 0
      /\ \A i \in 1 .. k - 1 : reply'[i] = reply[i + 1]
  <2> HIDE DEF M
  <2>1. /\ Head(reply) \in M /\ Tail(reply) \in Seq(M) /\ Len(Tail(reply)) = Len(reply) - 1
        /\ \A i \in 1 .. Len(Tail(reply)) : Tail(reply)[i] = reply[i + 1]
    BY <1>2, <1>5, HeadTailProperties
  <2>2. Head(reply) = reply[1]
    BY <1>5
  <2>3. Len(reply) \in Nat /\ Len(reply) # 0
    BY <1>2, <1>5, EmptySeq, LenProperties
  <2> QED
    BY <2>1, <2>2, <2>3, <1>2
<1>7. Frame(m) \in FrameSet
  BY <1>1, <1>6, FrameTyped DEF Requested
<1> HIDE DEF m, k, l, M
<1>8. /\ Link' /\ QueueSteps
      /\ Coming("server")' = Coming("server")
      /\ Coming("client")' = Append(Coming("client"), Frame(m))
      /\ in' = in /\ open' = open /\ out'["client"] = out["client"]
  BY <1>1, <1>2, <1>7, ServerSend
<1>9. ServerSide'
  BY <1>1, <1>2, <1>8, IdleStage DEF ServerSide, ServerPlaces
<1>10. ClientSide'
  <2>1. in["client"].stage # "eof"
    BY <1>1, <1>2, <1>4 DEF ClientSide, OpenEnds
  <2> QED
    BY <1>1, <1>2, <1>4, <1>8, <2>1 DEF ClientSide
<1>11. OpenEnds' /\ Requested'
  BY <1>1, <1>2, <1>8 DEF OpenEnds, Requested
<1>12. Fetching(file)'
  <2> DEFINE C == Coming("client")
             c == Len(C)
             D == Append(C, Frame(m))
  <2>1. C \in Seq(FrameSet)
    BY <1>1, TakenTyped DEF Ends
  <2>2. c \in Nat /\ l \in Nat /\ awaited \in 0 .. l
    <3>1. l \in Nat
      BY <1>1, <1>3, Chosen DEF l, Requested, Fetching
    <3> QED
      BY <2>1, <3>1, <1>3, LenProperties DEF Fetching, l
  <2>3. /\ c + k = awaited /\ awaited > 0 /\ Coming("server") = <<>>
        /\ \A i \in 1 .. c : C[i] = Frame(ChunkData(FileId(file), asked[l - awaited + i]))
        /\ \A i \in 1 .. k : reply[i] = ChunkData(FileId(file), asked[l - k + i])
    BY <1>3 DEF Answering, k, l
  <2> HIDE DEF C
  <2>4. Len(D) = c + 1 /\ D[c + 1] = Frame(m) /\ \A i \in 1 .. c : D[i] = C[i]
    <3>1. Len(D) = c + 1
      BY <2>1, <1>7, AppendProperties
    <3>2. D[c + 1] = Frame(m)
      BY <2>1, <1>7, AppendProperties
    <3>3. \A i \in 1 .. c : D[i] = C[i]
      BY <2>1, <1>7, AppendProperties
    <3> QED
      BY <3>1, <3>2, <3>3
  <2> HIDE DEF c, D
  <2>5. m = ChunkData(FileId(file), asked[l - awaited + (c + 1)])
    <3>1. 1 \in 1 .. k /\ l - k + 1 = l - awaited + (c + 1)
      BY <1>6, <2>2, <2>3
    <3>2. reply[1] = ChunkData(FileId(file), asked[l - k + 1])
      BY <3>1, <2>3
    <3> QED
      BY <3>1, <3>2, <1>6
  <2>6. \A i \in 1 .. Len(D) : D[i] = Frame(ChunkData(FileId(file), asked[l - awaited + i]))
    <3> TAKE i \in 1 .. Len(D)
    <3>1. CASE i = c + 1
      BY <3>1, <2>4, <2>5
    <3>2. CASE i # c + 1
      <4>1. i \in 1 .. c
        BY <3>2, <2>2, <2>4
      <4> QED
        BY <4>1, <2>3, <2>4
    <3> QED
      BY <3>1, <3>2
  <2>7. \A i \in 1 .. Len(reply') : reply'[i] = ChunkData(FileId(file), asked[l - Len(reply') + i])
    <3> TAKE i \in 1 .. Len(reply')
    <3>1. i + 1 \in 1 .. k /\ l - k + (i + 1) = l - Len(reply') + i /\ i \in 1 .. k - 1
      BY <1>6, <2>2
    <3>2. reply[i + 1] = ChunkData(FileId(file), asked[l - k + (i + 1)])
      BY <3>1, <2>3
    <3> QED
      BY <3>1, <3>2, <1>6
  <2>8. Len(D) + Len(reply') = awaited
    BY <1>6, <2>2, <2>3, <2>4
  <2>9. Coming("client")' = D
    BY <1>8 DEF D, C
  <2>10. Answering(file)'
    BY <1>2, <1>6, <1>8, <2>3, <2>6, <2>7, <2>8, <2>9 DEF Answering, M, l, Listening
  <2>11. Fetched'
    BY <1>2, <1>3 DEF Fetched, Fetching
  <2> QED
    BY <2>10, <2>11, <1>2, <1>3 DEF Fetching
<1>13. Conversation'
  BY <1>2, <1>4, <1>12 DEF Conversation
<1> QED
  BY <1>8, <1>9, <1>10, <1>11, <1>13 DEF Inv, SessionInv

\* What the server has received is a request or the end of the session.
LEMMA ServerHears ==
  ASSUME Inv, srv = "receive", in["server"].stage = "frame"
  PROVE  \/ /\ cli \in {"acked", "done"}
            /\ Coming("server") = <<Frame(Ack)>> /\ Incoming("server") = Ack
         \/ /\ cli = "chunks"
            /\ \E file \in Range(manifest) :
                 /\ Fetching(file) /\ Requesting(file)
                 /\ Incoming("server") = RequestFor(file, asked)
<1>1. Link /\ ClientSide /\ Requested /\ Conversation
  BY DEF Inv, SessionInv
<1>2. "server" \in Ends /\ in["server"] \in Reads
  BY <1>1, LinkWires DEF Ends
<1>3. Coming("server") # <<>> /\ Coming("server")[1] = FrameOf(in["server"])
  BY <1>1, <1>2, ComingHead
<1>4. CASE cli \in {"acked", "done"}
  <2>1. Coming("server") = <<Frame(Ack)>>
    BY <1>1, <1>4 DEF Conversation
  <2>2. FrameOf(in["server"]) = Frame(Ack)
    BY <1>3, <2>1, Few
  <2>3. Incoming("server") = Ack
    BY <1>1, <1>2, <2>2, Kinds, IncomingIs DEF Requested
  <2> QED
    BY <1>4, <2>1, <2>3
<1>5. CASE cli = "chunks"
  <2>1. PICK file \in Range(manifest) : Fetching(file)
    BY <1>1, <1>5 DEF Conversation
  <2>2. Requesting(file)
    BY <1>3, <2>1 DEF Fetching, Answered, Answering, Quiet
  <2>3. FrameOf(in["server"]) = Frame(RequestFor(file, asked))
    BY <1>3, <2>2, Few DEF Requesting
  <2>4. RequestFor(file, asked) \in Messages(manifest)
    BY <1>1, <2>1, RequestTyped, Kinds DEF Fetching, Requested
  <2>5. Incoming("server") = RequestFor(file, asked)
    BY <1>1, <1>2, <2>3, <2>4, IncomingIs DEF Requested
  <2> QED
    BY <1>5, <2>1, <2>2, <2>5
<1>6. cli \in {"acked", "done", "chunks"}
  BY <1>1, <1>3 DEF Conversation, Quiet, ClientSide, ClientPlaces
<1> QED
  BY <1>4, <1>5, <1>6

\* The answer to the request for some chunks of an announced file.
LEMMA ReplyIs ==
  ASSUME manifest \in Manifests, NEW file \in Range(manifest), NEW chunks \in Subsequences(Chunks(file))
  PROVE  /\ Reply(RequestFor(file, chunks).values) \in Seq(Messages(manifest))
         /\ Len(Reply(RequestFor(file, chunks).values)) = Len(chunks)
         /\ \A i \in 1 .. Len(chunks) :
              Reply(RequestFor(file, chunks).values)[i] = ChunkData(FileId(file), chunks[i])
<1> DEFINE v == RequestFor(file, chunks).values
           M == Messages(manifest)
           l == Len(chunks)
           R == [i \in 1 .. l |-> ChunkData(FileId(file), chunks[i])]
<1>1. v[1] = FileId(file) /\ v[2] = RelativePath(file) /\ v[4] = chunks
  BY DEF RequestFor
<1>2. l \in Nat /\ DOMAIN chunks = 1 .. l /\ \A i \in 1 .. l : chunks[i] \in Range(Chunks(file))
  BY Chosen
<1> HIDE DEF v, M
<1>3. FindRemoteFile(manifest, v)
  BY <1>1 DEF FindRemoteFile, Range
<1>4. Reply(v) = R
  BY <1>1, <1>2, <1>3 DEF Reply
<1> HIDE DEF l
<1>5. \A i \in 1 .. l : ChunkData(FileId(file), chunks[i]) \in M
  BY <1>2, Kinds DEF M
<1>6. R \in Seq(M) /\ Len(R) = l
  <2>1. R \in [1 .. l -> M]
    BY <1>5
  <2> HIDE DEF R
  <2> QED
    BY <2>1, <1>2, IsASeq, LenProperties
<1> QED
  BY <1>4, <1>6 DEF v, M, l

LEMMA ServerFrameKeeps ==
  ASSUME Inv, ServerFrame
  PROVE  Inv' /\ QueueSteps
<1>1. Link /\ ServerSide /\ ClientSide /\ OpenEnds /\ Requested /\ Conversation
  BY DEF Inv, SessionInv
<1>2. srv = "receive" /\ in["server"].stage = "frame"
  BY DEF ServerFrame
<1>3. /\ in' = [in EXCEPT !["server"] = Idle]
      /\ UNCHANGED <<out, net, sent, got>>
      /\ UNCHANGED <<manifest, cli, plan, asked, awaited, received>>
  BY DEF ServerFrame, ServerGoes, Close, Resume
<1>4. in["server"].stage \notin ReadStages
  BY <1>2, IdleStage
<1>5. /\ Link' /\ QueueSteps
      /\ Coming("server")' = Tail(Coming("server")) /\ Coming("client")' = Coming("client")
      /\ in'["server"] = Idle /\ in'["client"] = in["client"]
  <2>1. Idle \in {Idle, Reading("type", WordSize, 0)}
    OBVIOUS
  <2> QED
    BY <1>1, <1>2, <1>3, <1>4, <2>1, ServerBetween
<1>6. out["server"] = <<>> /\ reply = <<>>
  BY <1>1, <1>2 DEF ServerSide
<1>7. ASSUME cli \in {"acked", "done"}, Coming("server") = <<Frame(Ack)>>, Incoming("server") = Ack
      PROVE  SessionInv'
  <2>1. srv' = "acked" /\ reply' = reply /\ open' = open \ {"server"}
    <3>1. Incoming("server").type = "ack"
      BY <1>7 DEF Ack
    <3> QED
      BY <3>1 DEF ServerFrame, ServerGoes, Close
  <2>2. Coming("server")' = <<>>
    BY <1>5, <1>7, Few
  <2>3. ServerSide'
    BY <1>3, <1>5, <1>6, <2>1, IdleStage DEF ServerSide, ServerPlaces
  <2>4. ClientSide'
    BY <1>1, <1>3, <1>5, <1>7, <2>1, IdleStage DEF ClientSide
  <2>5. OpenEnds' /\ Requested'
    BY <1>1, <1>3, <1>7, <2>1 DEF OpenEnds, Requested
  <2>6. Conversation'
    BY <1>1, <1>3, <1>5, <1>6, <1>7, <2>1, <2>2 DEF Conversation
  <2> QED
    BY <2>3, <2>4, <2>5, <2>6 DEF SessionInv
<1>8. ASSUME cli = "chunks", NEW file \in Range(manifest), Fetching(file), Requesting(file),
             Incoming("server") = RequestFor(file, asked)
      PROVE  SessionInv'
  <2>1. /\ srv' = "reply" /\ open' = open
        /\ reply' = Reply(RequestFor(file, asked).values)
    <3>1. Incoming("server").type = "missing"
      BY <1>8 DEF RequestFor
    <3> QED
      BY <3>1, <1>8 DEF ServerFrame, ServerGoes, Resume
  <2>2. Coming("server")' = <<>>
    BY <1>5, <1>8, Few DEF Requesting
  <2>3. ServerSide'
    BY <1>3, <1>5, <1>6, <2>1, IdleStage DEF ServerSide, ServerPlaces
  <2>4. ClientSide'
    <3>1. in["client"].stage # "eof"
      BY <1>1, <1>2, <1>8 DEF ClientSide, OpenEnds
    <3> QED
      BY <1>1, <1>3, <1>5, <1>8, <3>1 DEF ClientSide
  <2>5. OpenEnds' /\ Requested'
    BY <1>1, <1>2, <1>3, <1>8, <2>1 DEF OpenEnds, Requested
  <2>6. Fetching(file)'
    <3> DEFINE R == Reply(RequestFor(file, asked).values)
    <3>1. asked \in Subsequences(Chunks(file)) /\ manifest \in Manifests
      BY <1>1, <1>8 DEF Fetching, Requested
    <3>2. /\ R \in Seq(Messages(manifest)) /\ Len(R) = Len(asked)
          /\ \A i \in 1 .. Len(asked) : R[i] = ChunkData(FileId(file), asked[i])
      BY <3>1, ReplyIs
    <3>3. Len(asked) \in Nat
      BY <3>1, Chosen
    <3> HIDE DEF R
    <3>4. awaited = Len(asked) /\ awaited > 0 /\ Coming("client") = <<>>
      BY <1>8 DEF Requesting
    <3>5. \A i \in 1 .. Len(R) : R[i] = ChunkData(FileId(file), asked[Len(asked) - Len(R) + i])
      <4> TAKE i \in 1 .. Len(R)
      <4>1. Len(asked) - Len(R) + i = i /\ i \in 1 .. Len(asked)
        BY <3>2, <3>3
      <4> QED
        BY <4>1, <3>2
    <3>6. Len(Coming("client")) = 0
      BY <3>4, NothingIsEmpty
    <3>7. reply' = R
      BY <2>1 DEF R
    <3>8. Answering(file)'
      <4>1. Len(Coming("client")') + Len(R) = awaited
        BY <1>5, <3>2, <3>3, <3>4, <3>6
      <4>2. \A i \in 1 .. Len(Coming("client")') :
              Coming("client")'[i] = Frame(ChunkData(FileId(file), asked[Len(asked) - awaited + i]))
        BY <1>5, <3>6
      <4> QED
        BY <4>1, <4>2, <1>3, <2>1, <2>2, <3>2, <3>4, <3>5, <3>7 DEF Answering, Listening
    <3>9. Fetched'
      BY <1>3, <1>8 DEF Fetched, Fetching
    <3> QED
      BY <3>8, <3>9, <1>3, <1>8 DEF Fetching
  <2>7. Conversation'
    BY <1>3, <1>8, <2>6 DEF Conversation
  <2> QED
    BY <2>3, <2>4, <2>5, <2>7 DEF SessionInv
<1> QED
  BY <1>2, <1>5, <1>7, <1>8, ServerHears DEF Inv

LEMMA ServerEofKeeps ==
  ASSUME Inv, ServerEof
  PROVE  Inv' /\ QueueSteps
<1>1. Link /\ ServerSide /\ ClientSide /\ OpenEnds /\ Requested /\ Conversation
  BY DEF Inv, SessionInv
<1>2. /\ srv = "receive" /\ srv' = "closed" /\ in["server"].stage = "eof"
      /\ in' = [in EXCEPT !["server"] = Idle] /\ open' = open \ {"server"}
      /\ UNCHANGED <<out, net, sent, got, manifest, cli, reply, plan, asked, awaited, received>>
  BY DEF ServerEof, ServerGoes, Close
<1>3. in["server"].stage \notin ReadStages /\ in["server"].stage # "frame"
  BY <1>2, IdleStage
<1>4. /\ Link' /\ QueueSteps
      /\ Coming("server")' = Coming("server") /\ Coming("client")' = Coming("client")
      /\ in'["server"] = Idle /\ in'["client"] = in["client"]
  <2>1. Idle \in {Idle, Reading("type", WordSize, 0)}
    OBVIOUS
  <2> QED
    BY <1>1, <1>2, <1>3, <2>1, ServerBetween
<1>5. cli = "aborted" /\ Quiet
  <2>1. "client" \notin open /\ Coming("server") = <<>>
    BY <1>1, <1>2 DEF ServerSide
  <2>2. cli \in {"connect", "refused", "done", "failed", "aborted"}
    BY <1>1, <2>1 DEF OpenEnds
  <2>3. cli # "done"
    <3>1. <<Frame(Ack)>> # <<>>
      BY Few
    <3> QED
      BY <1>1, <1>2, <2>1, <3>1 DEF Conversation
  <2> QED
    BY <1>1, <1>2, <2>2, <2>3 DEF Conversation
<1>6. out["server"] = <<>> /\ reply = <<>>
  BY <1>1, <1>2 DEF ServerSide
<1>7. ServerSide'
  BY <1>2, <1>4, <1>6, IdleStage DEF ServerSide, ServerPlaces
<1>8. ClientSide'
  BY <1>1, <1>2, <1>4 DEF ClientSide
<1>9. OpenEnds' /\ Requested'
  BY <1>1, <1>2, <1>5 DEF OpenEnds, Requested
<1>10. Conversation'
  BY <1>2, <1>4, <1>5 DEF Conversation, Quiet
<1> QED
  BY <1>4, <1>7, <1>8, <1>9, <1>10 DEF Inv, SessionInv

LEMMA KillKeeps ==
  ASSUME Inv, KillHungRun
  PROVE  Inv' /\ QueueSteps
<1>1. Link /\ ServerSide /\ ClientSide /\ OpenEnds /\ Requested /\ Conversation
  BY DEF Inv, SessionInv
<1>2. /\ cli = "refused" /\ srv = "accept" /\ srv' = "closed"
      /\ UNCHANGED <<out, net, in, open, sent, got, manifest, cli, reply, plan, asked, awaited, received>>
  BY DEF KillHungRun, connection
<1>3. /\ Link' /\ QueueSteps
      /\ Coming("server")' = Coming("server") /\ Coming("client")' = Coming("client")
  BY <1>1, <1>2, SameComing
<1>4. ServerSide'
  BY <1>1, <1>2, <1>3 DEF ServerSide, ServerPlaces
<1>5. ClientSide'
  BY <1>1, <1>2, <1>3 DEF ClientSide
<1>6. OpenEnds' /\ Requested'
  BY <1>1, <1>2 DEF OpenEnds, Requested
<1>7. Conversation'
  BY <1>1, <1>2, <1>3 DEF Conversation, Quiet
<1> QED
  BY <1>3, <1>4, <1>5, <1>6, <1>7 DEF Inv, SessionInv

LEMMA ServerKeeps ==
  ASSUME Inv, RunServer
  PROVE  Inv' /\ QueueSteps
<1>1. CASE ServerListen \/ ServerListenFails
  BY <1>1, ServerListenKeeps
<1>2. CASE ServerAccept
  BY <1>2, ServerAcceptKeeps
<1>3. CASE ServerHello \/ ServerManifest
  BY <1>3, ServerHelloKeeps
<1>4. CASE ServerReceive
  BY <1>4, ServerReceiveKeeps
<1>5. CASE ServerFrame
  BY <1>5, ServerFrameKeeps
<1>6. CASE ServerReply
  BY <1>6, ServerReplyKeeps
<1>7. CASE ServerReplyFails
  BY <1>7, ServerReplyFailsKeeps
<1>8. CASE ServerReplied
  BY <1>8, ServerRepliedKeeps
<1>9. CASE ServerEof
  BY <1>9, ServerEofKeeps
<1>10. CASE IO("server") /\ UNCHANGED session
  BY <1>10, IOKeeps DEF Ends
<1> QED
  BY <1>1, <1>2, <1>3, <1>4, <1>5, <1>6, <1>7, <1>8, <1>9, <1>10 DEF RunServer

\* What the client has received is what it waits for.
LEMMA ClientHears ==
  ASSUME Inv, in["client"].stage = "frame"
  PROVE  /\ cli \in {"hello", "manifest", "chunks"}
         /\ Coming("client") # <<>>
         /\ cli = "hello" => Incoming("client") = Hello
         /\ cli = "manifest" => Incoming("client") = Announcement(manifest)
         /\ cli = "chunks" =>
              \E file \in Range(manifest) :
                /\ Fetching(file) /\ Answering(file) /\ Len(Coming("client")) > 0
                /\ Incoming("client") = ChunkData(FileId(file), asked[Len(asked) - awaited + 1])
<1>1. Link /\ ClientSide /\ Requested /\ Conversation
  BY DEF Inv, SessionInv
<1>2. "client" \in Ends /\ in["client"] \in Reads
  BY <1>1, LinkWires DEF Ends
<1>3. Coming("client") # <<>> /\ Coming("client")[1] = FrameOf(in["client"])
      /\ Len(Coming("client")) > 0
  BY <1>1, <1>2, ComingHead
<1>4. cli \in {"hello", "manifest", "chunks"}
  BY <1>1, IdleStage DEF ClientSide
<1>5. ASSUME cli = "hello" PROVE Incoming("client") = Hello
  <2>1. FrameOf(in["client"]) = Frame(Hello)
    BY <1>1, <1>3, <1>5, Few DEF Conversation
  <2> QED
    BY <1>1, <1>2, <2>1, Kinds, IncomingIs DEF Requested
<1>6. ASSUME cli = "manifest" PROVE Incoming("client") = Announcement(manifest)
  <2>1. FrameOf(in["client"]) = Frame(Announcement(manifest))
    BY <1>1, <1>3, <1>6, Few DEF Conversation
  <2> QED
    BY <1>1, <1>2, <2>1, Kinds, IncomingIs DEF Requested
<1>7. ASSUME cli = "chunks"
      PROVE  \E file \in Range(manifest) :
                /\ Fetching(file) /\ Answering(file) /\ Len(Coming("client")) > 0
                /\ Incoming("client") = ChunkData(FileId(file), asked[Len(asked) - awaited + 1])
  <2>1. PICK file \in Range(manifest) : Fetching(file)
    BY <1>1, <1>7 DEF Conversation
  <2>2. Answering(file)
    BY <1>3, <2>1 DEF Fetching, Answered, Requesting, Quiet
  <2> DEFINE l == Len(asked)
             c == Len(Coming("client"))
             i == l - awaited + 1
  <2>3. /\ asked \in Subsequences(Chunks(file)) /\ manifest \in Manifests
        /\ awaited \in 0 .. l /\ awaited > 0
    BY <1>1, <2>1, <2>2 DEF Fetching, Answering, Requested
  <2>4. l \in Nat /\ \A j \in 1 .. l : asked[j] \in Range(Chunks(file))
    BY <2>3, Chosen
  <2>5. c \in Nat /\ c > 0
    BY <1>1, <1>2, <1>3, TakenTyped, LenProperties
  <2>6. \A j \in 1 .. c : Coming("client")[j] = Frame(ChunkData(FileId(file), asked[l - awaited + j]))
    BY <2>2 DEF Answering
  <2> HIDE DEF l, c
  <2>7. Coming("client")[1] = Frame(ChunkData(FileId(file), asked[i]))
    <3>1. 1 \in 1 .. c
      BY <2>5
    <3> QED
      BY <2>6, <3>1
  <2>8. asked[i] \in Range(Chunks(file))
    <3>1. i \in 1 .. l
      BY <2>3, <2>4
    <3> QED
      BY <2>4, <3>1
  <2> HIDE DEF i
  <2>9. ChunkData(FileId(file), asked[i]) \in Messages(manifest)
    BY <2>3, <2>8, Kinds
  <2>10. Incoming("client") = ChunkData(FileId(file), asked[i])
    BY <1>2, <1>3, <2>3, <2>7, <2>9, IncomingIs
  <2> QED
    BY <1>3, <2>1, <2>2, <2>10 DEF i, l
<1> QED
  BY <1>3, <1>4, <1>5, <1>6, <1>7

LEMMA ClientConnectKeeps ==
  ASSUME Inv, ClientConnect
  PROVE  Inv' /\ QueueSteps
<1>1. Link /\ ServerSide /\ ClientSide /\ OpenEnds /\ Requested /\ Conversation
  BY DEF Inv, SessionInv
<1>2. /\ cli = "connect" /\ cli' = "hello" /\ srv = "accept" /\ open' = Ends
      /\ UNCHANGED <<out, net, in, sent, got, manifest, srv, reply, plan, asked, awaited, received>>
  BY DEF ClientConnect, ClientAt, ClientGoes, ConnectTcp
<1>3. /\ Link' /\ QueueSteps
      /\ Coming("server")' = Coming("server") /\ Coming("client")' = Coming("client")
  BY <1>1, <1>2, SameComing
<1>4. in["client"] = Idle /\ in["server"] = Idle /\ out["client"] = <<>> /\ out["server"] = <<>> /\ Quiet
  BY <1>1, <1>2 DEF ClientSide, ServerSide, Conversation
<1>5. ServerSide'
  BY <1>1, <1>2, <1>4, IdleStage DEF ServerSide
<1>6. ClientSide'
  BY <1>2, <1>4, IdleStage DEF ClientSide, ClientPlaces
<1>7. OpenEnds' /\ Requested'
  BY <1>1, <1>2 DEF OpenEnds, Requested, Ends
<1>8. Conversation'
  BY <1>2, <1>3, <1>4 DEF Conversation, Quiet
<1> QED
  BY <1>3, <1>5, <1>6, <1>7, <1>8 DEF Inv, SessionInv

LEMMA ClientRetryKeeps ==
  ASSUME Inv, ClientRetry
  PROVE  Inv' /\ QueueSteps
<1>1. Link /\ ServerSide /\ ClientSide /\ OpenEnds /\ Requested /\ Conversation
  BY DEF Inv, SessionInv
<1>2. /\ cli = "connect" /\ cli' \in {"refused", "connect"} /\ srv \in {"scan", "unbound"}
      /\ UNCHANGED <<out, net, in, open, sent, got, manifest, srv, reply, plan, asked, awaited, received>>
  BY DEF ClientRetry, ClientAt, ClientGoes, connection
<1>3. /\ Link' /\ QueueSteps
      /\ Coming("server")' = Coming("server") /\ Coming("client")' = Coming("client")
  BY <1>1, <1>2, SameComing
<1>4. ServerSide'
  BY <1>1, <1>2, <1>3 DEF ServerSide
<1>5. ClientSide'
  BY <1>1, <1>2, <1>3 DEF ClientSide, ClientPlaces
<1>6. OpenEnds' /\ Requested'
  BY <1>1, <1>2 DEF OpenEnds, Requested
<1>7. Conversation'
  BY <1>1, <1>2, <1>3 DEF Conversation, Quiet
<1> QED
  BY <1>3, <1>4, <1>5, <1>6, <1>7 DEF Inv, SessionInv

LEMMA ClientReceiveKeeps ==
  ASSUME Inv, ClientReceive
  PROVE  Inv' /\ QueueSteps
<1>1. Link /\ ServerSide /\ ClientSide /\ OpenEnds /\ Requested /\ Conversation
  BY DEF Inv, SessionInv
<1> DEFINE r == Reading("type", WordSize, 0)
<1>2. /\ cli \in {"hello", "manifest", "chunks"} /\ (cli = "chunks" => awaited > 0)
      /\ in["client"] = Idle /\ out["client"] = <<>>
      /\ in' = [in EXCEPT !["client"] = r]
      /\ UNCHANGED <<out, net, open, sent, got>> /\ UNCHANGED session
  BY DEF ClientReceive, ClientAt, Ready, Receive
<1>3. UNCHANGED <<manifest, srv, cli, reply, plan, asked, awaited, received>>
  BY <1>2 DEF session
<1>4. in["client"].stage = "idle" /\ in["client"].stage \notin ReadStages /\ r.stage = "type"
  BY <1>2, IdleStage
<1> HIDE DEF r
<1>5. /\ Link' /\ QueueSteps
      /\ Coming("client")' = Coming("client") /\ Coming("server")' = Coming("server")
      /\ in'["client"] = r /\ in'["server"] = in["server"]
  <2>1. in["client"].stage # "frame" /\ r \in {Idle, Reading("type", WordSize, 0)}
    BY <1>4 DEF r
  <2> QED
    BY <1>1, <1>2, <1>4, <2>1, ClientBetween
<1>6. ServerSide'
  BY <1>1, <1>2, <1>3, <1>5 DEF ServerSide
<1>7. ClientSide'
  BY <1>2, <1>3, <1>4, <1>5 DEF ClientSide, ClientPlaces
<1>8. OpenEnds' /\ Requested'
  BY <1>1, <1>2, <1>3 DEF OpenEnds, Requested
<1>9. Conversation'
  <2>1. ASSUME NEW file, Fetching(file), cli = "chunks" PROVE Fetching(file)'
    <3>1. ~Answered(file)
      BY <1>2, <2>1, SMT DEF Answered
    <3>2. Requesting(file) => Requesting(file)'
      BY <1>3, <1>5 DEF Requesting
    <3>3. Answering(file) => Answering(file)'
      BY <1>3, <1>5 DEF Answering
    <3>4. Fetched => Fetched'
      BY <1>3 DEF Fetched
    <3> QED
      BY <1>3, <2>1, <3>1, <3>2, <3>3, <3>4 DEF Fetching
  <2>2. cli = "chunks" => \E file \in Range(manifest)' : Fetching(file)'
    BY <2>1, <1>1, <1>3 DEF Conversation
  <2> QED
    BY <2>2, <1>1, <1>2, <1>3, <1>5 DEF Conversation
<1> QED
  BY <1>5, <1>6, <1>7, <1>8, <1>9 DEF Inv, SessionInv

\* The client goes on with the frame it has received.
LEMMA ClientTakes ==
  ASSUME Link, in["client"].stage = "frame",
         in' = [in EXCEPT !["client"] = Idle], UNCHANGED <<out, net, sent, got>>
  PROVE  /\ Link' /\ QueueSteps
         /\ Coming("client")' = Tail(Coming("client")) /\ Coming("server")' = Coming("server")
         /\ in'["client"] = Idle /\ in'["server"] = in["server"]
<1>1. in["client"].stage \notin ReadStages /\ Idle \in {Idle, Reading("type", WordSize, 0)}
  BY IdleStage
<1> QED
  BY <1>1, ClientBetween

LEMMA ClientHelloKeeps ==
  ASSUME Inv, ClientHello
  PROVE  Inv' /\ QueueSteps
<1>1. Link /\ ServerSide /\ ClientSide /\ OpenEnds /\ Requested /\ Conversation
  BY DEF Inv, SessionInv
<1>2. /\ cli = "hello" /\ cli' = "manifest" /\ in["client"].stage = "frame"
      /\ in' = [in EXCEPT !["client"] = Idle]
      /\ UNCHANGED <<out, net, open, sent, got, manifest, srv, reply, plan, asked, awaited, received>>
  BY DEF ClientHello, ClientGoes, Resume
<1>3. /\ Link' /\ QueueSteps
      /\ Coming("client")' = Tail(Coming("client")) /\ Coming("server")' = Coming("server")
      /\ in'["client"] = Idle /\ in'["server"] = in["server"]
  BY <1>1, <1>2, ClientTakes
<1>4. ServerSide'
  BY <1>1, <1>2, <1>3 DEF ServerSide
<1>5. ClientSide'
  BY <1>1, <1>2, <1>3, IdleStage DEF ClientSide, ClientPlaces
<1>6. OpenEnds' /\ Requested'
  BY <1>1, <1>2 DEF OpenEnds, Requested
<1>7. Conversation'
  <2>1. Coming("client") # <<>> /\ Coming("server") = <<>> /\ reply = <<>>
    BY <1>1, <1>2, ClientHears DEF Conversation
  <2>2. CASE srv = "manifest" /\ Coming("client") = <<Frame(Hello)>>
    <3>1. Coming("client")' = <<>>
      BY <1>3, <2>2, Few
    <3> QED
      BY <1>2, <1>3, <2>1, <2>2, <3>1 DEF Conversation
  <2>3. CASE srv \in {"loop", "receive"}
             /\ Coming("client") = <<Frame(Hello), Frame(Announcement(manifest))>>
    <3>1. Coming("client")' = <<Frame(Announcement(manifest))>>
      <4>1. Tail(<<Frame(Hello), Frame(Announcement(manifest))>>) = <<Frame(Announcement(manifest))>>
        BY Few, Zenon
      <4> QED
        BY <1>3, <2>3, <4>1
    <3> QED
      BY <1>2, <1>3, <2>1, <2>3, <3>1 DEF Conversation
  <2> QED
    BY <1>1, <1>2, <2>1, <2>2, <2>3 DEF Conversation
<1> QED
  BY <1>3, <1>4, <1>5, <1>6, <1>7 DEF Inv, SessionInv

LEMMA PlansTyped ==
  ASSUME NEW files, NEW S, files \in Seq(S), NEW p \in Plans(files)
  PROVE  p \in Seq(AllRequests(files))
<1>1. PICK k \in 0 .. Len(files) : p \in [1 .. k -> UNION {Requests(file) : file \in Range(files)}]
  BY DEF Plans
<1>2. p \in [1 .. k -> AllRequests(files)]
  BY <1>1 DEF AllRequests
<1>3. k \in Nat
  BY <1>1, LenProperties
<1> QED
  BY <1>2, <1>3, IsASeq

LEMMA ClientManifestKeeps ==
  ASSUME Inv, ClientManifest
  PROVE  Inv' /\ QueueSteps
<1>1. Link /\ ServerSide /\ ClientSide /\ OpenEnds /\ Requested /\ Conversation
  BY DEF Inv, SessionInv
<1>2. /\ cli = "manifest" /\ cli' = "next" /\ in["client"].stage = "frame"
      /\ in' = [in EXCEPT !["client"] = Idle]
      /\ UNCHANGED <<out, net, open, sent, got, manifest, srv, reply, asked, awaited, received>>
      /\ plan' \in Plans(Incoming("client").values[1])
  BY DEF ClientManifest, ClientGoes, Resume
<1>3. /\ Link' /\ QueueSteps
      /\ Coming("client")' = Tail(Coming("client")) /\ Coming("server")' = Coming("server")
      /\ in'["client"] = Idle /\ in'["server"] = in["server"]
  BY <1>1, <1>2, ClientTakes
<1>4. Coming("client") # <<>> /\ Incoming("client") = Announcement(manifest)
  BY <1>2, ClientHears
<1>5. plan' \in Seq(AllRequests(manifest))
  <2>1. Incoming("client").values[1] = manifest
    BY <1>1, <1>4, Kinds DEF Requested
  <2>2. manifest \in Seq(Range(manifest))
    BY <1>1, ManifestsAreLists DEF Requested
  <2> QED
    BY <1>2, <2>1, <2>2, PlansTyped
<1>6. ServerSide'
  BY <1>1, <1>2, <1>3 DEF ServerSide
<1>7. ClientSide'
  BY <1>1, <1>2, <1>3, IdleStage DEF ClientSide, ClientPlaces
<1>8. OpenEnds' /\ Requested'
  BY <1>1, <1>2, <1>5 DEF OpenEnds, Requested
<1>9. Conversation'
  <2>1. /\ Coming("server") = <<>> /\ reply = <<>> /\ srv \in {"loop", "receive"}
        /\ Coming("client") = <<Frame(Announcement(manifest))>>
    BY <1>1, <1>2, <1>4 DEF Conversation
  <2>2. Coming("client")' = <<>>
    BY <1>3, <2>1, Few
  <2> QED
    BY <1>2, <1>3, <2>1, <2>2 DEF Conversation, Quiet, Listening
<1> QED
  BY <1>3, <1>6, <1>7, <1>8, <1>9 DEF Inv, SessionInv

LEMMA ClientRequestKeeps ==
  ASSUME Inv, ClientRequest
  PROVE  Inv' /\ QueueSteps
<1>1. Link /\ ServerSide /\ ClientSide /\ OpenEnds /\ Requested /\ Conversation
  BY DEF Inv, SessionInv
<1> DEFINE m == Head(plan)
           M == AllRequests(manifest)
<1>2. /\ cli = "next" /\ cli' = "chunks" /\ in["client"] = Idle /\ out["client"] = <<>> /\ plan # <<>>
      /\ IF m.values[4] = <<>> THEN UNCHANGED connection ELSE Send("client", m)
      /\ asked' = m.values[4] /\ awaited' = Len(asked') /\ received' = Nothing /\ plan' = Tail(plan)
      /\ UNCHANGED <<manifest, srv, reply>>
  BY DEF ClientRequest, ClientAt, Ready, ClientGoes
<1>3. m \in M /\ plan' \in Seq(M) /\ manifest \in Manifests
  <2>1. plan \in Seq(M)
    BY <1>1 DEF Requested
  <2> HIDE DEF M
  <2>2. Head(plan) \in M /\ Tail(plan) \in Seq(M)
    BY <1>2, <2>1, HeadTailProperties
  <2> QED
    BY <1>1, <1>2, <2>2 DEF Requested
<1> HIDE DEF m
<1>12. PICK file \in Range(manifest) :
         \E chunks \in Subsequences(Chunks(file)) : m = RequestFor(file, chunks)
  BY <1>3, RequestIs
<1>4. PICK chunks \in Subsequences(Chunks(file)) : m = RequestFor(file, chunks)
  BY <1>12
<1>5. m.values[4] = chunks
  BY <1>4 DEF RequestFor
<1>6. Frame(m) \in FrameSet
  BY <1>3, Kinds, FrameTyped
<1>7. Quiet /\ srv \in Listening
  BY <1>1, <1>2 DEF Conversation
<1>8. asked' \in Subsequences(Chunks(file)) /\ Len(asked') \in Nat /\ awaited' \in 0 .. Len(asked')
  <2>1. Len(chunks) \in Nat
    BY <1>3, <1>4, Chosen
  <2> QED
    BY <2>1, <1>2, <1>4, <1>5
<1>9. Fetched'
  <2>1. Len(asked') - awaited' = 0
    BY <1>2, <1>8
  <2>2. received' = [i \in {} |-> <<>>]
    BY <1>2 DEF Nothing
  <2>3. DOMAIN received' = {} /\ 1 .. 0 = {}
    BY <2>2
  <2> QED
    BY <2>1, <2>3 DEF Fetched
<1>10. CASE chunks = <<>>
  <2>1. UNCHANGED <<out, net, in, open, sent, got>> /\ awaited' = 0
    BY <1>2, <1>5, <1>10, NothingIsEmpty DEF connection
  <2>2. /\ Link' /\ QueueSteps
        /\ Coming("server")' = Coming("server") /\ Coming("client")' = Coming("client")
    BY <1>1, <2>1, SameComing
  <2>3. ServerSide'
    BY <1>1, <1>2, <2>1, <2>2 DEF ServerSide
  <2>4. ClientSide'
    BY <1>2, <2>1, IdleStage DEF ClientSide, ClientPlaces
  <2>5. OpenEnds' /\ Requested'
    BY <1>1, <1>2, <1>3, <2>1 DEF OpenEnds, Requested
  <2>6. Answered(file)'
    BY <1>2, <1>7, <2>1, <2>2 DEF Answered, Quiet
  <2>7. Fetching(file)'
    BY <1>8, <1>9, <2>6 DEF Fetching
  <2>8. Conversation'
    BY <1>2, <1>4, <2>7 DEF Conversation
  <2> QED
    BY <2>2, <2>3, <2>4, <2>5, <2>8 DEF Inv, SessionInv
<1>11. CASE chunks # <<>>
  <2>1. Send("client", m)
    BY <1>2, <1>5, <1>11
  <2>2. /\ Link' /\ QueueSteps
        /\ Coming("client")' = Coming("client")
        /\ Coming("server")' = Append(Coming("server"), Frame(m))
        /\ in' = in /\ open' = open /\ out'["server"] = out["server"]
    BY <1>1, <1>2, <1>6, <2>1, ClientSend
  <2>3. "client" \in open
    BY <1>1, <1>2 DEF OpenEnds
  <2>4. ServerSide'
    BY <1>1, <1>2, <2>2, <2>3 DEF ServerSide
  <2>5. ClientSide'
    BY <1>2, <2>2, IdleStage DEF ClientSide, ClientPlaces
  <2>6. OpenEnds' /\ Requested'
    BY <1>1, <1>2, <1>3, <2>2 DEF OpenEnds, Requested
  <2>7. Coming("server")' = <<Frame(RequestFor(file, asked'))>>
    BY <1>2, <1>4, <1>5, <1>7, <2>2, Few DEF Quiet
  <2>8. awaited' > 0
    <3>1. Len(chunks) # 0 /\ Len(chunks) \in Nat
      <4>1. chunks \in Seq(Range(Chunks(file))) /\ Len(chunks) \in Nat
        BY <1>3, <1>4, Chosen
      <4> QED
        BY <4>1, <1>11, EmptySeq
    <3> QED
      BY <3>1, <1>2, <1>5
  <2>9. Requesting(file)'
    BY <1>2, <1>7, <2>2, <2>7, <2>8 DEF Requesting, Quiet
  <2>10. Fetching(file)'
    BY <1>8, <1>9, <2>9 DEF Fetching
  <2>11. Conversation'
    BY <1>2, <1>4, <2>10 DEF Conversation
  <2> QED
    BY <2>2, <2>4, <2>5, <2>6, <2>11 DEF Inv, SessionInv
<1> QED
  BY <1>10, <1>11

\* The next chunk goes to its place.
LEMMA FetchesOne ==
  ASSUME manifest \in Manifests, NEW file \in Range(manifest), Fetching(file), awaited > 0,
         NEW chunk, chunk = asked[Len(asked) - awaited + 1],
         received' = [i \in DOMAIN received \cup {Index(chunk)} |->
                        IF i \in DOMAIN received THEN received[i] ELSE Hash(chunk)],
         awaited' = awaited - 1, asked' = asked
  PROVE  Fetched' /\ awaited' \in 0 .. Len(asked)
<1> DEFINE l == Len(asked)
           n == l - awaited
<1>1. /\ asked \in Subsequences(Chunks(file)) /\ awaited \in 0 .. l
      /\ DOMAIN received = {Index(asked[i]) : i \in 1 .. n}
      /\ \A i \in 1 .. n : received[Index(asked[i])] = Hash(asked[i])
  BY DEF Fetching, Fetched
<1>2. l \in Nat /\ \A i, j \in 1 .. l : i < j => Index(asked[i]) # Index(asked[j])
  BY <1>1, Chosen
<1> HIDE DEF l
<1>3. n \in 0 .. l - 1 /\ n + 1 \in 1 .. l /\ n \in Nat /\ l - awaited' = n + 1 /\ awaited' \in 0 .. l
  BY <1>1, <1>2
<1>4. chunk = asked[n + 1]
  BY DEF l
<1> HIDE DEF n
<1>5. Index(chunk) \notin DOMAIN received
  <2>1. ASSUME NEW i \in 1 .. n PROVE Index(asked[i]) # Index(chunk)
    <3>1. i \in 1 .. l /\ i < n + 1
      BY <1>2, <1>3
    <3> QED
      BY <3>1, <1>2, <1>3, <1>4
  <2> QED
    BY <2>1, <1>1
<1>6. DOMAIN received' = {Index(asked[i]) : i \in 1 .. n + 1}
  <2>1. DOMAIN received' = DOMAIN received \cup {Index(asked[n + 1])}
    BY <1>4
  <2>2. 1 .. n + 1 = (1 .. n) \cup {n + 1}
    BY <1>3
  <2>3. {Index(asked[i]) : i \in 1 .. n + 1} = {Index(asked[i]) : i \in 1 .. n} \cup {Index(asked[n + 1])}
    BY <2>2
  <2> QED
    BY <1>1, <2>1, <2>3
<1>7. \A i \in 1 .. n + 1 : received'[Index(asked[i])] = Hash(asked[i])
  <2> TAKE i \in 1 .. n + 1
  <2>1. CASE i = n + 1
    BY <2>1, <1>4, <1>5
  <2>2. CASE i # n + 1
    <3>1. i \in 1 .. n
      BY <2>2, <1>3
    <3>2. Index(asked[i]) \in DOMAIN received
      BY <3>1, <1>1
    <3>3. received'[Index(asked[i])] = received[Index(asked[i])]
      BY <3>2
    <3> QED
      BY <3>1, <3>3, <1>1
  <2> QED
    BY <2>1, <2>2
<1>8. Fetched'
  BY <1>3, <1>6, <1>7 DEF Fetched, l
<1> QED
  BY <1>3, <1>8 DEF l

LEMMA ClientChunkKeeps ==
  ASSUME Inv, ClientChunk
  PROVE  Inv' /\ QueueSteps
<1>1. Link /\ ServerSide /\ ClientSide /\ OpenEnds /\ Requested /\ Conversation
  BY DEF Inv, SessionInv
<1>2. /\ cli = "chunks" /\ cli' = "chunks" /\ in["client"].stage = "frame"
      /\ in' = [in EXCEPT !["client"] = Idle]
      /\ UNCHANGED <<out, net, open, sent, got, manifest, srv, reply, plan, asked>>
      /\ awaited' = awaited - 1
  BY DEF ClientChunk, ClientGoes, Resume
<1>3. /\ Link' /\ QueueSteps
      /\ Coming("client")' = Tail(Coming("client")) /\ Coming("server")' = Coming("server")
      /\ in'["client"] = Idle /\ in'["server"] = in["server"]
  BY <1>1, <1>2, ClientTakes
<1>4. PICK file \in Range(manifest) :
        /\ Fetching(file) /\ Answering(file) /\ Len(Coming("client")) > 0
        /\ Incoming("client") = ChunkData(FileId(file), asked[Len(asked) - awaited + 1])
  BY <1>2, ClientHears
<1> DEFINE chunk == asked[Len(asked) - awaited + 1]
<1>5. received' = [i \in DOMAIN received \cup {Index(chunk)} |->
                     IF i \in DOMAIN received THEN received[i] ELSE Hash(chunk)]
  <2>1. /\ ChunkData(FileId(file), chunk).values[3] = Index(chunk)
        /\ ChunkData(FileId(file), chunk).values[6] = Hash(chunk)
    BY DEF ChunkData
  <2> HIDE DEF chunk
  <2>2. Incoming("client") = ChunkData(FileId(file), chunk)
    BY <1>4 DEF chunk
  <2>3. received' = [i \in DOMAIN received \cup {Incoming("client").values[3]} |->
                       IF i \in DOMAIN received THEN received[i] ELSE Incoming("client").values[6]]
    BY DEF ClientChunk
  <2> QED
    BY <2>1, <2>2, <2>3
<1>6. Fetched' /\ awaited' \in 0 .. Len(asked)
  <2>1. awaited > 0 /\ manifest \in Manifests
    BY <1>1, <1>4 DEF Answering, Requested
  <2>2. chunk = asked[Len(asked) - awaited + 1]
    OBVIOUS
  <2> HIDE DEF chunk
  <2> QED
    BY <1>2, <1>4, <1>5, <2>1, <2>2, FetchesOne
<1>7. ServerSide'
  BY <1>1, <1>2, <1>3 DEF ServerSide
<1>8. ClientSide'
  BY <1>1, <1>2, <1>3, IdleStage DEF ClientSide, ClientPlaces
<1>9. OpenEnds' /\ Requested'
  BY <1>1, <1>2 DEF OpenEnds, Requested
<1>10. Answered(file)' \/ Answering(file)'
  <2> DEFINE C == Coming("client")
             D == Tail(C)
             c == Len(C)
             l == Len(asked)
             k == Len(reply)
  <2>1. C \in Seq(FrameSet) /\ c \in Nat
    BY <1>1, TakenTyped, LenProperties DEF Ends
  <2>2. l \in Nat /\ k \in Nat /\ reply \in Seq(Messages(manifest)) /\ awaited \in Nat
    <3>1. asked \in Subsequences(Chunks(file)) /\ manifest \in Manifests /\ awaited \in 0 .. Len(asked)
      BY <1>1, <1>4 DEF Fetching, Requested
    <3>2. reply \in Seq(Messages(manifest))
      BY <1>4 DEF Answering
    <3> QED
      BY <3>1, <3>2, Chosen, LenProperties
  <2>3. /\ c + k = awaited /\ c > 0 /\ Coming("server") = <<>>
        /\ srv \in Listening \cup {"failed"} /\ (srv = "failed" => reply # <<>>)
        /\ \A i \in 1 .. c : C[i] = Frame(ChunkData(FileId(file), asked[l - awaited + i]))
        /\ \A i \in 1 .. k : reply[i] = ChunkData(FileId(file), asked[l - k + i])
    BY <1>4 DEF Answering
  <2> HIDE DEF C
  <2>4. D \in Seq(FrameSet) /\ Len(D) = c - 1 /\ \A i \in 1 .. c - 1 : D[i] = C[i + 1]
    <3>1. C # <<>>
      BY <2>3, NothingIsEmpty
    <3>2. Tail(C) \in Seq(FrameSet) /\ Len(Tail(C)) = Len(C) - 1
      BY <2>1, <3>1, HeadTailProperties
    <3>3. \A i \in 1 .. Len(Tail(C)) : Tail(C)[i] = C[i + 1]
      BY <2>1, <3>1, HeadTailProperties
    <3> QED
      BY <3>2, <3>3
  <2>5. Coming("client")' = D
    BY <1>3 DEF C
  <2> HIDE DEF D, c, k, l
  <2>6. CASE awaited' = 0
    <3>1. c = 1 /\ k = 0
      BY <2>1, <2>2, <2>3, <2>6, <1>2
    <3>2. Len(D) = 0 /\ Len(reply) = 0
      BY <3>1, <2>4 DEF k
    <3>3. D = <<>> /\ reply = <<>>
      BY <3>2, <2>2, <2>4, EmptySeq
    <3> QED
      BY <2>3, <2>5, <2>6, <3>3, <1>2, <1>3 DEF Answered, Quiet
  <2>7. CASE awaited' # 0
    <3>1. Len(D) + k = awaited' /\ awaited' > 0
      BY <2>1, <2>2, <2>3, <2>4, <2>7, <1>2
    <3>2. \A i \in 1 .. Len(D) : D[i] = Frame(ChunkData(FileId(file), asked[l - awaited' + i]))
      <4> TAKE i \in 1 .. Len(D)
      <4>1. i \in 1 .. c - 1 /\ i + 1 \in 1 .. c /\ l - awaited' + i = l - awaited + (i + 1)
        BY <2>1, <2>2, <2>4, <1>2
      <4>2. D[i] = C[i + 1] /\ C[i + 1] = Frame(ChunkData(FileId(file), asked[l - awaited + (i + 1)]))
        BY <4>1, <2>3, <2>4
      <4> QED
        BY <4>1, <4>2
    <3>3. Answering(file)'
      BY <1>2, <1>3, <2>2, <2>3, <2>5, <3>1, <3>2 DEF Answering, k, l
    <3> QED
      BY <3>3
  <2> QED
    BY <2>6, <2>7
<1>11. Fetching(file)'
  BY <1>2, <1>4, <1>6, <1>10 DEF Fetching
<1>12. Conversation'
  BY <1>2, <1>11 DEF Conversation
<1> QED
  BY <1>3, <1>7, <1>8, <1>9, <1>12 DEF Inv, SessionInv

LEMMA ClientRebuildKeeps ==
  ASSUME Inv, ClientRebuild
  PROVE  Inv' /\ QueueSteps
<1>1. Link /\ ServerSide /\ ClientSide /\ OpenEnds /\ Requested /\ Conversation
  BY DEF Inv, SessionInv
<1>2. /\ cli = "chunks" /\ cli' = "next" /\ awaited = 0 /\ in["client"] = Idle /\ out["client"] = <<>>
      /\ UNCHANGED <<out, net, in, open, sent, got, manifest, srv, reply, plan, asked, awaited, received>>
  BY DEF ClientRebuild, ClientAt, Ready, ClientGoes, connection
<1>3. /\ Link' /\ QueueSteps
      /\ Coming("server")' = Coming("server") /\ Coming("client")' = Coming("client")
  BY <1>1, <1>2, SameComing
<1>4. Quiet /\ srv \in Listening
  BY <1>1, <1>2 DEF Conversation, Fetching, Answered, Requesting, Answering
<1>5. ServerSide'
  BY <1>1, <1>2, <1>3 DEF ServerSide
<1>6. ClientSide'
  BY <1>2, IdleStage DEF ClientSide, ClientPlaces
<1>7. OpenEnds' /\ Requested'
  BY <1>1, <1>2 DEF OpenEnds, Requested
<1>8. Conversation'
  BY <1>2, <1>3, <1>4 DEF Conversation, Quiet
<1> QED
  BY <1>3, <1>5, <1>6, <1>7, <1>8 DEF Inv, SessionInv

\* The client closes its end between two frames, with nothing to write.
LEMMA ClientCloses ==
  ASSUME Link, in["client"] = Idle \/ in["client"].stage = "eof", Close("client")
  PROVE  /\ Link' /\ QueueSteps
         /\ Coming("client")' = Coming("client") /\ Coming("server")' = Coming("server")
         /\ in'["client"] = Idle /\ in'["server"] = in["server"]
         /\ open' = open \ {"client"} /\ out' = out
<1>1. /\ in' = [in EXCEPT !["client"] = Idle] /\ UNCHANGED <<out, net, sent, got>>
      /\ open' = open \ {"client"}
  BY DEF Close
<1>2. in["client"].stage \notin ReadStages /\ in["client"].stage # "frame"
  BY IdleStage
<1>3. Idle \in {Idle, Reading("type", WordSize, 0)}
  OBVIOUS
<1> QED
  BY <1>1, <1>2, <1>3, ClientBetween

LEMMA ClientRebuildFailsKeeps ==
  ASSUME Inv, ClientRebuildFails
  PROVE  Inv' /\ QueueSteps
<1>1. Link /\ ServerSide /\ ClientSide /\ OpenEnds /\ Requested /\ Conversation
  BY DEF Inv, SessionInv
<1>2. /\ cli = "chunks" /\ cli' = "aborted" /\ awaited = 0 /\ in["client"] = Idle /\ out["client"] = <<>>
      /\ Close("client")
      /\ UNCHANGED <<manifest, srv, reply, plan, asked, awaited, received>>
  BY DEF ClientRebuildFails, ClientAt, Ready, ClientGoes
<1>3. /\ Link' /\ QueueSteps
      /\ Coming("client")' = Coming("client") /\ Coming("server")' = Coming("server")
      /\ in'["client"] = Idle /\ in'["server"] = in["server"]
      /\ open' = open \ {"client"} /\ out' = out
  BY <1>1, <1>2, ClientCloses
<1>4. Quiet /\ srv \in Listening
  BY <1>1, <1>2 DEF Conversation, Fetching, Answered, Requesting, Answering
<1>5. ServerSide'
  BY <1>1, <1>2, <1>3 DEF ServerSide
<1>6. ClientSide'
  BY <1>2, <1>3, IdleStage DEF ClientSide, ClientPlaces
<1>7. OpenEnds' /\ Requested'
  BY <1>1, <1>2, <1>3 DEF OpenEnds, Requested
<1>8. Conversation'
  BY <1>2, <1>3, <1>4 DEF Conversation, Quiet
<1> QED
  BY <1>3, <1>5, <1>6, <1>7, <1>8 DEF Inv, SessionInv

\* Only the end of a server that could not read its source ends a Receive
\* of the client.
LEMMA ClientReceiveFailsKeeps ==
  ASSUME Inv, ClientReceiveFails
  PROVE  Inv' /\ QueueSteps
<1>1. Link /\ ServerSide /\ ClientSide /\ OpenEnds /\ Requested /\ Conversation
  BY DEF Inv, SessionInv
<1>2. /\ cli \in {"hello", "manifest", "chunks"} /\ cli' = "failed"
      /\ Close("client")
      /\ UNCHANGED <<manifest, srv, reply, plan, asked, awaited, received>>
  BY DEF ClientReceiveFails, ClientGoes
<1>3. in["client"].stage = "eof"
  <2>1. in["client"].stage \in {"eof", "frame"}
        /\ (in["client"].stage = "frame" =>
              Incoming("client").type # IF cli = "chunks" THEN "chunk" ELSE cli)
    BY DEF ClientReceiveFails
  <2>2. ASSUME in["client"].stage = "frame" PROVE FALSE
    <3>1. CASE cli = "hello"
      BY <2>1, <2>2, <3>1, ClientHears DEF Hello
    <3>2. CASE cli = "manifest"
      BY <2>1, <2>2, <3>2, ClientHears DEF Announcement
    <3>3. CASE cli = "chunks"
      <4>1. PICK file \in Range(manifest) :
              Incoming("client") = ChunkData(FileId(file), asked[Len(asked) - awaited + 1])
        BY <2>2, <3>3, ClientHears
      <4>2. Incoming("client").type = "chunk"
        BY <4>1 DEF ChunkData
      <4> QED
        BY <2>1, <2>2, <3>3, <4>2
    <3> QED
      BY <1>2, <3>1, <3>2, <3>3
  <2> QED
    BY <2>1, <2>2
<1>4. /\ Link' /\ QueueSteps
      /\ Coming("client")' = Coming("client") /\ Coming("server")' = Coming("server")
      /\ in'["client"] = Idle /\ in'["server"] = in["server"]
      /\ open' = open \ {"client"} /\ out' = out
  BY <1>1, <1>2, <1>3, ClientCloses
<1>5. "server" \notin open /\ Coming("client") = <<>>
  BY <1>1, <1>3 DEF ClientSide
<1>6. srv = "failed" /\ Coming("server") = <<>>
  <2>1. srv \in {"acked", "failed", "closed"}
    BY <1>1, <1>2, <1>5 DEF OpenEnds
  <2>2. cli = "chunks"
    BY <1>1, <1>2, <2>1 DEF Conversation
  <2>3. PICK file \in Range(manifest) : Fetching(file)
    BY <1>1, <2>2 DEF Conversation
  <2> QED
    BY <2>1, <2>3 DEF Fetching, Answered, Requesting, Answering, Listening
<1>7. out["client"] = <<>>
  BY <1>1, <1>3, IdleStage DEF ClientSide
<1>8. ServerSide'
  BY <1>1, <1>2, <1>4, <1>6 DEF ServerSide
<1>9. ClientSide'
  BY <1>2, <1>4, <1>7, IdleStage DEF ClientSide, ClientPlaces
<1>10. OpenEnds' /\ Requested'
  BY <1>1, <1>2, <1>4, <1>6 DEF OpenEnds, Requested
<1>11. Conversation'
  BY <1>2, <1>4, <1>5, <1>6 DEF Conversation
<1> QED
  BY <1>4, <1>8, <1>9, <1>10, <1>11 DEF Inv, SessionInv

LEMMA ClientAckKeeps ==
  ASSUME Inv, ClientAck
  PROVE  Inv' /\ QueueSteps
<1>1. Link /\ ServerSide /\ ClientSide /\ OpenEnds /\ Requested /\ Conversation
  BY DEF Inv, SessionInv
<1>2. /\ cli = "next" /\ cli' = "acked" /\ in["client"] = Idle /\ out["client"] = <<>>
      /\ Send("client", Ack)
      /\ UNCHANGED <<manifest, srv, reply, plan, asked, awaited, received>>
  BY DEF ClientAck, ClientAt, Ready, ClientGoes
<1>3. Frame(Ack) \in FrameSet
  BY <1>1, Kinds, FrameTyped DEF Requested
<1>4. /\ Link' /\ QueueSteps
      /\ Coming("client")' = Coming("client")
      /\ Coming("server")' = Append(Coming("server"), Frame(Ack))
      /\ in' = in /\ open' = open /\ out'["server"] = out["server"]
  BY <1>1, <1>2, <1>3, ClientSend
<1>5. Quiet /\ srv \in Listening /\ "client" \in open
  BY <1>1, <1>2 DEF Conversation, OpenEnds
<1>6. ServerSide'
  BY <1>1, <1>2, <1>4, <1>5 DEF ServerSide
<1>7. ClientSide'
  BY <1>2, <1>4, IdleStage DEF ClientSide, ClientPlaces
<1>8. OpenEnds' /\ Requested'
  BY <1>1, <1>2, <1>4 DEF OpenEnds, Requested
<1>9. Conversation'
  <2>1. Coming("server")' = <<Frame(Ack)>>
    BY <1>4, <1>5, Few DEF Quiet
  <2> QED
    BY <1>2, <1>4, <1>5, <2>1 DEF Conversation, Quiet
<1> QED
  BY <1>4, <1>6, <1>7, <1>8, <1>9 DEF Inv, SessionInv

LEMMA ClientDoneKeeps ==
  ASSUME Inv, ClientDone
  PROVE  Inv' /\ QueueSteps
<1>1. Link /\ ServerSide /\ ClientSide /\ OpenEnds /\ Requested /\ Conversation
  BY DEF Inv, SessionInv
<1>2. /\ cli = "acked" /\ cli' = "done" /\ in["client"] = Idle /\ out["client"] = <<>>
      /\ Close("client")
      /\ UNCHANGED <<manifest, srv, reply, plan, asked, awaited, received>>
  BY DEF ClientDone, ClientAt, Ready, ClientGoes
<1>3. /\ Link' /\ QueueSteps
      /\ Coming("client")' = Coming("client") /\ Coming("server")' = Coming("server")
      /\ in'["client"] = Idle /\ in'["server"] = in["server"]
      /\ open' = open \ {"client"} /\ out' = out
  BY <1>1, <1>2, ClientCloses
<1>4. ServerSide'
  BY <1>1, <1>2, <1>3 DEF ServerSide
<1>5. ClientSide'
  BY <1>2, <1>3, IdleStage DEF ClientSide, ClientPlaces
<1>6. OpenEnds' /\ Requested'
  BY <1>1, <1>2, <1>3 DEF OpenEnds, Requested
<1>7. Conversation'
  BY <1>1, <1>2, <1>3 DEF Conversation
<1> QED
  BY <1>3, <1>4, <1>5, <1>6, <1>7 DEF Inv, SessionInv

LEMMA ClientKeeps ==
  ASSUME Inv, RunClient
  PROVE  Inv' /\ QueueSteps
<1>1. CASE ClientConnect
  BY <1>1, ClientConnectKeeps
<1>2. CASE ClientRetry
  BY <1>2, ClientRetryKeeps
<1>3. CASE ClientReceive
  BY <1>3, ClientReceiveKeeps
<1>4. CASE ClientHello
  BY <1>4, ClientHelloKeeps
<1>5. CASE ClientManifest
  BY <1>5, ClientManifestKeeps
<1>6. CASE ClientRequest
  BY <1>6, ClientRequestKeeps
<1>7. CASE ClientChunk
  BY <1>7, ClientChunkKeeps
<1>8. CASE ClientRebuild
  BY <1>8, ClientRebuildKeeps
<1>9. CASE ClientRebuildFails
  BY <1>9, ClientRebuildFailsKeeps
<1>10. CASE ClientReceiveFails
  BY <1>10, ClientReceiveFailsKeeps
<1>11. CASE ClientAck
  BY <1>11, ClientAckKeeps
<1>12. CASE ClientDone
  BY <1>12, ClientDoneKeeps
<1>13. CASE IO("client") /\ UNCHANGED session
  BY <1>13, IOKeeps DEF Ends
<1> QED
  BY <1>1, <1>2, <1>3, <1>4, <1>5, <1>6, <1>7, <1>8, <1>9, <1>10, <1>11, <1>12, <1>13 DEF RunClient

LEMMA NextKeeps ==
  ASSUME Inv, [Next]_vars
  PROVE  Inv' /\ QueueSteps
<1>1. CASE RunServer
  BY <1>1, ServerKeeps
<1>2. CASE RunClient
  BY <1>2, ClientKeeps
<1>3. CASE KillHungRun
  BY <1>3, KillKeeps
<1>4. CASE UNCHANGED vars
  <2>1. UNCHANGED <<out, net, in, open, sent, got, session>>
    BY <1>4 DEF vars, connection
  <2>2. /\ Link /\ ServerSide /\ ClientSide /\ OpenEnds /\ Requested /\ Conversation
    BY DEF Inv, SessionInv
  <2>3. /\ Link' /\ QueueSteps
        /\ Coming("server")' = Coming("server") /\ Coming("client")' = Coming("client")
    BY <2>1, <2>2, SameComing
  <2>4. Conversation'
    BY <2>1, <2>2, <2>3, ConversationSame
  <2>5. ServerSide' /\ ClientSide'
    BY <2>1, <2>2, <2>3 DEF session, ServerSide, ClientSide
  <2>6. OpenEnds' /\ Requested'
    BY <2>1, <2>2 DEF session, OpenEnds, Requested
  <2> QED
    BY <2>3, <2>4, <2>5, <2>6 DEF Inv, SessionInv
<1> QED
  BY <1>1, <1>2, <1>3, <1>4 DEF Next

\* In every state the bytes in the connection are those of the frames that are
\* on their way (transport.cpp:18-64), and these are the ones that RunServer
\* and RunClient (main.cpp:119-307) expect where they are.
THEOREM SessionInvariant == Spec => []Inv
<1>1. Inv /\ [Next]_vars => Inv'
  BY NextKeeps
<1> QED
  BY <1>1, Init0, PTL DEF Spec

\* When RunClient has read a frame for each chunk it asked for, it has the
\* bytes of each of them, and they are those the manifest announces.
THEOREM AskedReceived == Spec => []ChunksAsAsked
<1>1. Inv => ChunksAsAsked
  <2> SUFFICES ASSUME Inv, cli = "chunks", awaited = 0, NEW chunk \in Range(asked)
               PROVE  /\ \E file \in Range(manifest) : chunk \in Range(Chunks(file))
                      /\ Index(chunk) \in DOMAIN received /\ received[Index(chunk)] = Hash(chunk)
    BY DEF ChunksAsAsked
  <2>1. Requested /\ Conversation
    BY DEF Inv, SessionInv
  <2>2. PICK file \in Range(manifest) : Fetching(file)
    BY <2>1 DEF Conversation
  <2>3. asked \in Subsequences(Chunks(file)) /\ manifest \in Manifests /\ Fetched
    BY <2>1, <2>2 DEF Requested, Fetching
  <2>4. Len(asked) \in Nat /\ DOMAIN asked = 1 .. Len(asked)
        /\ \A i \in 1 .. Len(asked) : asked[i] \in Range(Chunks(file))
    BY <2>3, Chosen
  <2>5. PICK i \in 1 .. Len(asked) : chunk = asked[i]
    BY <2>4 DEF Range
  <2>6. Len(asked) - awaited = Len(asked)
    BY <2>4
  <2>7. Index(asked[i]) \in DOMAIN received /\ received[Index(asked[i])] = Hash(asked[i])
    BY <2>3, <2>5, <2>6 DEF Fetched
  <2> QED
    BY <2>4, <2>5, <2>7
<1> QED
  BY <1>1, SessionInvariant, PTL

\* No thread ever writes to a connection that the other has closed, so that no
\* signal ends the process (transport.cpp:22), or closes one with bytes in it.
THEOREM ClosedIsDrained == Spec => []NothingForTheClosed
<1>1. Inv => NothingForTheClosed
  <2> SUFFICES ASSUME Inv, NEW e \in Ends, e \notin open
               PROVE  out[Peer(e)] = <<>> /\ net[Peer(e)] = <<>>
    BY DEF NothingForTheClosed
  <2>1. Link /\ ServerSide /\ ClientSide /\ OpenEnds /\ Conversation
    BY DEF Inv, SessionInv
  <2>2. ASSUME "server" \notin open PROVE Coming("server") = <<>>
    <3>1. CASE cli \in {"connect", "refused"}
      BY <2>1, <3>1 DEF Conversation, Quiet
    <3>2. CASE cli = "chunks"
      <4>1. PICK file \in Range(manifest) : Fetching(file)
        BY <2>1, <3>2 DEF Conversation
      <4>2. srv \notin Listening
        BY <2>1, <2>2, <3>2 DEF OpenEnds, Listening
      <4> QED
        BY <4>1, <4>2 DEF Fetching, Answered, Requesting, Answering
    <3>3. CASE cli \notin {"connect", "refused", "chunks"}
      <4>1. srv \in {"acked", "failed", "closed"}
        BY <2>1, <2>2, <3>3 DEF OpenEnds
      <4> QED
        BY <2>1, <3>3, <4>1 DEF Conversation, Quiet, Listening, ClientSide, ClientPlaces
    <3> QED
      BY <3>1, <3>2, <3>3
  <2>3. ASSUME "client" \notin open PROVE Coming("client") = <<>>
    BY <2>1, <2>3 DEF OpenEnds, Conversation, Quiet
  <2>4. Coming(e) = <<>>
    BY <2>2, <2>3 DEF Ends
  <2> QED
    BY <2>1, <2>4, ComingDrained
<1> QED
  BY <1>1, SessionInvariant, PTL

\* How RunServer and RunClient have ended agrees: every frame is understood,
\* and a connected client fails only with a server that could not read.
THEOREM AgreedOutcomes == Spec => []OutcomesAgree
<1>1. Inv => OutcomesAgree
  <2> SUFFICES ASSUME Inv PROVE OutcomesAgree
    OBVIOUS
  <2>1. ServerSide /\ ClientSide /\ Conversation
    BY DEF Inv, SessionInv
  <2>2. srv # "thrown" /\ (cli = "failed" => srv = "failed")
    BY <2>1 DEF ServerSide, ServerPlaces, Conversation
  <2>3. cli = "chunks" => srv \in Listening \cup {"failed"}
    BY <2>1 DEF Conversation, Fetching, Answered, Requesting, Answering
  <2>4. srv = "closed" => cli \in {"aborted", "refused"}
    BY <2>1, <2>3 DEF ClientSide, ClientPlaces, Conversation, Listening
  <2>5. srv = "acked" => cli \in {"acked", "done"}
    BY <2>1, <2>3 DEF ClientSide, ClientPlaces, Conversation, Listening
  <2> QED
    BY <2>2, <2>4, <2>5 DEF OutcomesAgree
<1> QED
  BY <1>1, SessionInvariant, PTL

LEMMA PushedPrefix ==
  ASSUME NEW s \in Seq(FrameSet), NEW f \in FrameSet
  PROVE  Len(Append(s, f)) = Len(s) + 1 /\ Down!IsPrefix(s, Append(s, f)) /\ Up!IsPrefix(s, Append(s, f))
<1> DEFINE t == Append(s, f)
           l == Len(s)
<1>1. t \in Seq(FrameSet)
  BY AppendProperties
<1>2. Len(t) = l + 1 /\ l \in Nat
  BY AppendProperties, LenProperties
<1>3. \A i \in 1 .. l : t[i] = s[i]
  BY AppendProperties
<1> HIDE DEF t
<1>4. SubSeq(s, 1, l) \in Seq(FrameSet) /\ Len(SubSeq(s, 1, l)) = l
      /\ \A i \in 1 .. l : SubSeq(s, 1, l)[i] = s[i]
  BY <1>2, SubSeqFull
<1>5. SubSeq(t, 1, l) \in Seq(FrameSet) /\ Len(SubSeq(t, 1, l)) = l
      /\ \A i \in 1 .. l : SubSeq(t, 1, l)[i] = t[i]
  BY <1>1, <1>2, SubSeqProperties
<1>6. SubSeq(s, 1, l) = SubSeq(t, 1, l)
  BY <1>3, <1>4, <1>5, SeqEqual
<1>7. l <= Len(t)
  BY <1>2
<1> QED
  BY <1>2, <1>6, <1>7 DEF Down!IsPrefix, Up!IsPrefix, t

\* Each direction of the connection implements the queue of frames of the
\* in-memory transport: partial writes and reads (transport.cpp:18-44) never
\* tear, repeat or reorder a frame.
THEOREM FramesInOrder == Spec => ImplementsFrameQueues
<1>1. Init => Down!Init /\ Up!Init
  BY DEF Init, Connection, Ends, Down!Init, Up!Init
<1>2. Inv /\ [Next]_vars => [Down!Next]_(Down!vars) /\ [Up!Next]_(Up!vars)
  <2> SUFFICES ASSUME Inv, [Next]_vars
               PROVE  [Down!Next]_(Down!vars) /\ [Up!Next]_(Up!vars)
    OBVIOUS
  <2>1. /\ QueueStep(sent["server"], got["client"], sent'["server"], got'["client"])
        /\ QueueStep(sent["client"], got["server"], sent'["client"], got'["server"])
    BY NextKeeps DEF QueueSteps
  <2>2. sent["server"] \in Seq(FrameSet) /\ sent["client"] \in Seq(FrameSet)
    BY LinkWires DEF Inv, Ends
  <2>3. [Down!Next]_(Down!vars)
    <3> DEFINE s == sent["server"]
               g == got["client"]
    <3>1. CASE s' = s /\ g' = g
      BY <3>1 DEF Down!vars
    <3>2. ASSUME g' = g, NEW f \in FrameSet, s' = Append(s, f)
          PROVE  Down!Push
      <4>1. Len(Append(s, f)) = Len(s) + 1 /\ Down!IsPrefix(s, Append(s, f))
        BY <2>2, PushedPrefix
      <4>2. Len(s') = Len(s) + 1 /\ Down!IsPrefix(s, s')
        BY <3>2, <4>1
      <4> QED
        BY <3>2, <4>2 DEF Down!Push
    <3>3. ASSUME s' = s, Len(g) < Len(s), g' = Append(g, s[Len(g) + 1])
          PROVE  Down!Pop
      BY <3>3 DEF Down!Pop
    <3> QED
      BY <2>1, <3>1, <3>2, <3>3 DEF QueueStep, Down!Next
  <2>4. [Up!Next]_(Up!vars)
    <3> DEFINE s == sent["client"]
               g == got["server"]
    <3>1. CASE s' = s /\ g' = g
      BY <3>1 DEF Up!vars
    <3>2. ASSUME g' = g, NEW f \in FrameSet, s' = Append(s, f)
          PROVE  Up!Push
      <4>1. Len(Append(s, f)) = Len(s) + 1 /\ Up!IsPrefix(s, Append(s, f))
        BY <2>2, PushedPrefix
      <4>2. Len(s') = Len(s) + 1 /\ Up!IsPrefix(s, s')
        BY <3>2, <4>1
      <4> QED
        BY <3>2, <4>2 DEF Up!Push
    <3>3. ASSUME s' = s, Len(g) < Len(s), g' = Append(g, s[Len(g) + 1])
          PROVE  Up!Pop
      BY <3>3 DEF Up!Pop
    <3> QED
      BY <2>1, <3>1, <3>2, <3>3 DEF QueueStep, Up!Next
  <2> QED
    BY <2>3, <2>4
<1> QED
  BY <1>1, <1>2, SessionInvariant, PTL DEF Spec, ImplementsFrameQueues, Down!Spec, Up!Spec
=============================================================================
