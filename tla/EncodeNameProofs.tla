-------------------------- MODULE EncodeNameProofs --------------------------
(***************************************************************************)
(* Proofs about EncodeName, for any strings and buffers of any size: the   *)
(* encoder reads no byte behind the end of the string, and writes none     *)
(* behind the buffer but the terminator of an escape; what it writes is    *)
(* the reference, and can be read back.                                    *)
(*                                                                         *)
(* The reference and the decoder are recursive functions.  What such a     *)
(* function says of any string is proved without induction over an         *)
(* operator: a set of numbers that holds 0 and all successors is Nat       *)
(* (SetInduction), and a function that goes on from the end of a sequence  *)
(* exists and is the only one (FromTheEnd, OneFromTheEnd).  A step of the  *)
(* encoder and of the decoder then only has to be compared with the next   *)
(* part of that function.                                                  *)
(***************************************************************************)
EXTENDS EncodeName, SequenceTheorems, WellFoundedInduction, TLAPS

(* The inductive invariant: j never counts the terminator that sprintf(3)  *)
(* leaves, which the next write goes over or a failure leaves behind.      *)
EncodeInv ==
    /\ gpl \in BOOLEAN /\ str \in Seq(1..255) /\ len \in Nat
    /\ i \in 0..Len(str) /\ j \in 0..len /\ buf \in Seq(Int)
    /\ IF gpl THEN Len(buf) \in {j, j + 1} ELSE Len(buf) <= len
    /\ pc = "done" /\ ret = 0 => Len(buf) <= len
    /\ pc = "encode" => ret = 0
    /\ pc \in {"encode", "done"} /\ ret \in {0, EINVAL}

(* A byte of the string, or its terminator.                                *)
LEMMA AtType ==
    ASSUME EncodeInv, NEW k \in Nat
    PROVE  At(k) \in 0..255 /\ (At(k) # 0 => k < Len(str))
<1>1. Len(str) \in Nat /\ \A m \in 1..Len(str) : str[m] \in 1..255
  BY LenProperties DEF EncodeInv
<1>2. CASE k < Len(str)
  <2>1. k + 1 \in 1..Len(str) /\ At(k) = str[k + 1]
    BY <1>1, <1>2 DEF At
  <2> QED BY <1>1, <1>2, <2>1
<1>3. CASE ~(k < Len(str))
  BY <1>3 DEF At
<1> QED BY <1>2, <1>3

(* A piece of the string is made of bytes, and as long as it is asked for. *)
LEMMA PieceType ==
    ASSUME EncodeInv, NEW a \in 1..Len(str) + 1, NEW b \in a - 1..Len(str)
    PROVE  /\ SubSeq(str, a, b) \in Seq(Int)
           /\ Len(SubSeq(str, a, b)) = b - a + 1
<1>1. str \in Seq(Int) /\ Len(str) \in Nat
  <2>1. 1..255 \subseteq Int
    OBVIOUS
  <2> QED BY <2>1, LenProperties, SeqMonotonic, ZenonT(30) DEF EncodeInv
<1>2. a \in Int /\ b \in Int /\ a >= 1 /\ b <= Len(str) /\ a - 1 <= b
  BY <1>1
<1> QED BY <1>1, <1>2

(* A character of more than one byte ends within the string: the null byte *)
(* behind it is no part of one.                                            *)
LEMMA CharacterInside ==
    ASSUME EncodeInv, NEW k \in 0..Len(str), ValidUnichar(k) > 1
    PROVE  ValidUnichar(k) \in 2..6 /\ k + ValidUnichar(k) <= Len(str)
<1> DEFINE n == ExpectedLen(At(k))
<1>1. Len(str) \in Nat /\ k \in Nat
  BY LenProperties DEF EncodeInv
<1>2. n \in 0..6
  BY <1>1, AtType DEF ExpectedLen
<1>3. /\ ValidUnichar(k) = n /\ n # 1
      /\ n # 0 /\ \A m \in 0..n - 1 : At(k + m) >= 128
  BY <1>2 DEF ValidUnichar, EINVAL
<1> HIDE DEF n
<1>4. At(k + (n - 1)) >= 128
  <2>1. n - 1 \in 0..n - 1
    BY <1>2, <1>3
  <2>2. \A m \in 0..n - 1 : At(k + m) >= 128
    BY <1>3
  <2> QED BY <2>1, <2>2
<1>5. k + (n - 1) < Len(str)
  BY <1>1, <1>2, <1>3, <1>4, AtType
<1> QED BY <1>1, <1>2, <1>3, <1>5

(* What is written goes over what is in the buffer from j on.              *)
LEMMA WriteLength ==
    ASSUME EncodeInv, gpl, NEW bytes \in Seq(Int), Write(bytes)
    PROVE  buf' \in Seq(Int) /\ Len(buf') = j + Len(bytes)
<1>1. j \in 0..Len(buf) /\ Len(buf) \in Nat
  BY LenProperties DEF EncodeInv
<1>2. SubSeq(buf, 1, j) \in Seq(Int) /\ Len(SubSeq(buf, 1, j)) = j
  BY <1>1 DEF EncodeInv
<1> QED BY <1>2 DEF Write

(* Each step keeps to the buffer.                                          *)
LEMMA EncodeStep == EncodeInv /\ [Next]_vars => EncodeInv'
<1> SUFFICES ASSUME EncodeInv, [Next]_vars PROVE EncodeInv'
  OBVIOUS
<1>1. Len(str) \in Nat /\ Len(buf) \in Nat /\ EINVAL \in Int /\ EINVAL # 0
  BY LenProperties DEF EncodeInv, EINVAL
<1>at. At(i) \in Int
  <2>1. i \in Nat
    BY <1>1 DEF EncodeInv
  <2>2. At(i) \in 0..255
    BY <2>1, AtType
  <2> QED BY <2>2
<1>2. CASE Fail
  BY <1>1, <1>2 DEF Fail, EncodeInv, input
<1>3. ASSUME Copy, ~Fail PROVE EncodeInv'
  <2> DEFINE n == ValidUnichar(i)
  <2>1. n > 1 /\ ~(len - j < n)
    BY <1>3 DEF Copy
  <2>2. n \in 2..6 /\ i + n <= Len(str)
    BY <2>1, CharacterInside DEF EncodeInv
  <2> HIDE DEF n
  <2>3. /\ UNCHANGED <<input, ret, pc>> /\ gpl /\ pc = "encode"
        /\ i' = i + n /\ j' = j + n /\ Write(SubSeq(str, i + 1, i + n))
    BY <1>3 DEF Copy, More, n
  <2>4. /\ SubSeq(str, i + 1, i + n) \in Seq(Int)
        /\ Len(SubSeq(str, i + 1, i + n)) = n
    <3>1. i + 1 \in 1..Len(str) + 1 /\ i + n \in (i + 1) - 1..Len(str)
      BY <1>1, <2>2 DEF EncodeInv
    <3>2. (i + n) - (i + 1) + 1 = n
      BY <2>2 DEF EncodeInv
    <3> QED BY <3>1, <3>2, PieceType
  <2>5. buf' \in Seq(Int) /\ Len(buf') = j + n
    BY <2>3, <2>4, WriteLength
  <2> QED BY <1>1, <2>1, <2>2, <2>3, <2>5 DEF EncodeInv, input
<1>4. ASSUME Escape, ~Fail PROVE EncodeInv'
  <2> DEFINE bytes ==
          <<Backslash, 120, Hex(At(i) \div 16), Hex(At(i) % 16), 0>>
  <2>1. /\ UNCHANGED <<input, ret, pc>> /\ gpl /\ pc = "encode"
        /\ i' = i + 1 /\ j' = j + 4 /\ Write(bytes)
        /\ i < Len(str) /\ ~(len - j < 4)
    BY <1>4 DEF Escape, More
  <2>2. bytes \in Seq(Int) /\ Len(bytes) = 5
    <3>1. At(i) \div 16 \in Int /\ At(i) % 16 \in Int
      BY <1>at
    <3>2. Hex(At(i) \div 16) \in Int /\ Hex(At(i) % 16) \in Int
      BY <3>1 DEF Hex
    <3> QED BY <3>2 DEF Backslash
  <2> HIDE DEF bytes
  <2>3. buf' \in Seq(Int) /\ Len(buf') = j + 5
    BY <2>1, <2>2, WriteLength
  <2> QED BY <1>1, <2>1, <2>3 DEF EncodeInv, input
<1>5. ASSUME Keep, ~Fail PROVE EncodeInv'
  <2>1. /\ UNCHANGED <<input, ret, pc>> /\ gpl /\ pc = "encode"
        /\ i' = i + 1 /\ j' = j + 1 /\ Write(<<At(i)>>)
        /\ i < Len(str) /\ ~(len - j < 1)
    BY <1>5 DEF Keep, More
  <2>2. <<At(i)>> \in Seq(Int) /\ Len(<<At(i)>>) = 1
    BY <1>at
  <2>3. buf' \in Seq(Int) /\ Len(buf') = j + 1
    BY <2>1, <2>2, WriteLength
  <2> QED BY <1>1, <2>1, <2>3 DEF EncodeInv, input
<1>6. ASSUME Terminate, ~Fail PROVE EncodeInv'
  <2>1. /\ UNCHANGED <<input, i, j>> /\ gpl /\ Write(<<0>>)
        /\ ret' = 0 /\ pc' = "done" /\ ~(len - j < 1)
    BY <1>6 DEF Terminate
  <2>2. <<0>> \in Seq(Int) /\ Len(<<0>>) = 1
    OBVIOUS
  <2>3. buf' \in Seq(Int) /\ Len(buf') = j + 1
    BY <2>1, <2>2, WriteLength
  <2> QED BY <1>1, <2>1, <2>3 DEF EncodeInv, input
<1>7. CASE Strlcpy
  <2>1. /\ UNCHANGED <<input, i, j>> /\ ~gpl /\ pc' = "done"
        /\ ret' \in {0, EINVAL}
    BY <1>7 DEF Strlcpy
  <2>2. buf' \in Seq(Int) /\ Len(buf') <= len
    <3>1. CASE len = 0
      BY <1>7, <3>1 DEF Strlcpy
    <3>2. CASE len # 0
      <4> DEFINE m == Min({Len(str), len - 1})
      <4>1. buf' = Append(SubSeq(str, 1, m), 0)
        BY <1>7, <3>2 DEF Strlcpy
      <4>2. m \in 0..Len(str) /\ m <= len - 1
        <5>1. len - 1 \in Nat
          BY <3>2 DEF EncodeInv
        <5>2. \E x \in {Len(str), len - 1} :
                  \A y \in {Len(str), len - 1} : x <= y
          BY <1>1, <5>1
        <5>3. m \in {Len(str), len - 1} /\ m <= Len(str) /\ m <= len - 1
          BY <5>2 DEF Min
        <5> QED BY <1>1, <5>1, <5>3
      <4> HIDE DEF m
      <4>3. SubSeq(str, 1, m) \in Seq(Int) /\ Len(SubSeq(str, 1, m)) = m
        <5>1. 1 \in 1..Len(str) + 1 /\ m \in 1 - 1..Len(str) /\ m - 1 + 1 = m
          BY <1>1, <4>2
        <5> QED BY <5>1, PieceType
      <4> QED BY <1>1, <4>1, <4>2, <4>3 DEF EncodeInv
    <3> QED BY <3>1, <3>2
  <2> QED BY <1>1, <2>1, <2>2 DEF EncodeInv, input
<1>8. CASE UNCHANGED vars
  BY <1>8 DEF vars, input, EncodeInv
<1> QED BY <1>2, <1>3, <1>4, <1>5, <1>6, <1>7, <1>8 DEF Next

(* In every reachable state the encoder is within the string, and its      *)
(* count within the buffer.                                                *)
THEOREM EncodeSafe == Spec => []EncodeInv
<1>1. Init => EncodeInv
  BY EncodeAssumption, EmptySeq DEF Init, EncodeInv
<1> QED BY <1>1, EncodeStep, PTL DEF Spec

(* The encoder writes one byte behind the buffer at most, where an escape  *)
(* just fits, and then fails.                                              *)
THEOREM KeepsToBuffer == Spec => []StaysInBuffer
<1>1. EncodeInv => StaysInBuffer
  <2> SUFFICES ASSUME EncodeInv PROVE StaysInBuffer
    OBVIOUS
  <2>1. Len(buf) \in Nat
    BY LenProperties DEF EncodeInv
  <2> QED BY <2>1 DEF EncodeInv, StaysInBuffer, EINVAL
<1> QED BY <1>1, EncodeSafe, PTL

-----------------------------------------------------------------------------
(* Functions that are defined from the end of a sequence on.               *)

(* A set of natural numbers has a least one.                               *)
LEMMA LeastNatural ==
    ASSUME NEW T, T \subseteq Nat, T # {}
    PROVE  \E n \in T : \A m \in T : n <= m
<1> DEFINE R == OpToRel(<, Nat)
<1>1. IsWellFoundedOn(R, Nat)
  BY NatLessThanWellFounded, Zenon
<1>2. ASSUME NEW m \in Nat, NEW n \in Nat, m < n PROVE <<m, n>> \in R
  BY <1>2 DEF OpToRel
<1> HIDE DEF R
<1>3. PICK n \in T : \A m \in T : ~(<<m, n>> \in R)
  BY <1>1, WFMin
<1>4. ASSUME NEW m \in T PROVE n <= m
  <2>1. m \in Nat /\ n \in Nat /\ ~(m < n)
    BY <1>2, <1>3
  <2> QED BY <2>1
<1> QED BY <1>4

(* Induction over the natural numbers, for a set of them.                  *)
LEMMA SetInduction ==
    ASSUME NEW T, 0 \in T, \A n \in Nat : n \in T => n + 1 \in T
    PROVE  Nat \subseteq T
<1> DEFINE B == Nat \ T
<1> SUFFICES ASSUME B # {} PROVE FALSE
  OBVIOUS
<1>1. PICK n \in B : \A m \in B : n <= m
  BY LeastNatural
<1>2. n # 0 /\ n - 1 \in Nat /\ n - 1 \notin B
  BY <1>1
<1> QED BY <1>1, <1>2

(* r says what comes of the places from k on: what comes of the step[k]    *)
(* places there, and then what comes of the others.                        *)
Continues(r, low, N, chunk, step) ==
    /\ r[N] = <<>>
    /\ \A k \in low..N - 1 : r[k] = chunk[k] \o r[k + step[k]]

Steps(N, chunk, step) ==
    \A k \in 0..N - 1 : /\ step[k] \in Nat \ {0} /\ k + step[k] <= N
                        /\ chunk[k] \in Seq(Int)

(* There is such a function,                                               *)
LEMMA FromTheEnd ==
    ASSUME NEW N \in Nat, NEW chunk, NEW step, Steps(N, chunk, step)
    PROVE  \E r \in [0..N -> Seq(Int)] : Continues(r, 0, N, chunk, step)
<1> DEFINE Can(m) == \E g \in [N - m..N -> Seq(Int)] :
                         Continues(g, N - m, N, chunk, step)
           T == {m \in Nat : m <= N => Can(m)}
<1>1. 0 \in T
  <2> DEFINE g == [k \in N - 0..N |-> <<>>]
  <2>1. g \in [N - 0..N -> Seq(Int)] /\ g[N] = <<>> /\ N - 0..N - 1 = {}
    <3>1. <<>> \in Seq(Int)
      OBVIOUS
    <3> QED BY <3>1
  <2> HIDE DEF g
  <2>2. Continues(g, N - 0, N, chunk, step)
    BY <2>1 DEF Continues
  <2> QED BY <2>1, <2>2
<1>2. ASSUME NEW m \in Nat, m \in T PROVE m + 1 \in T
  <2> SUFFICES ASSUME m + 1 <= N PROVE Can(m + 1)
    OBVIOUS
  <2> DEFINE low == N - (m + 1)
  <2>1. low \in 0..N - 1 /\ N - m = low + 1
    OBVIOUS
  <2> HIDE DEF low
  <2>2. PICK g \in [low + 1..N -> Seq(Int)] : Continues(g, low + 1, N, chunk, step)
    BY <1>2, <2>1
  <2>3. low + step[low] \in low + 1..N /\ chunk[low] \in Seq(Int)
    BY <2>1 DEF Steps
  <2> DEFINE v == chunk[low] \o g[low + step[low]]
             h == [k \in low..N |-> IF k = low THEN v ELSE g[k]]
  <2>4. v \in Seq(Int)
    BY <2>3
  <2> HIDE DEF v
  <2>5. h \in [low..N -> Seq(Int)] /\ h[low] = v
        /\ \A k \in low + 1..N : h[k] = g[k]
    BY <2>1, <2>4
  <2> HIDE DEF h
  <2>6. ASSUME NEW k \in low..N - 1 PROVE h[k] = chunk[k] \o h[k + step[k]]
    <3>1. k \in 0..N - 1
      BY <2>1
    <3>2. k + step[k] \in low + 1..N
      BY <2>1, <3>1 DEF Steps
    <3>3. CASE k = low
      BY <2>5, <3>2, <3>3 DEF v
    <3>4. CASE k # low
      <4>1. k \in low + 1..N - 1 /\ k \in low + 1..N
        BY <2>1, <3>4
      <4> QED BY <2>2, <2>5, <3>2, <4>1 DEF Continues
    <3> QED BY <3>3, <3>4
  <2>7. h[N] = <<>>
    BY <2>1, <2>2, <2>5 DEF Continues
  <2>8. Continues(h, low, N, chunk, step)
    BY <2>6, <2>7 DEF Continues
  <2> QED BY <2>5, <2>8 DEF low
<1> HIDE DEF T
<1>3. N \in T
  BY <1>1, <1>2, SetInduction
<1>4. Can(N) /\ N - N = 0
  BY <1>3 DEF T
<1> QED BY <1>4

(* and only one.                                                           *)
LEMMA OneFromTheEnd ==
    ASSUME NEW N \in Nat, NEW chunk, NEW step, Steps(N, chunk, step),
           NEW r, Continues(r, 0, N, chunk, step),
           NEW q, Continues(q, 0, N, chunk, step)
    PROVE  \A k \in 0..N : r[k] = q[k]
<1> DEFINE T == {m \in Nat : m <= N => \A k \in N - m..N : r[k] = q[k]}
<1>1. 0 \in T
  BY DEF Continues
<1>2. ASSUME NEW m \in Nat, m \in T PROVE m + 1 \in T
  <2> SUFFICES ASSUME m + 1 <= N, NEW k \in N - (m + 1)..N PROVE r[k] = q[k]
    OBVIOUS
  <2>1. \A x \in N - m..N : r[x] = q[x]
    BY <1>2
  <2>2. CASE k \in N - m..N
    BY <2>1, <2>2
  <2>3. CASE k \notin N - m..N
    <3>1. k \in 0..N - 1 /\ k = N - (m + 1)
      BY <2>3
    <3>2. k + step[k] \in N - m..N
      BY <3>1 DEF Steps
    <3> QED BY <2>1, <3>1, <3>2 DEF Continues
  <2> QED BY <2>2, <2>3
<1> HIDE DEF T
<1>3. N \in T
  BY <1>1, <1>2, SetInduction
<1> QED BY <1>3 DEF T

-----------------------------------------------------------------------------
(* Characters of more than one byte.                                       *)

(* What a byte that follows holds.                                         *)
Six(k, m) == At(k + m) % 64

(* What the decoder puts together from two bytes, from three, from four,   *)
LEMMA BitsOfTwo ==
    ASSUME EncodeInv, NEW k \in Nat
    PROVE  Bits(k, 2) = 64 * (At(k) % 32) + Six(k, 1)
<1> DEFINE Rule(f) == f = [m \in 1..2 |-> IF m = 1 THEN FirstBits(At(k), 2)
                                          ELSE 64 * f[m - 1] + (At(k + m - 1) % 64)]
           u == CHOOSE f : Rule(f)
           b == At(k) % 32
           g == [m \in 1..2 |-> IF m = 1 THEN b ELSE 64 * b + Six(k, 1)]
<1>1. FirstBits(At(k), 2) = b
  BY DEF FirstBits
<1>2. Rule(g)
  <2>1. \A m \in 1..2 : g[m] = IF m = 1 THEN FirstBits(At(k), 2)
                               ELSE 64 * g[m - 1] + (At(k + m - 1) % 64)
    BY <1>1 DEF Six
  <2> QED BY <2>1
<1>3. Rule(u)
  <2> HIDE DEF Rule
  <2> QED BY <1>2
<1>4. Bits(k, 2) = u[2]
  BY DEF Bits
<1> HIDE DEF u
<1>5. u[1] = b /\ u[2] = 64 * u[1] + (At(k + 2 - 1) % 64)
  BY <1>1, <1>3
<1> QED BY <1>4, <1>5 DEF Six

LEMMA BitsOfThree ==
    ASSUME EncodeInv, NEW k \in Nat
    PROVE  Bits(k, 3) = 64 * (64 * (At(k) % 16) + Six(k, 1)) + Six(k, 2)
<1> DEFINE Rule(f) == f = [m \in 1..3 |-> IF m = 1 THEN FirstBits(At(k), 3)
                                          ELSE 64 * f[m - 1] + (At(k + m - 1) % 64)]
           u == CHOOSE f : Rule(f)
           b1 == At(k) % 16
           b2 == 64 * b1 + Six(k, 1)
           b3 == 64 * b2 + Six(k, 2)
           g == [m \in 1..3 |-> CASE m = 1 -> b1 [] m = 2 -> b2 [] OTHER -> b3]
<1>1. FirstBits(At(k), 3) = b1
  BY DEF FirstBits
<1>2. Rule(g)
  <2> HIDE DEF b1
  <2>1. \A m \in 1..3 : g[m] = IF m = 1 THEN FirstBits(At(k), 3)
                               ELSE 64 * g[m - 1] + (At(k + m - 1) % 64)
    BY <1>1 DEF Six
  <2> QED BY <2>1
<1>3. Rule(u)
  <2> HIDE DEF Rule
  <2> QED BY <1>2
<1>4. Bits(k, 3) = u[3]
  BY DEF Bits
<1> HIDE DEF u
<1>5. /\ u[1] = b1
      /\ u[2] = 64 * u[1] + (At(k + 2 - 1) % 64)
      /\ u[3] = 64 * u[2] + (At(k + 3 - 1) % 64)
  BY <1>1, <1>3
<1> QED BY <1>4, <1>5 DEF Six

LEMMA BitsOfFour ==
    ASSUME EncodeInv, NEW k \in Nat
    PROVE  Bits(k, 4) =
               64 * (64 * (64 * (At(k) % 8) + Six(k, 1)) + Six(k, 2)) + Six(k, 3)
<1> DEFINE Rule(f) == f = [m \in 1..4 |-> IF m = 1 THEN FirstBits(At(k), 4)
                                          ELSE 64 * f[m - 1] + (At(k + m - 1) % 64)]
           u == CHOOSE f : Rule(f)
           b1 == At(k) % 8
           b2 == 64 * b1 + Six(k, 1)
           b3 == 64 * b2 + Six(k, 2)
           b4 == 64 * b3 + Six(k, 3)
           g == [m \in 1..4 |-> CASE m = 1 -> b1 [] m = 2 -> b2 [] m = 3 -> b3
                                  [] OTHER -> b4]
<1>1. FirstBits(At(k), 4) = b1
  BY DEF FirstBits
<1>2. Rule(g)
  <2> HIDE DEF b1
  <2>1. \A m \in 1..4 : g[m] = IF m = 1 THEN FirstBits(At(k), 4)
                               ELSE 64 * g[m - 1] + (At(k + m - 1) % 64)
    BY <1>1 DEF Six
  <2> QED BY <2>1
<1>3. Rule(u)
  <2> HIDE DEF Rule
  <2> QED BY <1>2
<1>4. Bits(k, 4) = u[4]
  BY DEF Bits
<1> HIDE DEF u
<1>5. /\ u[1] = b1
      /\ u[2] = 64 * u[1] + (At(k + 2 - 1) % 64)
      /\ u[3] = 64 * u[2] + (At(k + 3 - 1) % 64)
      /\ u[4] = 64 * u[3] + (At(k + 4 - 1) % 64)
  BY <1>1, <1>3
<1> QED BY <1>4, <1>5 DEF Six

(* and from more, of which only the type matters.                          *)
LEMMA BitsOfMore ==
    ASSUME EncodeInv, NEW k \in Nat, NEW n \in 5..6
    PROVE  Bits(k, n) \in Int
<1> DEFINE Rule(f) == f = [m \in 1..n |-> IF m = 1 THEN FirstBits(At(k), n)
                                          ELSE 64 * f[m - 1] + (At(k + m - 1) % 64)]
           u == CHOOSE f : Rule(f)
           b1 == FirstBits(At(k), n)
           b2 == 64 * b1 + Six(k, 1)
           b3 == 64 * b2 + Six(k, 2)
           b4 == 64 * b3 + Six(k, 3)
           b5 == 64 * b4 + Six(k, 4)
           b6 == 64 * b5 + Six(k, 5)
           g == [m \in 1..n |-> CASE m = 1 -> b1 [] m = 2 -> b2 [] m = 3 -> b3
                                  [] m = 4 -> b4 [] m = 5 -> b5 [] OTHER -> b6]
<1>1. \A m \in 0..5 : At(k + m) \in Int /\ Six(k, m) \in Int
  <2> TAKE m \in 0..5
  <2>1. k + m \in Nat
    OBVIOUS
  <2>2. At(k + m) \in 0..255
    BY <2>1, AtType
  <2> QED BY <2>2 DEF Six
<1>2. b1 \in Int
  <2>1. At(k + 0) \in Int
    BY <1>1
  <2> QED BY <2>1 DEF FirstBits
<1>3. /\ Six(k, 1) \in Int /\ Six(k, 2) \in Int /\ Six(k, 3) \in Int
      /\ Six(k, 4) \in Int /\ Six(k, 5) \in Int
  BY <1>1
<1>4. Rule(g)
  <2>1. /\ b2 = 64 * b1 + (At(k + 2 - 1) % 64) /\ b3 = 64 * b2 + (At(k + 3 - 1) % 64)
        /\ b4 = 64 * b3 + (At(k + 4 - 1) % 64) /\ b5 = 64 * b4 + (At(k + 5 - 1) % 64)
        /\ b6 = 64 * b5 + (At(k + 6 - 1) % 64) /\ b1 = FirstBits(At(k), n)
    BY DEF Six
  <2> HIDE DEF b1, b2, b3, b4, b5, b6
  <2>2. ASSUME NEW m \in 1..n
        PROVE  g[m] = IF m = 1 THEN FirstBits(At(k), n)
                      ELSE 64 * g[m - 1] + (At(k + m - 1) % 64)
    <3>1. m \in 1..6 /\ (m # 1 => m - 1 \in 1..n)
      OBVIOUS
    <3>2. m = 1 \/ m = 2 \/ m = 3 \/ m = 4 \/ m = 5 \/ m = 6
      BY <3>1
    <3> QED BY <2>1, <3>1, <3>2
  <2> HIDE DEF g
  <2>3. g = [m \in 1..n |-> g[m]]
    BY DEF g
  <2> QED BY <2>2, <2>3
<1>5. Rule(u)
  <2> HIDE DEF Rule
  <2> QED BY <1>4
<1>6. Bits(k, n) = u[n]
  BY DEF Bits
<1> HIDE DEF u, b1
<1>7. /\ u[1] = b1
      /\ u[2] = 64 * u[1] + (At(k + 2 - 1) % 64)
      /\ u[3] = 64 * u[2] + (At(k + 3 - 1) % 64)
      /\ u[4] = 64 * u[3] + (At(k + 4 - 1) % 64)
      /\ u[5] = 64 * u[4] + (At(k + 5 - 1) % 64)
      /\ n = 6 => u[6] = 64 * u[5] + (At(k + 6 - 1) % 64)
  BY <1>5 DEF b1
<1>8. b5 \in Int /\ b6 \in Int
  BY <1>2, <1>3
<1>9. u[5] = b5 /\ (n = 6 => u[6] = b6)
  BY <1>7 DEF Six
<1> QED BY <1>6, <1>8, <1>9

(* A first byte and those that follow are the shortest form of a character *)
(* just if they are what the decoder takes for one of that length.         *)
Follows == 128..191

ShortestTwo(c, x) ==
    LET u == 64 * (c % 32) + (x % 64)
    IN Utf8(u) = <<c, x>> <=>
           /\ c \in 192..223 /\ x \in Follows
           /\ UnicharToLen(u) = 2

(* With u for what is decoded: its shortest form is those bytes just if it *)
(* has their length, and they are a first byte and such as follow.         *)
LEMMA TextOfTwo ==
    ASSUME NEW c \in 0..255, NEW x \in 0..255
    PROVE  ShortestTwo(c, x)
<1> DEFINE u == 64 * (c % 32) + (x % 64)
           Form == c \in 192..223 /\ x \in Follows
           Same == /\ c = 192 + (u \div 64) /\ x = 128 + (u % 64)
<1>1. u \in Nat
  OBVIOUS
<1>2. Utf8(u) = <<c, x>> <=> 128 <= u /\ u < 2048 /\ Same
  <2> HIDE DEF u
  <2>1. CASE u < 128
    <3>1. Utf8(u) = <<u>>
      BY <1>1, <2>1, SMT DEF Utf8
    <3> QED BY <1>1, <2>1, <3>1
  <2>2. CASE 128 <= u /\ u < 2048
    <3>1. Utf8(u) = <<192 + (u \div 64), 128 + (u % 64)>>
      BY <1>1, <2>2, SMT DEF Utf8
    <3> QED BY <1>1, <2>2, <3>1
  <2>3. CASE 2048 <= u /\ u < 65536
    <3>1. Utf8(u) = <<224 + (u \div 4096), 128 + ((u \div 64) % 64), 128 + (u % 64)>>
      BY <1>1, <2>3, SMT DEF Utf8
    <3> QED BY <1>1, <2>3, <3>1
  <2>4. CASE 65536 <= u /\ u < 2097152
    <3>1. Utf8(u) = <<240 + (u \div 262144), 128 + ((u \div 4096) % 64),
                    128 + ((u \div 64) % 64), 128 + (u % 64)>>
      BY <1>1, <2>4, SMT DEF Utf8
    <3> QED BY <1>1, <2>4, <3>1
  <2>5. CASE u >= 2097152
    <3>1. Utf8(u) = <<>>
      BY <1>1, <2>5, SMT DEF Utf8
    <3> QED BY <1>1, <2>5, <3>1
  <2> QED BY <1>1, <2>1, <2>2, <2>3, <2>4, <2>5
<1>3. UnicharToLen(u) = 2 <=> 128 <= u /\ u < 2048
  <2> HIDE DEF u
  <2> QED BY <1>1 DEF UnicharToLen
<1>4. Form => Same
  BY DEF Follows
<1>5. 128 <= u /\ u < 2048 /\ Same => Form
  <2> HIDE DEF u
  <2> SUFFICES ASSUME 128 <= u /\ u < 2048, Same PROVE Form
    OBVIOUS
  <2>1. u \div 64 \in 0..31
    BY <1>1
  <2>2. u % 64 \in 0..63
    BY <1>1
  <2> QED BY <2>1, <2>2 DEF Follows
<1> HIDE DEF u, Same
<1>6. ASSUME Utf8(u) = <<c, x>> PROVE Form /\ UnicharToLen(u) = 2
  <2>1. 128 <= u /\ u < 2048 /\ Same
    BY <1>2, <1>6
  <2> QED BY <1>3, <1>5, <2>1
<1>7. ASSUME Form, UnicharToLen(u) = 2 PROVE Utf8(u) = <<c, x>>
  <2>1. 128 <= u /\ u < 2048 /\ Same
    BY <1>3, <1>4, <1>7
  <2> QED BY <1>2, <2>1
<1> QED BY <1>6, <1>7 DEF u, ShortestTwo

ShortestThree(c, x, y) ==
    LET u == 64 * (64 * (c % 16) + (x % 64)) + (y % 64)
    IN Utf8(u) = <<c, x, y>> <=>
           /\ c \in 224..239 /\ x \in Follows /\ y \in Follows
           /\ UnicharToLen(u) = 3

LEMMA TextOfThree ==
    ASSUME NEW c \in 0..255, NEW x \in 0..255, NEW y \in 0..255
    PROVE  ShortestThree(c, x, y)
<1> DEFINE u == 64 * (64 * (c % 16) + (x % 64)) + (y % 64)
           Form == c \in 224..239 /\ x \in Follows /\ y \in Follows
           Same == /\ c = 224 + (u \div 4096) /\ x = 128 + ((u \div 64) % 64)
                   /\ y = 128 + (u % 64)
<1>1. u \in Nat
  OBVIOUS
<1>2. Utf8(u) = <<c, x, y>> <=> 2048 <= u /\ u < 65536 /\ Same
  <2> HIDE DEF u
  <2>1. CASE u < 128
    <3>1. Utf8(u) = <<u>>
      BY <1>1, <2>1, SMT DEF Utf8
    <3> QED BY <1>1, <2>1, <3>1
  <2>2. CASE 128 <= u /\ u < 2048
    <3>1. Utf8(u) = <<192 + (u \div 64), 128 + (u % 64)>>
      BY <1>1, <2>2, SMT DEF Utf8
    <3> QED BY <1>1, <2>2, <3>1
  <2>3. CASE 2048 <= u /\ u < 65536
    <3>1. Utf8(u) = <<224 + (u \div 4096), 128 + ((u \div 64) % 64), 128 + (u % 64)>>
      BY <1>1, <2>3, SMT DEF Utf8
    <3> QED BY <1>1, <2>3, <3>1
  <2>4. CASE 65536 <= u /\ u < 2097152
    <3>1. Utf8(u) = <<240 + (u \div 262144), 128 + ((u \div 4096) % 64),
                    128 + ((u \div 64) % 64), 128 + (u % 64)>>
      BY <1>1, <2>4, SMT DEF Utf8
    <3> QED BY <1>1, <2>4, <3>1
  <2>5. CASE u >= 2097152
    <3>1. Utf8(u) = <<>>
      BY <1>1, <2>5, SMT DEF Utf8
    <3> QED BY <1>1, <2>5, <3>1
  <2> QED BY <1>1, <2>1, <2>2, <2>3, <2>4, <2>5
<1>3. UnicharToLen(u) = 3 <=> 2048 <= u /\ u < 65536
  <2> HIDE DEF u
  <2> QED BY <1>1 DEF UnicharToLen
<1>4. Form => Same
  BY DEF Follows
<1>5. 2048 <= u /\ u < 65536 /\ Same => Form
  <2> HIDE DEF u
  <2> SUFFICES ASSUME 2048 <= u /\ u < 65536, Same PROVE Form
    OBVIOUS
  <2>1. u \div 4096 \in 0..15
    BY <1>1
  <2>2. (u \div 64) % 64 \in 0..63
    BY <1>1
  <2>3. u % 64 \in 0..63
    BY <1>1
  <2> QED BY <2>1, <2>2, <2>3 DEF Follows
<1> HIDE DEF u, Same
<1>6. ASSUME Utf8(u) = <<c, x, y>> PROVE Form /\ UnicharToLen(u) = 3
  <2>1. 2048 <= u /\ u < 65536 /\ Same
    BY <1>2, <1>6
  <2> QED BY <1>3, <1>5, <2>1
<1>7. ASSUME Form, UnicharToLen(u) = 3 PROVE Utf8(u) = <<c, x, y>>
  <2>1. 2048 <= u /\ u < 65536 /\ Same
    BY <1>3, <1>4, <1>7
  <2> QED BY <1>2, <2>1
<1> QED BY <1>6, <1>7 DEF u, ShortestThree

ShortestFour(c, x, y, z) ==
    LET u == 64 * (64 * (64 * (c % 8) + (x % 64)) + (y % 64)) + (z % 64)
    IN Utf8(u) = <<c, x, y, z>> <=>
           /\ c \in 240..247 /\ x \in Follows /\ y \in Follows /\ z \in Follows
           /\ UnicharToLen(u) = 4

LEMMA TextOfFour ==
    ASSUME NEW c \in 0..255, NEW x \in 0..255, NEW y \in 0..255, NEW z \in 0..255
    PROVE  ShortestFour(c, x, y, z)
<1> DEFINE u == 64 * (64 * (64 * (c % 8) + (x % 64)) + (y % 64)) + (z % 64)
           Form == c \in 240..247 /\ x \in Follows /\ y \in Follows /\ z \in Follows
           Same == /\ c = 240 + (u \div 262144) /\ x = 128 + ((u \div 4096) % 64)
                   /\ y = 128 + ((u \div 64) % 64) /\ z = 128 + (u % 64)
<1>1. u \in Nat
  OBVIOUS
<1>2. Utf8(u) = <<c, x, y, z>> <=> 65536 <= u /\ u < 2097152 /\ Same
  <2> HIDE DEF u
  <2>1. CASE u < 128
    <3>1. Utf8(u) = <<u>>
      BY <1>1, <2>1, SMT DEF Utf8
    <3> QED BY <1>1, <2>1, <3>1
  <2>2. CASE 128 <= u /\ u < 2048
    <3>1. Utf8(u) = <<192 + (u \div 64), 128 + (u % 64)>>
      BY <1>1, <2>2, SMT DEF Utf8
    <3> QED BY <1>1, <2>2, <3>1
  <2>3. CASE 2048 <= u /\ u < 65536
    <3>1. Utf8(u) = <<224 + (u \div 4096), 128 + ((u \div 64) % 64), 128 + (u % 64)>>
      BY <1>1, <2>3, SMT DEF Utf8
    <3> QED BY <1>1, <2>3, <3>1
  <2>4. CASE 65536 <= u /\ u < 2097152
    <3>1. Utf8(u) = <<240 + (u \div 262144), 128 + ((u \div 4096) % 64),
                    128 + ((u \div 64) % 64), 128 + (u % 64)>>
      BY <1>1, <2>4, SMT DEF Utf8
    <3> QED BY <1>1, <2>4, <3>1
  <2>5. CASE u >= 2097152
    <3>1. Utf8(u) = <<>>
      BY <1>1, <2>5, SMT DEF Utf8
    <3> QED BY <1>1, <2>5, <3>1
  <2> QED BY <1>1, <2>1, <2>2, <2>3, <2>4, <2>5
<1>3. UnicharToLen(u) = 4 <=> 65536 <= u /\ u < 2097152
  <2> HIDE DEF u
  <2> QED BY <1>1 DEF UnicharToLen
<1>4. Form => Same
  <2> SUFFICES ASSUME Form PROVE Same
    OBVIOUS
  <2>1. PICK a \in 0..7, b \in 0..63, d \in 0..63, e \in 0..63 :
            /\ c = 240 + a /\ x = 128 + b /\ y = 128 + d /\ z = 128 + e
    <3> DEFINE a == c - 240
               b == x - 128
               d == y - 128
               e == z - 128
    <3>1. a \in 0..7 /\ b \in 0..63 /\ d \in 0..63 /\ e \in 0..63
      BY SMT DEF Follows
    <3>2. c = 240 + a /\ x = 128 + b /\ y = 128 + d /\ z = 128 + e
      BY SMT
    <3> HIDE DEF a, b, d, e
    <3> QED BY <3>1, <3>2, Zenon
  <2>2. c % 8 = a /\ x % 64 = b /\ y % 64 = d /\ z % 64 = e
    BY <2>1, SMT
  <2>3. u = 64 * (64 * (64 * a + b) + d) + e
    BY <2>2
  <2> HIDE DEF u
  <2>4. /\ u \div 262144 = a /\ (u \div 4096) % 64 = b
        /\ (u \div 64) % 64 = d /\ u % 64 = e
    <3>1. u % 64 = e /\ u \div 64 = 64 * (64 * a + b) + d
      BY <2>3, SMT
    <3>2. (u \div 64) % 64 = d
      BY <3>1, SMT
    <3>3. u \div 4096 = 64 * a + b
      BY <2>3, SMT
    <3>4. (u \div 4096) % 64 = b
      BY <3>3, SMT
    <3>5. u \div 262144 = a
      BY <2>3, SMT
    <3> QED BY <3>1, <3>2, <3>4, <3>5, SMT
  <2> QED BY <2>1, <2>4, SMT
<1>5. 65536 <= u /\ u < 2097152 /\ Same => Form
  <2> HIDE DEF u
  <2> SUFFICES ASSUME 65536 <= u /\ u < 2097152, Same PROVE Form
    OBVIOUS
  <2>1. u \div 262144 \in 0..7
    BY <1>1
  <2>2. (u \div 4096) % 64 \in 0..63
    BY <1>1
  <2>3. (u \div 64) % 64 \in 0..63
    BY <1>1
  <2>4. u % 64 \in 0..63
    BY <1>1
  <2> QED BY <2>1, <2>2, <2>3, <2>4 DEF Follows
<1> HIDE DEF u, Same
<1>6. ASSUME Utf8(u) = <<c, x, y, z>> PROVE Form /\ UnicharToLen(u) = 4
  <2>1. 65536 <= u /\ u < 2097152 /\ Same
    BY <1>2, <1>6
  <2> QED BY <1>3, <1>5, <2>1
<1>7. ASSUME Form, UnicharToLen(u) = 4 PROVE Utf8(u) = <<c, x, y, z>>
  <2>1. 65536 <= u /\ u < 2097152 /\ Same
    BY <1>3, <1>4, <1>7
  <2> QED BY <1>2, <2>1
<1> QED BY <1>6, <1>7 DEF u, ShortestFour

LeadOf(c) ==
    /\ ExpectedLen(c) = 2 <=> c \in 192..223
    /\ ExpectedLen(c) = 3 <=> c \in 224..239
    /\ ExpectedLen(c) = 4 <=> c \in 240..247
    /\ ExpectedLen(c) \in 2..6 => c >= 128

(* What a first byte says of the length.                                   *)
LEMMA LeadIs ==
    ASSUME NEW c \in 0..255
    PROVE  LeadOf(c)
BY SMT DEF LeadOf, ExpectedLen

(* What the decoder of the encoder takes for a character of n bytes.       *)
LEMMA ValidIs ==
    ASSUME EncodeInv, NEW k \in 0..Len(str), NEW n \in 2..6
    PROVE  ValidUnichar(k) = n <=>
               /\ ExpectedLen(At(k)) = n /\ k + n <= Len(str)
               /\ \A m \in 1..n - 1 : At(k + m) \in Follows
               /\ UnicharToLen(Bits(k, n)) = n /\ UnicharIsValid(Bits(k, n))
<1>1. Len(str) \in Nat /\ k \in Nat
  BY LenProperties DEF EncodeInv
<1>2. At(k) \in 0..255 /\ k + 0 = k
  BY <1>1, AtType
<1>3. ASSUME ValidUnichar(k) = n
      PROVE  /\ ExpectedLen(At(k)) = n /\ k + n <= Len(str)
             /\ \A m \in 1..n - 1 : At(k + m) \in Follows
             /\ UnicharToLen(Bits(k, n)) = n /\ UnicharIsValid(Bits(k, n))
  <2>1. /\ ExpectedLen(At(k)) = n /\ UnicharToLen(ToUnichar(k, n)) = n
        /\ UnicharIsValid(ToUnichar(k, n))
    BY <1>3 DEF ValidUnichar, EINVAL
  <2>2. k + n <= Len(str)
    BY <1>3, CharacterInside
  <2>3. \A m \in 1..n - 1 : At(k + m) \in 128..191
    <3>1. UnicharToLen(EINVAL) = 1
      BY SMT DEF UnicharToLen, EINVAL
    <3>2. UnicharToLen(EINVAL) # n
      BY <3>1
    <3> QED BY <2>1, <3>2, Zenon DEF ToUnichar
  <2>4. ToUnichar(k, n) = Bits(k, n)
    BY <2>3 DEF ToUnichar
  <2> QED BY <2>1, <2>2, <2>3, <2>4 DEF Follows
<1>4. ASSUME ExpectedLen(At(k)) = n, k + n <= Len(str),
             \A m \in 1..n - 1 : At(k + m) \in Follows,
             UnicharToLen(Bits(k, n)) = n, UnicharIsValid(Bits(k, n))
      PROVE  ValidUnichar(k) = n
  <2>1. ToUnichar(k, n) = Bits(k, n)
    BY <1>4 DEF ToUnichar, Follows
  <2>2. At(k) >= 128
    <3>1. LeadOf(At(k))
      BY <1>2, LeadIs, Zenon
    <3> QED BY <1>4, <3>1 DEF LeadOf
  <2>3. ASSUME NEW m \in 0..n - 1 PROVE At(k + m) >= 128
    <3>1. CASE m = 0
      BY <1>2, <2>2, <3>1
    <3>2. CASE m # 0
      <4>1. At(k + m) \in Follows
        BY <1>4, <3>2
      <4>2. \A x \in Follows : x >= 128
        BY DEF Follows
      <4> QED BY <4>1, <4>2, Zenon
    <3> QED BY <3>1, <3>2
  <2> QED BY <1>4, <2>1, <2>3 DEF ValidUnichar
<1> QED BY <1>3, <1>4

(* It takes none of more than four bytes: none of them is in Unicode.      *)
LEMMA NoLongCharacter ==
    ASSUME EncodeInv, NEW k \in 0..Len(str), ValidUnichar(k) > 1
    PROVE  ValidUnichar(k) \in 2..4
<1> DEFINE n == ValidUnichar(k)
<1>1. n \in 2..6
  BY CharacterInside
<1>2. ASSUME n \in 5..6 PROVE FALSE
  <2>1. UnicharToLen(Bits(k, n)) = n /\ UnicharIsValid(Bits(k, n))
    BY <1>1, ValidIs
  <2>2. k \in Nat
    BY LenProperties DEF EncodeInv
  <2> HIDE DEF n
  <2>3. Bits(k, n) \in Int
    BY <1>2, <2>2, BitsOfMore
  <2>4. Bits(k, n) < 1114112
    BY <2>1, SMT DEF UnicharIsValid
  <2> QED BY <1>2, <2>1, <2>3, <2>4, SMT DEF UnicharToLen
<1> QED BY <1>1, <1>2

(* The bytes of a piece of the string.                                     *)
LEMMA PieceIs ==
    ASSUME EncodeInv, NEW k \in Nat, NEW n \in Nat, k + n <= Len(str)
    PROVE  /\ SubSeq(str, k + 1, k + n) \in Seq(Int)
           /\ Len(SubSeq(str, k + 1, k + n)) = n
           /\ \A m \in 1..n : SubSeq(str, k + 1, k + n)[m] = At(k + m - 1)
<1>1. str \in Seq(Int) /\ Len(str) \in Nat
  <2>1. 1..255 \subseteq Int
    OBVIOUS
  <2> QED BY <2>1, LenProperties, SeqMonotonic, ZenonT(30) DEF EncodeInv
<1>2. /\ SubSeq(str, k + 1, k + n) \in Seq(Int)
      /\ Len(SubSeq(str, k + 1, k + n)) = n
  BY <1>1
<1>3. ASSUME NEW m \in 1..n PROVE SubSeq(str, k + 1, k + n)[m] = At(k + m - 1)
  <2>1. SubSeq(str, k + 1, k + n)[m] = str[k + 1 + m - 1]
    BY <1>1, SMTT(20)
  <2>2. k + m - 1 < Len(str) /\ (k + m - 1) + 1 = k + 1 + m - 1
    BY <1>1
  <2> QED BY <2>1, <2>2 DEF At
<1> QED BY <1>2, <1>3

(* It takes for a character just what the reference takes for one.         *)
LEMMA TextIsValid ==
    ASSUME EncodeInv, NEW k \in 0..Len(str), NEW n \in 2..4
    PROVE  IsText(k, n) <=> ValidUnichar(k) = n
<1> DEFINE p == SubSeq(str, k + 1, k + n)
<1>1. Len(str) \in Nat /\ k \in Nat /\ n \in 2..6 /\ n \in Nat
  BY LenProperties DEF EncodeInv
<1>2. /\ At(k) \in 0..255 /\ At(k + 1) \in 0..255 /\ At(k + 2) \in 0..255
      /\ At(k + 3) \in 0..255
  BY <1>1, AtType
<1>3. /\ ExpectedLen(At(k)) = 2 <=> At(k) \in 192..223
      /\ ExpectedLen(At(k)) = 3 <=> At(k) \in 224..239
      /\ ExpectedLen(At(k)) = 4 <=> At(k) \in 240..247
  <2>1. LeadOf(At(k))
    BY <1>2, LeadIs, Zenon
  <2> QED BY <2>1, Zenon DEF LeadOf
<1>4. ASSUME k + n <= Len(str)
      PROVE  p \in Seq(Int) /\ Len(p) = n
             /\ \A m \in 1..n : p[m] = At(k + m - 1)
  BY <1>1, <1>4, PieceIs, Zenon
<1>5. k + n <= Len(str) =>
          (Utf8(Bits(k, n)) = p <=>
               /\ ExpectedLen(At(k)) = n
               /\ \A m \in 1..n - 1 : At(k + m) \in Follows
               /\ UnicharToLen(Bits(k, n)) = n)
  <2> SUFFICES ASSUME k + n <= Len(str)
               PROVE  Utf8(Bits(k, n)) = p <=>
                          /\ ExpectedLen(At(k)) = n
                          /\ \A m \in 1..n - 1 : At(k + m) \in Follows
                          /\ UnicharToLen(Bits(k, n)) = n
    OBVIOUS
  <2> HIDE DEF p
  <2>1. CASE n = 2
    <3>1. p = <<At(k), At(k + 1)>>
      BY <1>1, <1>4, <2>1
    <3>2. Bits(k, n) = 64 * (At(k) % 32) + (At(k + 1) % 64)
      BY <1>1, <2>1, BitsOfTwo DEF Six
    <3>3. Utf8(Bits(k, n)) = p <=> /\ At(k) \in 192..223 /\ At(k + 1) \in Follows
                                   /\ UnicharToLen(Bits(k, n)) = 2
      <4>1. ShortestTwo(At(k), At(k + 1))
        BY <1>2, TextOfTwo, Zenon
      <4> QED BY <3>1, <3>2, <4>1 DEF ShortestTwo
    <3>4. At(k + 1) \in Follows <=> \A m \in 1..n - 1 : At(k + m) \in Follows
      BY <2>1
    <3> QED BY <1>3, <2>1, <3>3, <3>4, Zenon
  <2>2. CASE n = 3
    <3>1. p = <<At(k), At(k + 1), At(k + 2)>>
      BY <1>1, <1>4, <2>2
    <3>2. Bits(k, n) = 64 * (64 * (At(k) % 16) + (At(k + 1) % 64)) + (At(k + 2) % 64)
      BY <1>1, <2>2, BitsOfThree DEF Six
    <3>3. Utf8(Bits(k, n)) = p <=> /\ At(k) \in 224..239 /\ At(k + 1) \in Follows
                                   /\ At(k + 2) \in Follows
                                   /\ UnicharToLen(Bits(k, n)) = 3
      <4>1. ShortestThree(At(k), At(k + 1), At(k + 2))
        BY <1>2, TextOfThree, Zenon
      <4> QED BY <3>1, <3>2, <4>1 DEF ShortestThree
    <3>4. At(k + 1) \in Follows /\ At(k + 2) \in Follows
          <=> \A m \in 1..n - 1 : At(k + m) \in Follows
      BY <2>2
    <3> QED BY <1>3, <2>2, <3>3, <3>4, Zenon
  <2>3. CASE n = 4
    <3>1. p = <<At(k), At(k + 1), At(k + 2), At(k + 3)>>
      BY <1>1, <1>4, <2>3
    <3>2. Bits(k, n) = 64 * (64 * (64 * (At(k) % 8) + (At(k + 1) % 64))
                                + (At(k + 2) % 64)) + (At(k + 3) % 64)
      BY <1>1, <2>3, BitsOfFour DEF Six
    <3>3. Utf8(Bits(k, n)) = p <=> /\ At(k) \in 240..247 /\ At(k + 1) \in Follows
                                   /\ At(k + 2) \in Follows /\ At(k + 3) \in Follows
                                   /\ UnicharToLen(Bits(k, n)) = 4
      <4>1. ShortestFour(At(k), At(k + 1), At(k + 2), At(k + 3))
        BY <1>2, TextOfFour, Zenon
      <4> QED BY <3>1, <3>2, <4>1 DEF ShortestFour
    <3>4. At(k + 1) \in Follows /\ At(k + 2) \in Follows /\ At(k + 3) \in Follows
          <=> \A m \in 1..n - 1 : At(k + m) \in Follows
      BY <2>3
    <3> QED BY <1>3, <2>3, <3>3, <3>4, Zenon
  <2> QED BY <2>1, <2>2, <2>3
<1>6. ValidUnichar(k) = n <=>
          /\ ExpectedLen(At(k)) = n /\ k + n <= Len(str)
          /\ \A m \in 1..n - 1 : At(k + m) \in Follows
          /\ UnicharToLen(Bits(k, n)) = n /\ UnicharIsValid(Bits(k, n))
  BY <1>1, ValidIs
<1> QED BY <1>5, <1>6, Zenon DEF IsText

(* So the reference goes on just as the encoder does.                      *)
LEMMA TextFound ==
    ASSUME EncodeInv, NEW k \in 0..Len(str)
    PROVE  TextAt(k) = IF ValidUnichar(k) > 1 THEN {ValidUnichar(k)} ELSE {}
<1>1. \A n \in 2..4 : n \in TextAt(k) <=> ValidUnichar(k) = n
  BY TextIsValid DEF TextAt
<1>2. TextAt(k) \subseteq 2..4
  BY DEF TextAt
<1>3. CASE ValidUnichar(k) > 1
  BY <1>1, <1>2, <1>3, NoLongCharacter
<1>4. CASE ~(ValidUnichar(k) > 1)
  BY <1>1, <1>2, <1>4
<1> QED BY <1>3, <1>4

-----------------------------------------------------------------------------
(* What becomes of the string, place by place.                             *)

Goes(k) == IF ValidUnichar(k) > 1 THEN ValidUnichar(k) ELSE 1
Gives(k) == IF ValidUnichar(k) > 1 THEN SubSeq(str, k + 1, k + ValidUnichar(k))
            ELSE Piece(At(k))
Parts == [k \in 0..Len(str) - 1 |-> Gives(k)]
Widths == [k \in 0..Len(str) - 1 |-> Goes(k)]

(* r[k] is what becomes of the bytes from k on.                            *)
Parses(r) == /\ r \in [0..Len(str) -> Seq(Int)]
             /\ Continues(r, 0, Len(str), Parts, Widths)

(* The digits of a byte.                                                   *)
LEMMA HexIsByte ==
    \A c \in 0..255 : Hex(c \div 16) \in Int /\ Hex(c % 16) \in Int
<1> TAKE c \in 0..255
<1>1. c \div 16 \in Int /\ c % 16 \in Int
  OBVIOUS
<1> QED BY <1>1 DEF Hex

(* A byte is kept, or escaped in four.                                     *)
LEMMA PieceIsBytes ==
    ASSUME NEW c \in 0..255
    PROVE  Piece(c) \in Seq(Int) /\ Len(Piece(c)) = IF MustEscape(c) THEN 4 ELSE 1
BY HexIsByte DEF Piece, Backslash

(* A part goes on by a byte at least, and ends within the string.          *)
LEMMA GoesOn ==
    ASSUME EncodeInv, NEW k \in 0..Len(str) - 1
    PROVE  /\ Goes(k) \in 1..4 /\ k + Goes(k) <= Len(str)
           /\ Gives(k) \in Seq(Int)
           /\ ValidUnichar(k) > 1 => Len(Gives(k)) = Goes(k)
<1>1. Len(str) \in Nat /\ k \in Nat /\ k \in 0..Len(str)
  BY LenProperties DEF EncodeInv
<1>2. CASE ValidUnichar(k) > 1
  <2>1. Goes(k) = ValidUnichar(k) /\ Goes(k) \in 2..4 /\ k + Goes(k) <= Len(str)
    BY <1>1, <1>2, NoLongCharacter, CharacterInside DEF Goes
  <2>2. Gives(k) = SubSeq(str, k + 1, k + Goes(k))
    BY <1>2, <2>1 DEF Gives
  <2>3. Gives(k) \in Seq(Int) /\ Len(Gives(k)) = Goes(k)
    <3>1. Goes(k) \in Nat
      BY <2>1
    <3> QED BY <1>1, <2>1, <2>2, <3>1, PieceIs
  <2> QED BY <2>1, <2>3
<1>3. CASE ~(ValidUnichar(k) > 1)
  <2>1. At(k) \in 0..255
    BY <1>1, AtType
  <2>2. Piece(At(k)) \in Seq(Int)
    BY <2>1, PieceIsBytes
  <2> QED BY <1>1, <1>3, <2>2 DEF Goes, Gives
<1> QED BY <1>2, <1>3

(* The parts cover the string.                                             *)
LEMMA StringSteps ==
    ASSUME EncodeInv
    PROVE  Len(str) \in Nat /\ Steps(Len(str), Parts, Widths)
<1>1. Len(str) \in Nat
  BY LenProperties DEF EncodeInv
<1>2. ASSUME NEW k \in 0..Len(str) - 1
      PROVE  /\ Widths[k] \in Nat \ {0} /\ k + Widths[k] <= Len(str)
             /\ Parts[k] \in Seq(Int)
  <2>1. Widths[k] = Goes(k) /\ Parts[k] = Gives(k)
    BY DEF Widths, Parts
  <2>2. /\ Goes(k) \in 1..4 /\ k + Goes(k) <= Len(str)
        /\ Gives(k) \in Seq(Int)
    BY GoesOn, Zenon
  <2> QED BY <2>1, <2>2
<1> QED BY <1>1, <1>2 DEF Steps

(* There is one reading of the string, and the reference is it.            *)
LEMMA ReferenceIs ==
    ASSUME EncodeInv, NEW q, Parses(q)
    PROVE  Reference = q[0]
<1> DEFINE N == Len(str)
           Then(f, k) ==
               IF k = N THEN <<>>
               ELSE IF TextAt(k) = {} THEN Piece(At(k)) \o f[k + 1]
               ELSE LET n == Min(TextAt(k)) IN SubSeq(str, k + 1, k + n) \o f[k + n]
           Rule(f) == f = [k \in 0..N |-> Then(f, k)]
           r == CHOOSE f : Rule(f)
<1>1. N \in Nat /\ Steps(N, Parts, Widths)
  BY StringSteps
<1>2. ASSUME NEW f, NEW k \in 0..N - 1
      PROVE  Then(f, k) = Parts[k] \o f[k + Widths[k]]
  <2>1. Widths[k] = Goes(k) /\ Parts[k] = Gives(k) /\ k # N /\ k \in 0..N
    BY <1>1 DEF Widths, Parts
  <2>2. TextAt(k) = IF ValidUnichar(k) > 1 THEN {ValidUnichar(k)} ELSE {}
    BY <2>1, TextFound
  <2>3. CASE ValidUnichar(k) > 1
    <3>1. TextAt(k) = {ValidUnichar(k)} /\ ValidUnichar(k) \in Int
      BY <2>1, <2>2, <2>3, NoLongCharacter
    <3>2. Min(TextAt(k)) = ValidUnichar(k)
      BY <3>1 DEF Min
    <3> QED BY <2>1, <2>3, <3>1, <3>2 DEF Goes, Gives
  <2>4. CASE ~(ValidUnichar(k) > 1)
    BY <2>1, <2>2, <2>4 DEF Goes, Gives
  <2> QED BY <2>3, <2>4
<1>3. Reference = r[0]
  BY DEF Reference
<1>4. Then(q, N) = <<>> /\ Then(r, N) = <<>>
  OBVIOUS
<1> HIDE DEF Then, N
<1>5. Rule(q)
  <2>1. q \in [0..N -> Seq(Int)] /\ Continues(q, 0, N, Parts, Widths)
    BY DEF Parses, N
  <2>2. \A k \in 0..N : q[k] = Then(q, k)
    <3> TAKE k \in 0..N
    <3>1. CASE k = N
      BY <1>4, <2>1, <3>1 DEF Continues
    <3>2. CASE k # N
      <4>1. k \in 0..N - 1
        BY <1>1, <3>2
      <4> QED BY <1>2, <2>1, <4>1 DEF Continues
    <3> QED BY <3>1, <3>2
  <2> QED BY <2>1, <2>2
<1>6. Rule(r)
  <2> HIDE DEF Rule
  <2> QED BY <1>5
<1> HIDE DEF r
<1>7. Continues(r, 0, N, Parts, Widths)
  <2>1. \A k \in 0..N : r[k] = Then(r, k)
    BY <1>6
  <2>2. r[N] = <<>> /\ \A k \in 0..N - 1 : r[k] = Then(r, k)
    BY <1>1, <1>4, <2>1
  <2> QED BY <1>2, <2>2 DEF Continues
<1>8. \A k \in 0..N : r[k] = q[k]
  BY <1>1, <1>7, OneFromTheEnd DEF Parses, N
<1> QED BY <1>1, <1>3, <1>8

(* There is one,                                                           *)
LEMMA ParsesExists ==
    ASSUME EncodeInv
    PROVE  \E r : Parses(r)
BY StringSteps, FromTheEnd DEF Parses

(* and while the string stays it stays.                                    *)
LEMMA ParsesKept ==
    ASSUME UNCHANGED str, NEW r
    PROVE  Parses(r)' <=> Parses(r)
<1>1. ASSUME NEW k PROVE ValidUnichar(k)' = ValidUnichar(k) /\ At(k)' = At(k)
  BY DEF Bits, At, FirstBits, ValidUnichar, ToUnichar, UnicharIsValid
<1>2. ASSUME NEW k PROVE Goes(k)' = Goes(k) /\ Gives(k)' = Gives(k)
  BY <1>1 DEF Goes, Gives
<1>3. Parts' = Parts /\ Widths' = Widths
  BY <1>2 DEF Parts, Widths
<1> QED BY <1>3 DEF Parses

-----------------------------------------------------------------------------

(* Without the option the string is copied, or cut.                        *)
PlainInv ==
    ~gpl /\ pc = "done" =>
        IF Len(str) < len THEN ret = 0 /\ buf = str \o <<0>> ELSE ret = EINVAL

(* What is in the buffer is what comes of the bytes before i; a failure    *)
(* shows that what comes of all of them does not fit.                      *)
KeptInv ==
    gpl => \A r : Parses(r) =>
        /\ pc = "encode" => r[0] = SubSeq(buf, 1, j) \o r[i]
        /\ pc = "done" /\ ret = 0 => buf = r[0] \o <<0>>
        /\ pc = "done" /\ ret # 0 => Len(r[0]) >= len

(* Sequences of bytes.                                                     *)
LEMMA Associates ==
    \A s, t, u \in Seq(Int) : (s \o t) \o u = s \o (t \o u)
BY ConcatAssociative, SMTT(30)

LEMMA IsItself ==
    \A s \in Seq(Int) : SubSeq(s, 1, Len(s)) = s
BY SubSeqFull

LEMMA PrefixOfConcat ==
    ASSUME NEW s \in Seq(Int), NEW t \in Seq(Int), NEW n \in 0..Len(t)
    PROVE  SubSeq(s \o t, 1, Len(s) + n) = s \o SubSeq(t, 1, n)
<1>1. Len(s) \in Nat /\ Len(t) \in Nat /\ n \in Nat
  BY LenProperties
<1> DEFINE a == SubSeq(s \o t, 1, Len(s) + n)
           b == s \o SubSeq(t, 1, n)
<1>2. a \in Seq(Int) /\ Len(a) = Len(s) + n
      /\ \A m \in 1..Len(s) + n : a[m] = (s \o t)[m]
  <2> DEFINE w == s \o t
             x == Len(s) + n
  <2>1. w \in Seq(Int) /\ Len(w) = Len(s) + Len(t)
    OBVIOUS
  <2>2. x \in 0..Len(w)
    BY <1>1, <2>1
  <2> HIDE DEF w, x
  <2>3. /\ SubSeq(w, 1, x) \in Seq(Int) /\ Len(SubSeq(w, 1, x)) = x
        /\ \A m \in 1..x : SubSeq(w, 1, x)[m] = w[m]
    BY <2>1, <2>2
  <2> QED BY <2>3 DEF w, x
<1>3. SubSeq(t, 1, n) \in Seq(Int) /\ Len(SubSeq(t, 1, n)) = n
      /\ \A m \in 1..n : SubSeq(t, 1, n)[m] = t[m]
  BY <1>1
<1>4. b \in Seq(Int) /\ Len(b) = Len(s) + n
  BY <1>1, <1>3
<1>5. ASSUME NEW m \in 1..Len(s) + n PROVE a[m] = b[m]
  <2>1. m \in 1..Len(s) + Len(t)
    BY <1>1
  <2>2. CASE m <= Len(s)
    BY <1>1, <1>2, <1>3, <2>1, <2>2
  <2>3. CASE ~(m <= Len(s))
    <3>1. m - Len(s) \in 1..n
      BY <1>1, <2>3
    <3>2. (s \o t)[m] = t[m - Len(s)]
      BY <1>1, <2>1, <2>3
    <3>3. b[m] = SubSeq(t, 1, n)[m - Len(s)]
      BY <1>1, <1>3, <2>3
    <3> QED BY <1>2, <1>3, <3>1, <3>2, <3>3
  <2> QED BY <2>2, <2>3
<1> QED BY <1>2, <1>4, <1>5, SeqEqual, Zenon

(* A terminator is cut off again.                                          *)
LEMMA LastCut ==
    ASSUME NEW s \in Seq(Int)
    PROVE  /\ Len(s \o <<0>>) = Len(s) + 1 /\ SubSeq(s \o <<0>>, 1, Len(s)) = s
           /\ (s \o <<0>>)[Len(s) + 1] = 0
<1> DEFINE t == <<0>>
<1>1. t \in Seq(Int) /\ Len(t) = 1 /\ t[1] = 0 /\ Len(s) \in Nat
  BY LenProperties
<1> HIDE DEF t
<1>2. SubSeq(s \o t, 1, Len(s) + 0) = s \o SubSeq(t, 1, 0)
  <2>1. 0 \in 0..1
    OBVIOUS
  <2> QED BY <1>1, <2>1, PrefixOfConcat, Zenon
<1>3. SubSeq(t, 1, 0) = <<>> /\ s \o <<>> = s /\ Len(s) + 0 = Len(s)
  BY <1>1, ConcatEmptySeq
<1>4. Len(s \o t) = Len(s) + 1 /\ (s \o t)[Len(s) + 1] = 0
  <2>1. /\ Len(s \o t) = Len(s) + Len(t)
        /\ \A m \in 1..Len(s) + Len(t) :
               (s \o t)[m] = IF m <= Len(s) THEN s[m] ELSE t[m - Len(s)]
    BY <1>1, ConcatProperties
  <2>2. /\ Len(s) + 1 \in 1..Len(s) + Len(t) /\ ~(Len(s) + 1 <= Len(s))
        /\ Len(s) + 1 - Len(s) = 1
    BY <1>1
  <2> QED BY <1>1, <2>1, <2>2
<1> QED BY <1>2, <1>3, <1>4, Zenon DEF t

(* What was written and counted.                                           *)
LEMMA SoFar ==
    ASSUME EncodeInv, gpl
    PROVE  SubSeq(buf, 1, j) \in Seq(Int) /\ Len(SubSeq(buf, 1, j)) = j
<1>1. j \in 0..Len(buf) /\ Len(buf) \in Nat
  BY LenProperties DEF EncodeInv
<1> QED BY <1>1 DEF EncodeInv

(* The next part of the string.                                            *)
LEMMA NextPart ==
    ASSUME EncodeInv, NEW r, Parses(r), i < Len(str)
    PROVE  /\ r[i] = Gives(i) \o r[i + Goes(i)] /\ r[i + Goes(i)] \in Seq(Int)
           /\ Gives(i) \in Seq(Int) /\ i \in 0..Len(str) - 1
<1>1. Len(str) \in Nat /\ i \in 0..Len(str) - 1
  BY LenProperties DEF EncodeInv
<1>2. Goes(i) \in 1..4 /\ i + Goes(i) <= Len(str) /\ Gives(i) \in Seq(Int)
  BY <1>1, GoesOn, Zenon
<1>3. Parts[i] = Gives(i) /\ Widths[i] = Goes(i)
  BY <1>1 DEF Parts, Widths
<1>4. i + Goes(i) \in 0..Len(str)
  BY <1>1, <1>2
<1> QED BY <1>1, <1>2, <1>3, <1>4 DEF Parses, Continues

(* It is written behind what is there,                                     *)
LEMMA PartWritten ==
    ASSUME EncodeInv, gpl, NEW r, Parses(r), i < Len(str),
           r[0] = SubSeq(buf, 1, j) \o r[i],
           NEW bytes \in Seq(Int), NEW n \in 0..Len(bytes), Write(bytes),
           SubSeq(bytes, 1, n) = Gives(i)
    PROVE  r[0] = SubSeq(buf', 1, j + n) \o r[i + Goes(i)]
<1> DEFINE s == SubSeq(buf, 1, j)
           t == r[i + Goes(i)]
<1>1. s \in Seq(Int) /\ Len(s) = j /\ buf' = s \o bytes
  BY SoFar DEF Write
<1>2. r[i] = Gives(i) \o t /\ t \in Seq(Int) /\ Gives(i) \in Seq(Int)
  BY NextPart
<1> HIDE DEF s, t
<1>3. SubSeq(buf', 1, j + n) = s \o Gives(i)
  BY <1>1, PrefixOfConcat
<1>4. (s \o Gives(i)) \o t = s \o (Gives(i) \o t)
  BY <1>1, <1>2, Associates, Zenon
<1> QED BY <1>2, <1>3, <1>4 DEF s, t

(* or there is no room for it.                                             *)
LEMMA PartTooLong ==
    ASSUME EncodeInv, gpl, NEW r, Parses(r), i < Len(str),
           r[0] = SubSeq(buf, 1, j) \o r[i],
           len - j < Len(Gives(i))
    PROVE  Len(r[0]) >= len
<1> DEFINE s == SubSeq(buf, 1, j)
           t == r[i + Goes(i)]
           p == Gives(i)
<1>1. s \in Seq(Int) /\ Len(s) = j
  BY SoFar
<1>2. r[i] = p \o t /\ t \in Seq(Int) /\ p \in Seq(Int) /\ len - j < Len(p)
  BY NextPart
<1>3. j \in Nat /\ len \in Nat
  BY DEF EncodeInv
<1>4. r[0] = s \o (p \o t)
  BY <1>2
<1> HIDE DEF s, t, p
<1>5. Len(r[0]) = Len(s) + (Len(p) + Len(t)) /\ Len(t) \in Nat /\ Len(p) \in Nat
  BY <1>1, <1>2, <1>4
<1> QED BY <1>1, <1>2, <1>3, <1>5

(* A byte that is no character of more than one is taken alone.            *)
LEMMA ByteAlone ==
    ASSUME EncodeInv, i < Len(str), ValidUnichar(i) <= 1
    PROVE  /\ Goes(i) = 1 /\ Gives(i) = Piece(At(i)) /\ At(i) \in 0..255
           /\ Len(Piece(At(i))) = IF MustEscape(At(i)) THEN 4 ELSE 1
<1>1. i \in Nat /\ i \in 0..Len(str)
  BY LenProperties DEF EncodeInv
<1>2. At(i) \in 0..255
  BY <1>1, AtType
<1>3. ~(ValidUnichar(i) > 1)
  <2>1. ValidUnichar(i) > 1 => ValidUnichar(i) \in 2..4
    BY <1>1, NoLongCharacter
  <2> QED BY <2>1
<1>4. Goes(i) = 1 /\ Gives(i) = Piece(At(i))
  BY <1>3 DEF Goes, Gives
<1>5. Len(Piece(At(i))) = IF MustEscape(At(i)) THEN 4 ELSE 1
  BY <1>2, PieceIsBytes, Zenon
<1> QED BY <1>2, <1>4, <1>5

(* The terminator that sprintf(3) writes is no part of the escape.         *)
LEMMA FirstFour ==
    ASSUME NEW a \in Int, NEW b \in Int, NEW c \in Int, NEW d \in Int
    PROVE  /\ <<a, b, c, d, 0>> \in Seq(Int) /\ Len(<<a, b, c, d, 0>>) = 5
           /\ SubSeq(<<a, b, c, d, 0>>, 1, 4) = <<a, b, c, d>>
<1> DEFINE s == <<a, b, c, d>>
           t == <<0>>
<1>1. s \in Seq(Int) /\ Len(s) = 4 /\ t \in Seq(Int) /\ Len(t) = 1
  OBVIOUS
<1>2. <<a, b, c, d, 0>> \in Seq(Int) /\ Len(<<a, b, c, d, 0>>) = 5
  OBVIOUS
<1>3. s \o t = <<a, b, c, d, 0>>
  <2>1. s \o t \in Seq(Int) /\ Len(s \o t) = 5
    BY <1>1
  <2>2. ASSUME NEW m \in 1..5 PROVE (s \o t)[m] = <<a, b, c, d, 0>>[m]
    OBVIOUS
  <2> QED BY <1>2, <2>1, <2>2, SeqEqual
<1>4. SubSeq(s \o t, 1, 4) = s
  <2> HIDE DEF s, t
  <2>1. SubSeq(s \o t, 1, Len(s) + 0) = s \o SubSeq(t, 1, 0)
    <3>1. 0 \in 0..1
      OBVIOUS
    <3> QED BY <1>1, <3>1, PrefixOfConcat, Zenon
  <2>2. SubSeq(t, 1, 0) = <<>> /\ s \o <<>> = s /\ Len(s) + 0 = 4
    BY <1>1
  <2> QED BY <2>1, <2>2
<1> QED BY <1>2, <1>3, <1>4, Zenon

(* Each step writes the next part, or fails because it does not fit.       *)
LEMMA CopyKeeps ==
    ASSUME EncodeInv, gpl, NEW r, Parses(r), r[0] = SubSeq(buf, 1, j) \o r[i], Copy
    PROVE  /\ Fail => Len(r[0]) >= len
           /\ ~Fail => r[0] = SubSeq(buf', 1, j') \o r[i']
<1> DEFINE n == ValidUnichar(i)
<1>1. n > 1 /\ i < Len(str)
  BY DEF Copy, More
<1>2. i \in 0..Len(str) - 1 /\ j \in Nat /\ len \in Nat
  BY <1>1, LenProperties DEF EncodeInv
<1>3. Goes(i) = n /\ Gives(i) = SubSeq(str, i + 1, i + n)
  BY <1>1 DEF Goes, Gives
<1>4. Goes(i) \in 1..4 /\ Gives(i) \in Seq(Int) /\ Len(Gives(i)) = Goes(i)
  BY <1>1, <1>2, GoesOn, Zenon
<1>5. CASE len - j < n
  <2>1. Fail
    BY <1>5 DEF Copy
  <2> HIDE DEF n
  <2>2. len - j < Len(Gives(i))
    BY <1>3, <1>4, <1>5
  <2>3. Len(r[0]) >= len
    BY <1>1, <2>2, PartTooLong
  <2> QED BY <2>1, <2>3
<1>6. CASE ~(len - j < n)
  <2>1. Write(Gives(i)) /\ i' = i + n /\ j' = j + n /\ pc' = pc
    BY <1>3, <1>6 DEF Copy
  <2>2. ~Fail
    BY <2>1 DEF Fail, Copy, More
  <2> HIDE DEF n
  <2>3. n \in 0..Len(Gives(i)) /\ SubSeq(Gives(i), 1, n) = Gives(i)
    <3>1. n \in 1..4 /\ n = Len(Gives(i))
      BY <1>3, <1>4, Zenon
    <3>2. n \in 0..n
      BY <3>1
    <3> QED BY <1>4, <3>1, <3>2, IsItself, Zenon
  <2>4. r[0] = SubSeq(buf', 1, j + n) \o r[i + Goes(i)]
    BY <1>1, <1>4, <2>1, <2>3, PartWritten
  <2> QED BY <1>3, <2>1, <2>2, <2>4
<1> QED BY <1>5, <1>6

LEMMA EscapeKeeps ==
    ASSUME EncodeInv, gpl, NEW r, Parses(r), r[0] = SubSeq(buf, 1, j) \o r[i], Escape
    PROVE  /\ Fail => Len(r[0]) >= len
           /\ ~Fail => r[0] = SubSeq(buf', 1, j') \o r[i']
<1>1. ValidUnichar(i) <= 1 /\ i < Len(str) /\ MustEscape(At(i))
  BY DEF Escape, More
<1>2. Goes(i) = 1 /\ Gives(i) = Piece(At(i)) /\ At(i) \in 0..255 /\ Len(Gives(i)) = 4
  BY <1>1, ByteAlone
<1>3. CASE len - j < 4
  <2>1. Fail
    BY <1>3 DEF Escape
  <2>2. Len(r[0]) >= len
    BY <1>1, <1>2, <1>3, PartTooLong
  <2> QED BY <2>1, <2>2
<1>4. CASE ~(len - j < 4)
  <2> DEFINE h == Hex(At(i) \div 16)
             l == Hex(At(i) % 16)
             bytes == <<Backslash, 120, h, l, 0>>
  <2>1. Write(bytes) /\ i' = i + 1 /\ j' = j + 4 /\ pc' = pc
    BY <1>4 DEF Escape
  <2>2. ~Fail
    BY <2>1 DEF Fail, Escape, More
  <2>3. h \in Int /\ l \in Int
    BY <1>2, HexIsByte, Zenon
  <2>4. Gives(i) = <<Backslash, 120, h, l>>
    BY <1>1, <1>2 DEF Piece
  <2> HIDE DEF h, l
  <2>5. bytes \in Seq(Int) /\ Len(bytes) = 5 /\ SubSeq(bytes, 1, 4) = Gives(i)
    BY <2>3, <2>4, FirstFour DEF Backslash
  <2> HIDE DEF bytes
  <2>6. 4 \in 0..Len(bytes)
    BY <2>5
  <2>7. r[0] = SubSeq(buf', 1, j + 4) \o r[i + Goes(i)]
    BY <1>1, <2>1, <2>5, <2>6, PartWritten
  <2> QED BY <1>2, <2>1, <2>2, <2>7
<1> QED BY <1>3, <1>4

LEMMA KeepKeeps ==
    ASSUME EncodeInv, gpl, NEW r, Parses(r), r[0] = SubSeq(buf, 1, j) \o r[i], Keep
    PROVE  /\ Fail => Len(r[0]) >= len
           /\ ~Fail => r[0] = SubSeq(buf', 1, j') \o r[i']
<1>1. ValidUnichar(i) <= 1 /\ i < Len(str) /\ ~MustEscape(At(i))
  BY DEF Keep, More
<1>2. Goes(i) = 1 /\ Gives(i) = Piece(At(i)) /\ At(i) \in 0..255 /\ Len(Gives(i)) = 1
  BY <1>1, ByteAlone
<1>3. Gives(i) = <<At(i)>>
  BY <1>1, <1>2 DEF Piece
<1>4. CASE len - j < 1
  <2>1. Fail
    BY <1>4 DEF Keep
  <2>2. Len(r[0]) >= len
    BY <1>1, <1>2, <1>4, PartTooLong
  <2> QED BY <2>1, <2>2
<1>5. CASE ~(len - j < 1)
  <2>1. Write(Gives(i)) /\ i' = i + 1 /\ j' = j + 1 /\ pc' = pc
    BY <1>3, <1>5 DEF Keep
  <2>2. ~Fail
    BY <2>1 DEF Fail, Keep, More
  <2>3. Gives(i) \in Seq(Int)
    BY <1>1, NextPart
  <2>4. 1 \in 0..Len(Gives(i)) /\ SubSeq(Gives(i), 1, 1) = Gives(i)
    <3>1. 1 \in 0..1
      OBVIOUS
    <3> QED BY <1>2, <2>3, <3>1, IsItself, Zenon
  <2>5. r[0] = SubSeq(buf', 1, j + 1) \o r[i + Goes(i)]
    BY <1>1, <2>1, <2>3, <2>4, PartWritten
  <2> QED BY <1>2, <2>1, <2>2, <2>5
<1> QED BY <1>4, <1>5

(* What is terminated is whole; a whole string may lack the room for it.   *)
LEMMA TerminateKeeps ==
    ASSUME EncodeInv, gpl, NEW r, Parses(r), r[0] = SubSeq(buf, 1, j) \o r[i], Terminate
    PROVE  /\ Fail => Len(r[0]) >= len
           /\ ~Fail => buf' = r[0] \o <<0>>
<1>1. i = Len(str) /\ j \in Nat /\ len \in Nat /\ j <= len
  BY DEF Terminate, EncodeInv
<1>2. r[i] = <<>>
  BY <1>1 DEF Parses, Continues
<1>3. SubSeq(buf, 1, j) \in Seq(Int) /\ Len(SubSeq(buf, 1, j)) = j
  BY SoFar
<1>4. r[0] = SubSeq(buf, 1, j)
  BY <1>2, <1>3, ConcatEmptySeq
<1>5. CASE len - j < 1
  <2>1. Fail
    BY <1>5 DEF Terminate
  <2>2. Len(r[0]) >= len
    <3>1. j >= len
      BY <1>1, <1>5
    <3> QED BY <1>3, <1>4, <3>1, Zenon
  <2> QED BY <2>1, <2>2
<1>6. CASE ~(len - j < 1)
  <2>1. Write(<<0>>) /\ ret' = 0
    BY <1>6 DEF Terminate
  <2>2. ~Fail
    BY <2>1 DEF Fail, EINVAL
  <2>3. buf' = r[0] \o <<0>>
    BY <1>4, <2>1 DEF Write
  <2> QED BY <2>2, <2>3
<1> QED BY <1>5, <1>6

(* The copy without the option.                                            *)
LEMMA StrlcpyPlain ==
    ASSUME EncodeInv, Strlcpy
    PROVE  PlainInv'
<1>1. /\ ~gpl /\ UNCHANGED <<gpl, str, len>>
      /\ ret' = IF Len(str) < len THEN 0 ELSE EINVAL
      /\ buf' = IF len = 0 THEN <<>>
                ELSE Append(SubSeq(str, 1, Min({Len(str), len - 1})), 0)
  BY DEF Strlcpy, input
<1>2. Len(str) \in Nat /\ len \in Nat /\ str \in Seq(1..255)
  BY LenProperties DEF EncodeInv
<1>3. ASSUME Len(str) < len PROVE buf' = str \o <<0>>
  <2>1. Min({Len(str), len - 1}) = Len(str)
    <3>1. Len(str) <= len - 1
      BY <1>2, <1>3
    <3> QED BY <1>2, <3>1 DEF Min
  <2>2. SubSeq(str, 1, Len(str)) = str
    BY <1>2, SubSeqFull
  <2>3. buf' = Append(str, 0)
    <3>1. len # 0
      BY <1>2, <1>3
    <3> QED BY <1>1, <2>1, <2>2, <3>1, Zenon
  <2>4. Append(str, 0) = str \o <<0>>
    <3>1. str \in Seq(Int)
      <4>1. 1..255 \subseteq Int
        OBVIOUS
      <4> QED BY <1>2, <4>1, SeqMonotonic
    <3> QED BY <3>1, AppendIsConcat
  <2> QED BY <2>3, <2>4
<1> QED BY <1>1, <1>3 DEF PlainInv

(* Each step keeps what is written in step with what is read.              *)
LEMMA KeptStep ==
    EncodeInv /\ KeptInv /\ PlainInv /\ [Next]_vars => KeptInv' /\ PlainInv'
<1> SUFFICES ASSUME EncodeInv, KeptInv, PlainInv, [Next]_vars
             PROVE  KeptInv' /\ PlainInv'
  OBVIOUS
<1>1. UNCHANGED <<gpl, str, len>>
  BY DEF Next, vars, input, Copy, Escape, Keep, Terminate, Strlcpy, Fail
<1>2. CASE UNCHANGED vars
  BY <1>2, ParsesKept DEF vars, input, KeptInv, PlainInv
<1>3. ASSUME Copy \/ Escape \/ Keep \/ Terminate PROVE KeptInv' /\ PlainInv'
  <2>1. gpl /\ gpl' /\ pc = "encode"
    BY <1>1, <1>3 DEF Copy, Escape, Keep, Terminate, More
  <2>2. PlainInv'
    BY <2>1 DEF PlainInv
  <2>3. ASSUME NEW r, Parses(r)
        PROVE  (/\ pc = "encode" => r[0] = SubSeq(buf, 1, j) \o r[i]
                /\ pc = "done" /\ ret = 0 => buf = r[0] \o <<0>>
                /\ pc = "done" /\ ret # 0 => Len(r[0]) >= len)'
    <3>1. r[0] = SubSeq(buf, 1, j) \o r[i]
      BY <2>1, <2>3 DEF KeptInv
    <3>2. ASSUME Copy \/ Escape \/ Keep, ~Fail
          PROVE  /\ r[0] = SubSeq(buf', 1, j') \o r[i']
                 /\ pc' = "encode"
      <4>1. r[0] = SubSeq(buf', 1, j') \o r[i']
        BY <2>1, <2>3, <3>1, <3>2, CopyKeeps, EscapeKeeps, KeepKeeps
      <4>2. pc' = pc
        BY <3>2 DEF Copy, Escape, Keep
      <4> QED BY <2>1, <4>1, <4>2
    <3>3. ASSUME Terminate, ~Fail
          PROVE  buf' = r[0] \o <<0>> /\ pc' = "done" /\ ret' = 0
      <4>1. buf' = r[0] \o <<0>>
        BY <2>1, <2>3, <3>1, <3>3, TerminateKeeps
      <4> QED BY <3>3, <4>1 DEF Terminate
    <3>4. ASSUME Fail
          PROVE  Len(r[0]) >= len /\ pc' = "done" /\ ret' # 0
      <4>1. Len(r[0]) >= len
        BY <1>3, <2>1, <2>3, <3>1, <3>4, CopyKeeps, EscapeKeeps, KeepKeeps,
           TerminateKeeps
      <4>2. pc' = "done" /\ ret' # 0
        BY <3>4 DEF Fail, EINVAL
      <4> QED BY <4>1, <4>2
    <3> QED BY <1>1, <1>3, <3>2, <3>3, <3>4
  <2>4. KeptInv'
    BY <1>1, <2>3, ParsesKept DEF KeptInv
  <2> QED BY <2>2, <2>4
<1>4. CASE Strlcpy
  <2>1. ~gpl'
    BY <1>4 DEF Strlcpy, input
  <2> QED BY <1>4, <2>1, StrlcpyPlain DEF KeptInv
<1> QED BY <1>2, <1>3, <1>4 DEF Next

(* In every reachable state the buffer holds what comes of the bytes read, *)
(* and a failure has its reason.                                           *)
THEOREM KeptAlways == Spec => [](KeptInv /\ PlainInv)
<1>1. Init => KeptInv /\ PlainInv
  <2> SUFFICES ASSUME Init PROVE KeptInv /\ PlainInv
    OBVIOUS
  <2>1. ASSUME NEW r, Parses(r) PROVE r[0] = SubSeq(buf, 1, j) \o r[i]
    <3>1. r[0] \in Seq(Int) /\ i = 0 /\ j = 0
      <4>1. Len(str) \in Nat
        BY EncodeAssumption, LenProperties DEF Init
      <4> QED BY <2>1, <4>1 DEF Init, Parses
    <3>2. SubSeq(buf, 1, 0) = <<>>
      OBVIOUS
    <3> QED BY <3>1, <3>2, ConcatEmptySeq
  <2> QED BY <2>1 DEF Init, KeptInv, PlainInv
<1> QED BY <1>1, EncodeSafe, KeptStep, PTL DEF Spec

(* What comes through is just the text of the string, and it fits.         *)
THEOREM OnlyTextIsKept == Spec => []KeepsOnlyText
<1>1. EncodeInv /\ KeptInv /\ PlainInv => KeepsOnlyText
  <2> SUFFICES ASSUME EncodeInv, KeptInv, PlainInv, pc = "done"
               PROVE  /\ ret = 0 <=> Len(IF gpl THEN Reference ELSE str) < len
                      /\ gpl /\ ret = 0 => Out = Reference
    BY DEF KeepsOnlyText
  <2>1. Len(str) \in Nat /\ len \in Nat /\ ret \in {0, EINVAL} /\ EINVAL # 0
    BY LenProperties DEF EncodeInv, EINVAL
  <2>2. CASE ~gpl
    BY <2>1, <2>2 DEF PlainInv
  <2>3. CASE gpl
    <3>1. PICK r : Parses(r)
      BY ParsesExists
    <3> DEFINE s == r[0]
    <3>2. Reference = s
      BY <3>1, ReferenceIs
    <3>3. s \in Seq(Int) /\ Len(s) \in Nat
      <4>1. s \in Seq(Int)
        BY <2>1, <3>1 DEF Parses
      <4> QED BY <4>1, LenProperties
    <3>4. ret = 0 => buf = s \o <<0>> /\ Len(buf) <= len
      BY <2>3, <3>1 DEF KeptInv, EncodeInv
    <3>5. ret # 0 => Len(s) >= len
      BY <2>3, <3>1 DEF KeptInv
    <3> HIDE DEF s
    <3>6. Len(s \o <<0>>) = Len(s) + 1 /\ SubSeq(s \o <<0>>, 1, Len(s)) = s
      BY <3>3, LastCut
    <3>7. ret = 0 => Out = s /\ Len(s) < len
      <4> SUFFICES ASSUME ret = 0 PROVE Out = s /\ Len(s) < len
        OBVIOUS
      <4>1. Len(buf) = Len(s) + 1 /\ Len(buf) - 1 = Len(s) /\ Len(s) < len
        BY <2>1, <3>3, <3>4, <3>6
      <4> QED BY <3>4, <3>6, <4>1, Zenon DEF Out
    <3>8. ret # 0 => ~(Len(s) < len)
      BY <2>1, <3>3, <3>5
    <3> QED BY <2>3, <3>2, <3>7, <3>8, Zenon
  <2> QED BY <2>2, <2>3
<1> QED BY <1>1, EncodeSafe, KeptAlways, PTL

-----------------------------------------------------------------------------
(* Reading an encoded string back.                                         *)

IsEscape(s, k) == s[k + 1] = Backslash /\ k + 4 <= Len(s)
Reading(s) ==
    [k \in 0..Len(s) - 1 |->
        IF IsEscape(s, k) THEN <<16 * Value(s[k + 3]) + Value(s[k + 4])>>
        ELSE <<s[k + 1]>>]
Strides(s) == [k \in 0..Len(s) - 1 |-> IF IsEscape(s, k) THEN 4 ELSE 1]

(* f[k] is what is read from the bytes from k on.                          *)
Reads(s, f) == /\ f \in [0..Len(s) -> Seq(Int)]
               /\ Continues(f, 0, Len(s), Reading(s), Strides(s))

LEMMA ValueIsInt == \A h \in Int : Value(h) \in Int
BY DEF Value

(* The reading covers what is read.                                        *)
LEMMA ReadingSteps ==
    ASSUME NEW s \in Seq(Int)
    PROVE  Len(s) \in Nat /\ Steps(Len(s), Reading(s), Strides(s))
<1>1. Len(s) \in Nat /\ \A m \in 1..Len(s) : s[m] \in Int
  BY LenProperties
<1>2. ASSUME NEW k \in 0..Len(s) - 1
      PROVE  /\ Strides(s)[k] \in Nat \ {0} /\ k + Strides(s)[k] <= Len(s)
             /\ Reading(s)[k] \in Seq(Int)
  <2>1. CASE IsEscape(s, k)
    <3>1. s[k + 3] \in Int /\ s[k + 4] \in Int /\ k + 4 <= Len(s)
      BY <1>1, <2>1 DEF IsEscape
    <3>2. Value(s[k + 3]) \in Int /\ Value(s[k + 4]) \in Int
      BY <3>1, ValueIsInt, Zenon
    <3> QED BY <2>1, <3>1, <3>2 DEF Reading, Strides
  <2>2. CASE ~IsEscape(s, k)
    <3>1. s[k + 1] \in Int
      BY <1>1
    <3> QED BY <1>1, <2>2, <3>1 DEF Reading, Strides
  <2> QED BY <2>1, <2>2
<1> QED BY <1>1, <1>2 DEF Steps

LEMMA ReadsExists ==
    ASSUME NEW s \in Seq(Int)
    PROVE  \E f : Reads(s, f)
BY ReadingSteps, FromTheEnd DEF Reads

(* There is one reading, and Decode is it.                                 *)
LEMMA DecodeIs ==
    ASSUME NEW s \in Seq(Int), NEW f, Reads(s, f)
    PROVE  Decode(s) = f[0]
<1> DEFINE N == Len(s)
           Then(d, k) ==
               IF k > N THEN <<>>
               ELSE IF s[k] = Backslash /\ k + 3 <= N
               THEN <<16 * Value(s[k + 2]) + Value(s[k + 3])>> \o d[k + 4]
               ELSE <<s[k]>> \o d[k + 1]
           Rule(d) == d = [k \in 1..N + 1 |-> Then(d, k)]
           g == CHOOSE d : Rule(d)
           h == [k \in 1..N + 1 |-> f[k - 1]]
           q == [k \in 0..N |-> g[k + 1]]
<1>1. N \in Nat /\ Steps(N, Reading(s), Strides(s))
  BY ReadingSteps
<1>2. ASSUME NEW d, NEW k \in 0..N - 1
      PROVE  Then(d, k + 1) = Reading(s)[k] \o d[k + Strides(s)[k] + 1]
  <2>1. ~(k + 1 > N) /\ k + 1 + 3 = k + 4 /\ k + 1 + 2 = k + 3 /\ k + 1 + 4 = k + 4 + 1
    BY <1>1
  <2>2. CASE IsEscape(s, k)
    <3>1. Then(d, k + 1) = <<16 * Value(s[k + 3]) + Value(s[k + 4])>> \o d[k + 4 + 1]
      BY <2>1, <2>2 DEF IsEscape
    <3>2. /\ Reading(s)[k] = <<16 * Value(s[k + 3]) + Value(s[k + 4])>>
          /\ Strides(s)[k] = 4
      BY <2>2 DEF Reading, Strides
    <3> QED BY <3>1, <3>2
  <2>3. CASE ~IsEscape(s, k)
    <3>1. Then(d, k + 1) = <<s[k + 1]>> \o d[k + 1 + 1]
      BY <2>1, <2>3 DEF IsEscape
    <3>2. Reading(s)[k] = <<s[k + 1]>> /\ Strides(s)[k] = 1
      BY <2>3 DEF Reading, Strides
    <3> QED BY <3>1, <3>2
  <2> QED BY <2>2, <2>3
<1>3. Decode(s) = g[1]
  BY DEF Decode
<1>4. \A d : Then(d, N + 1) = <<>>
  BY <1>1
<1>5. f \in [0..N -> Seq(Int)] /\ Continues(f, 0, N, Reading(s), Strides(s))
  BY DEF Reads
<1> HIDE DEF Then, N
<1>6. Rule(h)
  <2> SUFFICES ASSUME NEW k \in 1..N + 1 PROVE h[k] = Then(h, k)
    OBVIOUS
  <2>1. CASE k = N + 1
    BY <1>1, <1>4, <1>5, <2>1 DEF Continues
  <2>2. CASE k # N + 1
    <3> DEFINE x == k - 1
    <3>1. x \in 0..N - 1 /\ k = x + 1
      BY <1>1, <2>2
    <3> HIDE DEF x
    <3>2. Then(h, x + 1) = Reading(s)[x] \o h[x + Strides(s)[x] + 1]
      BY <1>2, <3>1
    <3>3. x + Strides(s)[x] \in 0..N
      BY <1>1, <3>1 DEF Steps
    <3>4. h[x + Strides(s)[x] + 1] = f[x + Strides(s)[x]] /\ h[x + 1] = f[x]
      BY <1>1, <3>1, <3>3
    <3>5. f[x] = Reading(s)[x] \o f[x + Strides(s)[x]]
      BY <1>5, <3>1 DEF Continues
    <3> QED BY <3>1, <3>2, <3>4, <3>5
  <2> QED BY <2>1, <2>2
<1>7. Rule(g)
  <2> HIDE DEF Rule, h
  <2> QED BY <1>6
<1> HIDE DEF g
<1>8. Continues(q, 0, N, Reading(s), Strides(s))
  <2>1. q[N] = <<>>
    BY <1>1, <1>4, <1>7
  <2>2. ASSUME NEW k \in 0..N - 1
        PROVE  q[k] = Reading(s)[k] \o q[k + Strides(s)[k]]
    <3>1. k + Strides(s)[k] \in 0..N
      BY <1>1 DEF Steps
    <3>2. q[k + Strides(s)[k]] = g[k + Strides(s)[k] + 1] /\ q[k] = g[k + 1]
      BY <1>1, <3>1
    <3>3. g[k + 1] = Then(g, k + 1)
      <4>1. \A x \in 1..N + 1 : g[x] = Then(g, x)
        BY <1>7
      <4>2. k + 1 \in 1..N + 1
        BY <1>1
      <4> QED BY <4>1, <4>2, Zenon
    <3> QED BY <1>2, <3>2, <3>3
  <2> QED BY <2>1, <2>2 DEF Continues
<1>9. q[0] = f[0]
  <2> HIDE DEF q
  <2>1. \A k \in 0..N : q[k] = f[k]
    BY <1>1, <1>5, <1>8, OneFromTheEnd
  <2> QED BY <1>1, <2>1
<1> QED BY <1>1, <1>3, <1>9

(* One byte is read, or an escape.                                         *)
LEMMA ReadsOn ==
    ASSUME NEW s \in Seq(Int), NEW f, Reads(s, f), NEW k \in 0..Len(s) - 1
    PROVE  /\ s[k + 1] # Backslash => f[k] = <<s[k + 1]>> \o f[k + 1]
           /\ s[k + 1] = Backslash /\ k + 4 <= Len(s) =>
                f[k] = <<16 * Value(s[k + 3]) + Value(s[k + 4])>> \o f[k + 4]
<1>1. f[k] = Reading(s)[k] \o f[k + Strides(s)[k]]
  BY DEF Reads, Continues
<1>2. ASSUME s[k + 1] # Backslash PROVE f[k] = <<s[k + 1]>> \o f[k + 1]
  <2>1. Reading(s)[k] = <<s[k + 1]>> /\ Strides(s)[k] = 1
    BY <1>2 DEF Reading, Strides, IsEscape
  <2> QED BY <1>1, <2>1
<1>3. ASSUME s[k + 1] = Backslash, k + 4 <= Len(s)
      PROVE  f[k] = <<16 * Value(s[k + 3]) + Value(s[k + 4])>> \o f[k + 4]
  <2>1. /\ Reading(s)[k] = <<16 * Value(s[k + 3]) + Value(s[k + 4])>>
        /\ Strides(s)[k] = 4
    BY <1>3 DEF Reading, Strides, IsEscape
  <2> QED BY <1>1, <2>1
<1> QED BY <1>2, <1>3

(* The two digits say which byte it was.                                   *)
LEMMA DigitBack == \A d \in 0..15 : Value(Hex(d)) = d
BY DEF Value, Hex, Digits

LEMMA HexBack ==
    \A c \in 0..255 : 16 * Value(Hex(c \div 16)) + Value(Hex(c % 16)) = c
<1> TAKE c \in 0..255
<1>1. c \div 16 \in 0..15 /\ c % 16 \in 0..15 /\ 16 * (c \div 16) + (c % 16) = c
  OBVIOUS
<1>2. Value(Hex(c \div 16)) = c \div 16 /\ Value(Hex(c % 16)) = c % 16
  BY <1>1, DigitBack, Zenon
<1> QED BY <1>1, <1>2

(* The rest of the string begins with its next byte.                       *)
LEMMA RestIs ==
    ASSUME EncodeInv, NEW k \in 0..Len(str) - 1
    PROVE  SubSeq(str, k + 1, Len(str)) = <<At(k)>> \o SubSeq(str, k + 2, Len(str))
<1>1. Len(str) \in Nat /\ str \in Seq(1..255)
  BY LenProperties DEF EncodeInv
<1>2. k + 1 \in 1..Len(str) /\ Len(str) \in k + 1..Len(str) /\ k + 1 + 1 = k + 2
  BY <1>1
<1>3. SubSeq(str, k + 1, Len(str)) = <<str[k + 1]>> \o SubSeq(str, k + 1 + 1, Len(str))
  BY <1>1, <1>2, SubSeqRecursiveFirst
<1>4. At(k) = str[k + 1]
  BY <1>1 DEF At
<1> QED BY <1>2, <1>3, <1>4

(* A sequence joined from two.                                             *)
LEMMA Joined ==
    \A s, t \in Seq(Int) :
        /\ s \o t \in Seq(Int) /\ Len(s \o t) = Len(s) + Len(t)
        /\ \A m \in 1..Len(s) + Len(t) :
               (s \o t)[m] = IF m <= Len(s) THEN s[m] ELSE t[m - Len(s)]
BY ConcatProperties

(* g stands in s behind p.                                                 *)
Behind(p, g, t, s) ==
    /\ s = (p \o g) \o t
    /\ p \o g \in Seq(Int) /\ Len(p \o g) = Len(p) + Len(g)
    /\ Len(p) \in Nat /\ Len(s) \in Nat /\ Len(p) + Len(g) <= Len(s)
    /\ \A m \in 1..Len(g) : s[Len(p) + m] = g[m]

LEMMA StandsBehind ==
    \A p, g, t \in Seq(Int) : Behind(p, g, t, p \o (g \o t))
<1> TAKE p, g, t \in Seq(Int)
<1> DEFINE s == p \o (g \o t)
<1>1. Len(p) \in Nat /\ Len(g) \in Nat /\ Len(t) \in Nat
  BY LenProperties
<1>2. (p \o g) \o t = s
  BY Associates, Zenon
<1> HIDE DEF s
<1> DEFINE q == p \o g
<1>3. q \in Seq(Int) /\ Len(q) = Len(p) + Len(g)
      /\ \A m \in 1..Len(p) + Len(g) :
            q[m] = IF m <= Len(p) THEN p[m] ELSE g[m - Len(p)]
  BY Joined, Zenon
<1> HIDE DEF q
<1>4. /\ q \o t \in Seq(Int) /\ Len(q \o t) = Len(q) + Len(t)
      /\ \A m \in 1..Len(q) + Len(t) :
            (q \o t)[m] = IF m <= Len(q) THEN q[m] ELSE t[m - Len(q)]
  BY <1>3, Joined, Zenon
<1>5. s = q \o t
  BY <1>2 DEF q
<1>6. ASSUME NEW m \in 1..Len(g) PROVE s[Len(p) + m] = g[m]
  <2> DEFINE x == Len(p) + m
  <2>1. /\ x \in 1..Len(p) + Len(g) + Len(t) /\ x <= Len(p) + Len(g)
        /\ x \in 1..Len(p) + Len(g) /\ ~(x <= Len(p)) /\ x - Len(p) = m
    <3> DEFINE a == Len(p)
               b == Len(g)
               c == Len(t)
    <3>1. a \in Nat /\ b \in Nat /\ c \in Nat /\ m \in 1..b
      BY <1>1
    <3> HIDE DEF a, b, c
    <3>2. /\ a + m \in 1..a + b + c /\ a + m <= a + b /\ a + m \in 1..a + b
          /\ ~(a + m <= a) /\ (a + m) - a = m
      BY <3>1
    <3> QED BY <3>2, Zenon DEF a, b, c
  <2> HIDE DEF x
  <2>2. x \in 1..Len(q) + Len(t) /\ x <= Len(q)
    BY <1>3, <2>1, Zenon
  <2>3. (q \o t)[x] = q[x]
    BY <1>4, <2>2, Zenon
  <2>4. q[x] = g[x - Len(p)]
    BY <1>3, <2>1, Zenon
  <2> QED BY <1>5, <2>1, <2>3, <2>4, Zenon DEF x
<1>7. Len(s) = Len(p) + Len(g) + Len(t)
  BY <1>1, <1>3, <1>4, <1>5
<1>8. Len(p) + Len(g) <= Len(s) /\ Len(s) \in Nat
  BY <1>1, <1>7
<1> QED BY <1>1, <1>2, <1>3, <1>6, <1>8 DEF q, s, Behind

(* What comes of the bytes from k on is read back as those bytes, wherever *)
(* it stands in what is read.                                              *)
ReadsBack(k, r, s, f) ==
    \A p \in Seq(Int) : p \o r[k] = s => f[Len(p)] = SubSeq(str, k + 1, Len(str))

(* A character of more bytes is read back byte by byte: none of them is a  *)
(* backslash.                                                              *)
LEMMA CharacterBack ==
    ASSUME EncodeInv, NEW r, Parses(r), NEW s \in Seq(Int), NEW f, Reads(s, f),
           NEW k \in 0..Len(str) - 1, ValidUnichar(k) > 1,
           ReadsBack(k + Goes(k), r, s, f)
    PROVE  ReadsBack(k, r, s, f)
<1> SUFFICES ASSUME NEW p \in Seq(Int), p \o r[k] = s
             PROVE  f[Len(p)] = SubSeq(str, k + 1, Len(str))
  BY DEF ReadsBack
<1> DEFINE n == ValidUnichar(k)
           g == SubSeq(str, k + 1, k + n)
           t == r[k + n]
           Rest(x) == SubSeq(str, x + 1, Len(str))
<1>1. Len(str) \in Nat /\ k \in Nat /\ k \in 0..Len(str) /\ k + 0 = k
  BY LenProperties DEF EncodeInv
<1>2. n \in 2..4 /\ k + n <= Len(str) /\ Goes(k) = n /\ Gives(k) = g /\ n # EINVAL
  <2>1. n \in 2..4 /\ k + n <= Len(str)
    BY <1>1, NoLongCharacter, CharacterInside
  <2>2. Goes(k) = n /\ Gives(k) = g
    BY DEF Goes, Gives
  <2> HIDE DEF n
  <2>3. n # EINVAL
    BY <2>1 DEF EINVAL
  <2> QED BY <2>1, <2>2, <2>3, Zenon
<1>3. \A m \in 0..n - 1 : At(k + m) >= 128
  BY <1>2 DEF ValidUnichar
<1> HIDE DEF n
<1>4. g \in Seq(Int) /\ Len(g) = n /\ \A m \in 1..n : g[m] = At(k + m - 1)
  <2>1. n \in Nat
    BY <1>2
  <2> QED BY <1>1, <1>2, <2>1, PieceIs, Zenon
<1>5. t \in Seq(Int) /\ r[k] = g \o t
  <2>1. Parts[k] = g /\ Widths[k] = n
    BY <1>2 DEF Parts, Widths
  <2>2. k + n \in 0..Len(str)
    BY <1>1, <1>2
  <2> QED BY <2>1, <2>2 DEF Parses, Continues
<1> HIDE DEF g, t
<1>6. /\ s = (p \o g) \o t
      /\ p \o g \in Seq(Int) /\ Len(p \o g) = Len(p) + Len(g)
      /\ Len(p) \in Nat /\ Len(s) \in Nat /\ Len(p) + Len(g) <= Len(s)
      /\ \A m \in 1..Len(g) : s[Len(p) + m] = g[m]
  <2>1. s = p \o (g \o t)
    BY <1>5
  <2>2. Behind(p, g, t, p \o (g \o t))
    BY <1>4, <1>5, StandsBehind, Zenon
  <2> QED BY <2>1, <2>2, Zenon DEF Behind
<1>7. f[Len(p) + n] = Rest(k + n)
  BY <1>2, <1>4, <1>6 DEF ReadsBack, t
<1>8. ASSUME NEW m \in 0..n - 1, f[Len(p) + (m + 1)] = Rest(k + (m + 1))
      PROVE  f[Len(p) + m] = Rest(k + m)
  <2> DEFINE x == Len(p) + m
             y == k + m
  <2>1. /\ x \in 0..Len(s) - 1 /\ y \in 0..Len(str) - 1 /\ m + 1 \in 1..n
        /\ x + 1 = Len(p) + (m + 1) /\ y + 1 = k + (m + 1) /\ y = k + (m + 1) - 1
        /\ y + 2 = y + 1 + 1
    BY <1>1, <1>2, <1>4, <1>6
  <2>2. s[x + 1] = At(y)
    BY <1>4, <1>6, <2>1
  <2>3. At(y) # Backslash
    <3>1. At(y) >= 128
      BY <1>3
    <3> QED BY <3>1 DEF Backslash
  <2>4. f[x + 1] = Rest(y + 1)
    BY <1>8, <2>1
  <2> HIDE DEF x, y
  <2>5. f[x] = <<At(y)>> \o f[x + 1]
    <3>1. s[x + 1] # Backslash
      BY <2>2, <2>3, Zenon
    <3>2. f[x] = <<s[x + 1]>> \o f[x + 1]
      BY <2>1, <3>1, ReadsOn, Zenon
    <3> QED BY <2>2, <3>2, Zenon
  <2>6. SubSeq(str, y + 1, Len(str)) = <<At(y)>> \o SubSeq(str, y + 2, Len(str))
    BY <2>1, RestIs
  <2> QED BY <2>1, <2>4, <2>5, <2>6 DEF x, y
<1> DEFINE Back(m) == f[Len(p) + m] = Rest(k + m)
<1>9. \A m \in 0..n - 1 : Back(m + 1) => Back(m)
  BY <1>8
<1>10. Back(n)
  BY <1>7
<1>11. Back(0) => f[Len(p)] = Rest(k)
  BY <1>1, <1>6
<1> HIDE DEF Back
<1>12. Back(0)
  <2>1. 0 + 1 = 1 /\ 1 + 1 = 2 /\ 2 + 1 = 3 /\ 3 + 1 = 4
    OBVIOUS
  <2>2. Back(2) => Back(0)
    <3>1. 0 \in 0..n - 1 /\ 1 \in 0..n - 1
      BY <1>2
    <3> QED BY <1>9, <2>1, <3>1
  <2>3. CASE n = 2
    BY <1>10, <2>2, <2>3
  <2>4. CASE n = 3
    <3>1. 2 \in 0..n - 1
      BY <2>4
    <3> QED BY <1>9, <1>10, <2>1, <2>2, <2>4, <3>1
  <2>5. CASE n = 4
    <3>1. 2 \in 0..n - 1 /\ 3 \in 0..n - 1
      BY <2>5
    <3> QED BY <1>9, <1>10, <2>1, <2>2, <2>5, <3>1
  <2> QED BY <1>2, <2>3, <2>4, <2>5
<1> QED BY <1>11, <1>12

(* A byte alone is read back from itself, or from its escape.              *)
LEMMA ByteBack ==
    ASSUME EncodeInv, NEW r, Parses(r), NEW s \in Seq(Int), NEW f, Reads(s, f),
           NEW k \in 0..Len(str) - 1, ~(ValidUnichar(k) > 1),
           ReadsBack(k + Goes(k), r, s, f)
    PROVE  ReadsBack(k, r, s, f)
<1> SUFFICES ASSUME NEW p \in Seq(Int), p \o r[k] = s
             PROVE  f[Len(p)] = SubSeq(str, k + 1, Len(str))
  BY DEF ReadsBack
<1> DEFINE c == At(k)
           g == Piece(c)
           t == r[k + 1]
           Rest(x) == SubSeq(str, x + 1, Len(str))
<1>1. Len(str) \in Nat /\ k \in Nat /\ k + 1 + 1 = k + 2
  BY LenProperties DEF EncodeInv
<1>2. Goes(k) = 1 /\ Gives(k) = g /\ c \in 0..255
  <2>1. c \in 0..255
    BY <1>1, AtType
  <2> QED BY <2>1 DEF Goes, Gives
<1>3. Rest(k) = <<c>> \o Rest(k + 1)
  BY <1>1, RestIs
<1> HIDE DEF c
<1>4. g \in Seq(Int) /\ Len(g) = IF MustEscape(c) THEN 4 ELSE 1
  BY <1>2, PieceIsBytes, Zenon
<1>5. t \in Seq(Int) /\ r[k] = g \o t
  <2>1. Parts[k] = g /\ Widths[k] = 1
    BY <1>2 DEF Parts, Widths
  <2>2. k + 1 \in 0..Len(str)
    BY <1>1
  <2> QED BY <2>1, <2>2 DEF Parses, Continues
<1> HIDE DEF g, t
<1>6. /\ s = (p \o g) \o t
      /\ p \o g \in Seq(Int) /\ Len(p \o g) = Len(p) + Len(g)
      /\ Len(p) \in Nat /\ Len(s) \in Nat /\ Len(p) + Len(g) <= Len(s)
      /\ \A m \in 1..Len(g) : s[Len(p) + m] = g[m]
  <2>1. s = p \o (g \o t)
    BY <1>5
  <2>2. Behind(p, g, t, p \o (g \o t))
    BY <1>4, <1>5, StandsBehind, Zenon
  <2> QED BY <2>1, <2>2, Zenon DEF Behind
<1>7. f[Len(p) + Len(g)] = Rest(k + 1)
  BY <1>2, <1>6 DEF ReadsBack, t
<1> HIDE DEF Rest
<1>8. CASE MustEscape(c)
  <2> DEFINE h == Hex(c \div 16)
             l == Hex(c % 16)
  <2>1. g = <<Backslash, 120, h, l>> /\ Len(g) = 4
    BY <1>4, <1>8 DEF g, Piece
  <2>2. 16 * Value(h) + Value(l) = c
    BY <1>2, HexBack, Zenon
  <2> HIDE DEF h, l
  <2>3. /\ s[Len(p) + 1] = Backslash /\ s[Len(p) + 3] = h /\ s[Len(p) + 4] = l
        /\ Len(p) + 4 <= Len(s) /\ Len(p) \in 0..Len(s) - 1
    <3>1. g[1] = Backslash /\ g[3] = h /\ g[4] = l
      BY <2>1
    <3>2. 1 \in 1..4 /\ 3 \in 1..4 /\ 4 \in 1..4
      OBVIOUS
    <3>3. s[Len(p) + 1] = Backslash /\ s[Len(p) + 3] = h /\ s[Len(p) + 4] = l
      BY <1>6, <2>1, <3>1, <3>2, Zenon
    <3> QED BY <1>6, <2>1, <3>3
  <2>4. f[Len(p)] = <<16 * Value(s[Len(p) + 3]) + Value(s[Len(p) + 4])>>
                        \o f[Len(p) + 4]
    BY <2>3, ReadsOn, Zenon
  <2> QED BY <1>3, <1>7, <2>1, <2>2, <2>3, <2>4, Zenon DEF Rest
<1>9. CASE ~MustEscape(c)
  <2>1. g = <<c>> /\ Len(g) = 1 /\ c # Backslash
    BY <1>4, <1>9 DEF g, Piece, MustEscape
  <2>2. s[Len(p) + 1] = c /\ Len(p) \in 0..Len(s) - 1
    <3>1. g[1] = c /\ 1 \in 1..Len(g)
      BY <2>1
    <3> QED BY <1>6, <2>1, <3>1
  <2>3. f[Len(p)] = <<s[Len(p) + 1]>> \o f[Len(p) + 1]
    BY <2>1, <2>2, ReadsOn, Zenon
  <2> QED BY <1>3, <1>7, <2>1, <2>2, <2>3, Zenon DEF Rest
<1> QED BY <1>8, <1>9

(* So all of it is read back.                                              *)
LEMMA ReadBack ==
    ASSUME EncodeInv, NEW r, Parses(r)
    PROVE  Decode(r[0]) = str
<1> DEFINE s == r[0]
           N == Len(str)
<1>1. N \in Nat /\ s \in Seq(Int) /\ r[N] = <<>>
  <2>1. N \in Nat
    BY LenProperties DEF EncodeInv
  <2> QED BY <2>1 DEF Parses, Continues
<1>2. PICK f : Reads(s, f)
  BY <1>1, ReadsExists
<1> DEFINE T == {m \in Nat : m <= N => \A k \in N - m..N : ReadsBack(k, r, s, f)}
<1>3. 0 \in T
  <2> SUFFICES ASSUME NEW p \in Seq(Int), p \o r[N] = s
               PROVE  f[Len(p)] = SubSeq(str, N + 1, N)
    <3>1. ReadsBack(N, r, s, f)
      BY DEF ReadsBack
    <3>2. \A k \in N - 0..N : k = N
      BY <1>1
    <3> QED BY <3>1, <3>2, Zenon
  <2>1. p = s
    BY <1>1, ConcatEmptySeq
  <2>2. f[Len(s)] = <<>>
    BY <1>2 DEF Reads, Continues
  <2>3. SubSeq(str, N + 1, N) = <<>>
    BY <1>1, SubSeqEmpty
  <2> QED BY <2>1, <2>2, <2>3
<1>4. ASSUME NEW m \in Nat, m \in T PROVE m + 1 \in T
  <2> SUFFICES ASSUME m + 1 <= N, NEW k \in N - (m + 1)..N
               PROVE  ReadsBack(k, r, s, f)
    OBVIOUS
  <2>1. \A x \in N - m..N : ReadsBack(x, r, s, f)
    BY <1>1, <1>4
  <2>2. CASE k \in N - m..N
    BY <2>1, <2>2
  <2>3. CASE k \notin N - m..N
    <3>1. k \in 0..N - 1 /\ k = N - (m + 1)
      BY <1>1, <2>3
    <3>2. Goes(k) \in 1..4 /\ k + Goes(k) <= N
      BY <3>1, GoesOn, Zenon
    <3>3. ReadsBack(k + Goes(k), r, s, f)
      <4>1. k + Goes(k) \in N - m..N
        BY <1>1, <3>1, <3>2
      <4> QED BY <2>1, <4>1, Zenon
    <3> HIDE DEF s
    <3> QED BY <1>1, <1>2, <3>1, <3>3, CharacterBack, ByteBack, Zenon
  <2> QED BY <2>2, <2>3
<1> HIDE DEF T
<1>5. N \in T
  BY <1>1, <1>3, <1>4, SetInduction
<1>6. ReadsBack(0, r, s, f)
  <2>1. 0 \in N - N..N
    BY <1>1
  <2> QED BY <1>1, <1>5, <2>1 DEF T
<1>7. f[0] = SubSeq(str, 1, Len(str))
  <2>1. <<>> \in Seq(Int) /\ <<>> \o s = s /\ Len(<<>>) = 0 /\ 0 + 1 = 1
    BY <1>1, ConcatEmptySeq
  <2> QED BY <1>6, <2>1 DEF ReadsBack
<1>8. SubSeq(str, 1, Len(str)) = str
  BY SubSeqFull DEF EncodeInv
<1> QED BY <1>1, <1>2, <1>7, <1>8, DecodeIs

(* Whatever the string holds, its encoding can be read back.               *)
THEOREM AlwaysDecodable == Spec => []Decodable
<1>1. EncodeInv /\ KeptInv /\ PlainInv => Decodable
  <2> SUFFICES ASSUME EncodeInv, KeptInv, PlainInv, Encoded
               PROVE  /\ buf # <<>> /\ buf[Len(buf)] = 0
                      /\ IF gpl THEN Decode(Out) = str ELSE Out = str
    BY DEF Decodable
  <2>1. pc = "done" /\ ret = 0
    BY DEF Encoded
  <2>2. \A s \in Seq(Int) :
            buf = s \o <<0>> => buf # <<>> /\ buf[Len(buf)] = 0 /\ Out = s
    <3> TAKE s \in Seq(Int)
    <3> HAVE buf = s \o <<0>>
    <3>1. /\ Len(buf) = Len(s) + 1 /\ SubSeq(buf, 1, Len(s)) = s
          /\ buf[Len(s) + 1] = 0
      BY LastCut
    <3>2. Len(s) \in Nat /\ Len(s) + 1 - 1 = Len(s)
      BY LenProperties
    <3>3. buf # <<>>
      BY <3>1, <3>2
    <3> QED BY <3>1, <3>2, <3>3 DEF Out
  <2>3. CASE ~gpl
    <3>1. str \in Seq(Int)
      <4>1. 1..255 \subseteq Int
        OBVIOUS
      <4> QED BY <4>1, SeqMonotonic DEF EncodeInv
    <3>2. buf = str \o <<0>>
      BY <2>1, <2>3 DEF PlainInv, EINVAL
    <3> QED BY <2>2, <2>3, <3>1, <3>2
  <2>4. CASE gpl
    <3>1. PICK r : Parses(r)
      BY ParsesExists
    <3>2. r[0] \in Seq(Int)
      <4>1. Len(str) \in Nat
        BY LenProperties DEF EncodeInv
      <4> QED BY <3>1, <4>1 DEF Parses
    <3>3. buf = r[0] \o <<0>>
      BY <2>1, <2>4, <3>1 DEF KeptInv
    <3>4. buf # <<>> /\ buf[Len(buf)] = 0 /\ Out = r[0]
      BY <2>2, <3>2, <3>3
    <3>5. Decode(r[0]) = str
      BY <3>1, ReadBack
    <3> QED BY <2>4, <3>4, <3>5
  <2> QED BY <2>3, <2>4
<1> QED BY <1>1, EncodeSafe, KeptAlways, PTL
=============================================================================
