------------------------ MODULE VectorOperandProofs -------------------------
(***************************************************************************)
(* Lemmas about the operands of vector instructions, for every VLEN and    *)
(* SLEN: where elements lie, what the rows of the dispatch table have in   *)
(* common, and which operands the checks keep apart.                       *)
(***************************************************************************)
EXTENDS VectorOperand, Sequences, TLAPS

-----------------------------------------------------------------------------
(* Division                                                                *)

LEMMA DivModUnique ==
  ASSUME NEW d \in Nat, 0 < d, NEW q \in Int, NEW r \in Nat, r < d
  PROVE  (d * q + r) \div d = q /\ (d * q + r) % d = r
  BY SMT

LEMMA DivMod ==
  ASSUME NEW a \in Nat, NEW d \in Nat, 0 < d
  PROVE  a = d * (a \div d) + (a % d) /\ a \div d \in Nat /\ a % d \in Nat /\ a % d < d
  BY SMT

LEMMA MulPositive ==
  ASSUME NEW a \in Nat, NEW b \in Nat
  PROVE  /\ a * b \in Nat
         /\ 0 < a /\ 0 < b => 0 < a * b
  BY SMT

LEMMA MulMono ==
  ASSUME NEW a \in Int, NEW b \in Int, NEW c \in Nat, a <= b
  PROVE  a * c <= b * c
  BY SMT

(* Two quotients of a common divisor compare as the multiples do. *)
LEMMA MulCancel ==
  ASSUME NEW a \in Int, NEW b \in Int, NEW c \in Nat, 0 < c
  PROVE  /\ a * c < b * c <=> a < b
         /\ a * c = b * c <=> a = b
  BY SMT

-----------------------------------------------------------------------------
(* The striped groups                                                      *)

(* Registers and stripes are whole numbers of stripes and bytes. *)
Stripes == VLEN \div SLEN

LEMMA Lengths ==
  /\ VLEN \in Nat /\ SLEN \in Nat /\ 8 <= SLEN /\ SLEN <= VLEN
  /\ stripeBytes \in Nat /\ 0 < stripeBytes /\ SLEN = 8 * stripeBytes
  /\ Stripes \in Nat /\ 0 < Stripes /\ VLEN = SLEN * Stripes
  /\ vRegBytes \in Nat /\ vRegBytes = stripeBytes * Stripes /\ VLEN = 8 * vRegBytes
  /\ vRegBytes \div stripeBytes = Stripes
  <1>1. VLEN \in Nat /\ SLEN \in Nat /\ 8 <= SLEN /\ SLEN <= VLEN /\ SLEN % 8 = 0 /\ VLEN % SLEN = 0
    BY LayoutAssumption
  <1>2. stripeBytes \in Nat /\ 0 < stripeBytes /\ SLEN = 8 * stripeBytes
    BY <1>1 DEF stripeBytes
  <1>3. Stripes \in Nat /\ VLEN = SLEN * Stripes
    BY <1>1, DivMod DEF Stripes
  <1>4. 0 < Stripes
    BY <1>1, <1>3
  <1>5. VLEN = 8 * (stripeBytes * Stripes)
    BY <1>2, <1>3
  <1>6. stripeBytes * Stripes \in Nat
    BY <1>2, <1>3
  <1>7. vRegBytes = stripeBytes * Stripes
    BY <1>5, <1>6 DEF vRegBytes
  <1>8. vRegBytes \div stripeBytes = Stripes
    <2>1. (stripeBytes * Stripes + 0) \div stripeBytes = Stripes
      BY <1>2, <1>3, DivModUnique
    <2> QED BY <2>1, <1>6, <1>7
  <1> QED BY <1>1, <1>2, <1>3, <1>4, <1>5, <1>6, <1>7, <1>8

(* offsetsLMULx puts byte index of a group of n registers in its stripe of *)
(* one of the registers.                                                   *)
LEMMA OffsetPlace ==
  ASSUME NEW n \in Nat, 0 < n, NEW index \in 0..(vRegBytes * n - 1)
  PROVE  \E stripe \in 0..(Stripes - 1), byte \in 0..(stripeBytes - 1), i \in 0..(n - 1) :
           /\ index = byte + stripeBytes * i + stripe * stripeBytes * n
           /\ offsetsLMULx(n)[index] = byte + vRegBytes * i + stripe * stripeBytes
  <1> DEFINE sb == stripeBytes
             P(value) ==
               \E stripe \in 0..(vRegBytes \div stripeBytes - 1), byte \in 0..(stripeBytes - 1), i \in 0..(n - 1) :
                 /\ index = byte + stripeBytes * i + stripe * stripeBytes * n
                 /\ value = byte + vRegBytes * i + stripe * stripeBytes
             stripe == index \div (sb * n)
             rem == index % (sb * n)
             i == rem \div sb
             byte == rem % sb
             value == byte + vRegBytes * i + stripe * sb
  <1>1. sb \in Nat /\ 0 < sb /\ sb * n \in Nat /\ 0 < sb * n
    BY Lengths, MulPositive
  <1>2. index \in Nat /\ index < vRegBytes * n /\ vRegBytes \in Nat /\ vRegBytes * n \in Nat
    BY Lengths, MulPositive
  <1> HIDE DEF sb
  <1>3. index = (sb * n) * stripe + rem /\ stripe \in Nat /\ rem \in Nat /\ rem < sb * n
    BY <1>1, <1>2, DivMod
  <1> HIDE DEF stripe, rem
  <1>4. rem = sb * i + byte /\ i \in Nat /\ byte \in Nat /\ byte < sb
    BY <1>1, <1>3, DivMod
  <1> HIDE DEF i, byte
  <1>5. i < n
    <2>1. sb * i < sb * n
      BY <1>1, <1>3, <1>4
    <2>2. i * sb < n * sb
      BY <2>1, <1>1, <1>4
    <2> QED BY <2>2, <1>1, <1>4, MulCancel
  <1>6. stripe < Stripes
    <2>1. vRegBytes * n = Stripes * (sb * n)
      BY Lengths, <1>1 DEF sb
    <2>2. stripe * (sb * n) < Stripes * (sb * n)
      BY <2>1, <1>1, <1>2, <1>3, Lengths
    <2> QED BY <2>2, <1>1, <1>3, Lengths, MulCancel
  <1>7. value \in 0..(vRegBytes * n - 1)
    <2>1. (stripe + 1) * sb <= Stripes * sb
      BY <1>1, <1>3, <1>6, Lengths, MulMono
    <2>2. stripe * sb + sb <= vRegBytes
      BY <2>1, <1>1, <1>3, Lengths DEF sb
    <2>3. (i + 1) * vRegBytes <= n * vRegBytes
      BY <1>2, <1>4, <1>5, MulMono
    <2>4. vRegBytes * i + vRegBytes <= vRegBytes * n
      BY <2>3, <1>2, <1>4
    <2>5. stripe * sb \in Nat /\ vRegBytes * i \in Nat
      BY <1>1, <1>2, <1>3, <1>4, MulPositive
    <2> QED BY <2>2, <2>4, <2>5, <1>1, <1>2, <1>4
  <1>8. P(value)
    <2>1. index = byte + stripeBytes * i + stripe * stripeBytes * n
      BY <1>1, <1>3, <1>4 DEF sb
    <2>2. /\ stripe \in 0..(vRegBytes \div stripeBytes - 1) /\ byte \in 0..(stripeBytes - 1)
          /\ i \in 0..(n - 1)
      BY <1>3, <1>4, <1>5, <1>6, Lengths DEF sb
    <2> QED BY <2>1, <2>2, Zenon DEF sb
  <1> HIDE DEF value
  <1>9. offsetsLMULx(n)[index] = CHOOSE v \in 0..(vRegBytes * n - 1) : P(v)
    BY Zenon DEF offsetsLMULx
  <1>10. P(offsetsLMULx(n)[index])
    <2> HIDE DEF P
    <2> QED BY <1>7, <1>8, <1>9, Zenon
  <1> QED BY <1>10, Lengths, Zenon

-----------------------------------------------------------------------------
(* Where an element of a group lies                                        *)

(* A group of n registers of elements of w bits, no wider than a stripe. *)
Group(n, w) == n \in {1, 2, 4, 8} /\ w \in {8, 16, 32, 64} /\ SLEN % w = 0

(* Offset at lies at bit o of column c of register i of the group. *)
PlacedAt(at, n, i, c, o) == at = o + SLEN * i + (c * SLEN) * n

LEMMA BitsOfByte ==
  ASSUME NEW n \in Nat, 0 < n, NEW at \in Nat, 8 * at < n * VLEN
  PROVE  at \in 0..(vRegBytes * n - 1)
  <1>1. VLEN = 8 * vRegBytes /\ vRegBytes \in Nat
    BY Lengths
  <1> QED BY <1>1

(* A byte below the end of a striped group. *)
LEMMA StripedByte ==
  ASSUME NEW n \in Nat, 0 < n, NEW at \in Nat, 8 * at < n * VLEN
  PROVE  \E i \in 0..(n - 1), c \in 0..(Stripes - 1), o \in 0..(SLEN - 1) :
           /\ PlacedAt(8 * at, n, i, c, o)
           /\ 8 * offsetsLMULx(n)[at] = i * VLEN + c * SLEN + o
  <1>1. at \in 0..(vRegBytes * n - 1)
    BY BitsOfByte
  <1>2. PICK stripe \in 0..(Stripes - 1), byte \in 0..(stripeBytes - 1), i \in 0..(n - 1) :
           /\ at = byte + stripeBytes * i + stripe * stripeBytes * n
           /\ offsetsLMULx(n)[at] = byte + vRegBytes * i + stripe * stripeBytes
    BY <1>1, OffsetPlace
  <1>3. /\ stripeBytes \in Nat /\ SLEN = 8 * stripeBytes /\ vRegBytes \in Nat /\ VLEN = 8 * vRegBytes
        /\ Stripes \in Nat /\ stripe \in Nat /\ byte \in Nat /\ i \in Nat /\ byte <= stripeBytes - 1
    BY Lengths
  <1>4. 8 * byte \in 0..(SLEN - 1)
    BY <1>3
  <1>5. PlacedAt(8 * at, n, i, stripe, 8 * byte)
    BY <1>2, <1>3 DEF PlacedAt
  <1>6. 8 * offsetsLMULx(n)[at] = i * VLEN + stripe * SLEN + 8 * byte
    BY <1>2, <1>3
  <1> QED BY <1>4, <1>5, <1>6

(* A byte of a single register, or of registers of one stripe. *)
LEMMA UnstripedByte ==
  ASSUME NEW n \in Nat, 0 < n, NEW b \in Nat, b < n * VLEN, n = 1 \/ VLEN = SLEN
  PROVE  \E i \in 0..(n - 1), c \in 0..(Stripes - 1), o \in 0..(SLEN - 1) :
           PlacedAt(b, n, i, c, o) /\ b = i * VLEN + c * SLEN + o
  <1>1. /\ SLEN \in Nat /\ 0 < SLEN /\ VLEN \in Nat /\ Stripes \in Nat /\ VLEN = SLEN * Stripes
        /\ 0 < Stripes
    BY Lengths
  <1> DEFINE q == b \div SLEN
             o == b % SLEN
  <1>2. b = SLEN * q + o /\ q \in Nat /\ o \in 0..(SLEN - 1)
    BY <1>1, DivMod
  <1> HIDE DEF q, o
  <1>3. CASE n = 1
    <2>1. q * SLEN < Stripes * SLEN
      BY <1>1, <1>2, <1>3
    <2>2. q \in 0..(Stripes - 1)
      BY <2>1, <1>1, <1>2, MulCancel
    <2>3. PlacedAt(b, n, 0, q, o) /\ b = 0 * VLEN + q * SLEN + o
      BY <1>1, <1>2, <1>3 DEF PlacedAt
    <2>4. 0 \in 0..(n - 1)
      BY <1>3
    <2> QED BY <1>2, <2>2, <2>3, <2>4
  <1>4. CASE VLEN = SLEN
    <2>1. q * SLEN < n * SLEN
      BY <1>1, <1>2, <1>4
    <2>2. q \in 0..(n - 1)
      BY <2>1, <1>1, <1>2, MulCancel
    <2>3. PlacedAt(b, n, q, 0, o) /\ b = q * VLEN + 0 * SLEN + o
      BY <1>1, <1>2, <1>4 DEF PlacedAt
    <2>4. 0 \in 0..(Stripes - 1)
      BY <1>1
    <2> QED BY <1>2, <2>2, <2>3, <2>4
  <1> QED BY <1>3, <1>4

(* Element k of a group lies at the same bit of a column as it would if    *)
(* the columns of the registers were laid one after the other.             *)
LEMMA Place ==
  ASSUME NEW n, NEW w, Group(n, w), NEW k \in Nat, k * w < n * VLEN
  PROVE  \E i \in 0..(n - 1), c \in 0..(Stripes - 1), o \in 0..(SLEN - 1) :
           PlacedAt(k * w, n, i, c, o) /\ ElementAt(k, n, w, FALSE) = i * VLEN + c * SLEN + o
  <1> DEFINE at == k * (w \div 8)
  <1>1. n \in Nat /\ 0 < n /\ at \in Nat /\ 8 * at = k * w
    BY DEF Group
  <1>2. VLEN \in Nat /\ SLEN \in Nat /\ SLEN <= VLEN
    BY Lengths
  <1>3. ElementAt(k, n, w, FALSE) = 8 * (IF isStriped(n, FALSE) THEN getOffsetIndexTable(n)[at] ELSE at)
    BY Zenon DEF ElementAt
  <1> HIDE DEF at
  <1>4. CASE isStriped(n, FALSE)
    <2>1. n \in {2, 4, 8}
      BY <1>4 DEF isStriped, Group
    <2>2. getOffsetIndexTable(n) = offsetsLMULx(n)
      BY <2>1 DEF getOffsetIndexTable, offsetsLMULx2, offsetsLMULx4, offsetsLMULx8
    <2>3. ElementAt(k, n, w, FALSE) = 8 * offsetsLMULx(n)[at]
      BY <2>2, <1>3, <1>4, Zenon
    <2>4. 8 * at < n * VLEN
      BY <1>1
    <2>5. \E i \in 0..(n - 1), c \in 0..(Stripes - 1), o \in 0..(SLEN - 1) :
            PlacedAt(8 * at, n, i, c, o) /\ 8 * offsetsLMULx(n)[at] = i * VLEN + c * SLEN + o
      BY <2>4, <1>1, StripedByte
    <2> QED BY <2>3, <2>5, <1>1, Zenon
  <1>5. CASE ~isStriped(n, FALSE)
    <2>1. n = 1 \/ VLEN = SLEN
      BY <1>1, <1>2, <1>5 DEF isStriped
    <2>2. ElementAt(k, n, w, FALSE) = k * w /\ k * w \in Nat
      <3>1. ElementAt(k, n, w, FALSE) = 8 * at
        BY <1>3, <1>5, Zenon
      <3>2. 8 * at \in Nat
        BY <1>1
      <3> QED BY <3>1, <3>2, <1>1, Zenon
    <2>3. \E i \in 0..(n - 1), c \in 0..(Stripes - 1), o \in 0..(SLEN - 1) :
            PlacedAt(k * w, n, i, c, o) /\ k * w = i * VLEN + c * SLEN + o
      BY <2>1, <2>2, <1>1, UnstripedByte
    <2> QED BY <2>2, <2>3, Zenon
  <1> QED BY <1>4, <1>5, Zenon

LEMMA MultipleBelow ==
  ASSUME NEW a \in Int, NEW q \in Int, NEW w \in Nat, 0 < w, a * w < q * w
  PROVE  a * w + w <= q * w
  <1>1. a + 1 <= q
    BY MulCancel
  <1>2. (a + 1) * w <= q * w
    BY <1>1, MulMono
  <1> QED BY <1>2

(* The element does not cross a column, and is aligned to its width. *)
LEMMA PlaceFits ==
  ASSUME NEW n, NEW w, Group(n, w), NEW k \in Nat,
         NEW i \in 0..(n - 1), NEW c \in 0..(Stripes - 1), NEW o \in 0..(SLEN - 1),
         PlacedAt(k * w, n, i, c, o)
  PROVE  /\ o + w <= SLEN
         /\ \E q \in Int : i * VLEN + c * SLEN + o = q * w
  <1>1. /\ n \in Nat /\ 0 < n /\ w \in Nat /\ 0 < w /\ SLEN % w = 0
        /\ SLEN \in Nat /\ VLEN \in Nat /\ VLEN = SLEN * Stripes /\ Stripes \in Nat
        /\ i \in Nat /\ c \in Nat /\ o \in Nat
    BY Lengths DEF Group
  <1> DEFINE t == SLEN \div w
             a == k - t * i - c * t * n
  <1>2. SLEN = w * t /\ t \in Nat
    BY <1>1, DivMod
  <1> HIDE DEF t
  <1>3. a \in Int /\ o = a * w
    <2>1. k * w = o + (w * t) * i + (c * (w * t)) * n
      BY <1>2 DEF PlacedAt
    <2> QED BY <2>1, <1>1, <1>2
  <1> HIDE DEF a
  <1>4. o + w <= SLEN
    <2>1. a * w < t * w
      BY <1>1, <1>2, <1>3
    <2>2. a * w + w <= t * w
      BY <2>1, <1>1, <1>2, <1>3, MultipleBelow
    <2> QED BY <2>2, <1>1, <1>2, <1>3
  <1>5. i * VLEN + c * SLEN + o = (i * (t * Stripes) + c * t + a) * w
    BY <1>1, <1>2, <1>3
  <1>6. i * (t * Stripes) + c * t + a \in Int
    BY <1>1, <1>2, <1>3
  <1> QED BY <1>4, <1>5, <1>6

(* An element lies in the registers of its group. *)
LEMMA ElementWithin ==
  ASSUME NEW n, NEW w, Group(n, w), NEW k \in Nat, k * w < n * VLEN
  PROVE  /\ ElementAt(k, n, w, FALSE) \in Nat
         /\ ElementAt(k, n, w, FALSE) + w <= n * VLEN
         /\ \E q \in Int : ElementAt(k, n, w, FALSE) = q * w
  <1>1. PICK i \in 0..(n - 1), c \in 0..(Stripes - 1), o \in 0..(SLEN - 1) :
           PlacedAt(k * w, n, i, c, o) /\ ElementAt(k, n, w, FALSE) = i * VLEN + c * SLEN + o
    BY Place, Zenon
  <1>2. o + w <= SLEN /\ \E q \in Int : i * VLEN + c * SLEN + o = q * w
    BY <1>1, PlaceFits
  <1>3. /\ n \in Nat /\ w \in Nat /\ SLEN \in Nat /\ VLEN \in Nat /\ VLEN = SLEN * Stripes
        /\ Stripes \in Nat /\ i \in Nat /\ c \in Nat /\ o \in Nat /\ i + 1 <= n /\ c + 1 <= Stripes
    BY Lengths DEF Group
  <1>4. (c + 1) * SLEN <= Stripes * SLEN /\ (i + 1) * VLEN <= n * VLEN
    BY <1>3, MulMono
  <1>5. i * VLEN \in Nat /\ c * SLEN \in Nat
    BY <1>3, MulPositive
  <1>6. c * SLEN + SLEN <= VLEN /\ i * VLEN + VLEN <= n * VLEN
    BY <1>3, <1>4
  <1>7. i * VLEN + c * SLEN + o \in Nat /\ i * VLEN + c * SLEN + o + w <= n * VLEN
    BY <1>2, <1>3, <1>5, <1>6
  <1> QED BY <1>1, <1>2, <1>7, Zenon

(* Two places of a group that are the same bit are the same place. *)
LEMMA PlaceUnique ==
  ASSUME NEW i \in Nat, NEW c \in 0..(Stripes - 1), NEW o \in 0..(SLEN - 1),
         NEW j \in Nat, NEW d \in 0..(Stripes - 1), NEW p \in 0..(SLEN - 1),
         i * VLEN + c * SLEN + o = j * VLEN + d * SLEN + p
  PROVE  i = j /\ c = d /\ o = p
  <1>1. /\ SLEN \in Nat /\ 0 < SLEN /\ VLEN = SLEN * Stripes /\ Stripes \in Nat /\ 0 < Stripes
        /\ c \in Nat /\ d \in Nat /\ o \in Nat /\ p \in Nat /\ o < SLEN /\ p < SLEN
        /\ c < Stripes /\ d < Stripes
    BY Lengths
  <1> DEFINE x == Stripes * i + c
             y == Stripes * j + d
  <1>2. x \in Int /\ y \in Int
    BY <1>1
  <1>3. SLEN * x + o = SLEN * y + p
    BY <1>1
  <1>4. /\ (SLEN * x + o) \div SLEN = x /\ (SLEN * x + o) % SLEN = o
        /\ (SLEN * y + p) \div SLEN = y /\ (SLEN * y + p) % SLEN = p
    <2> HIDE DEF x, y
    <2> QED BY <1>1, <1>2, DivModUnique
  <1>5. x = y /\ o = p
    BY <1>3, <1>4, Zenon
  <1>6. /\ (Stripes * i + c) \div Stripes = i /\ (Stripes * i + c) % Stripes = c
        /\ (Stripes * j + d) \div Stripes = j /\ (Stripes * j + d) % Stripes = d
    BY <1>1, DivModUnique
  <1> QED BY <1>5, <1>6, Zenon

(* Different elements of a group do not overlap. *)
LEMMA ElementsApart ==
  ASSUME NEW n, NEW w, Group(n, w), NEW j \in Nat, j * w < n * VLEN, NEW k \in Nat, k * w < n * VLEN, j # k
  PROVE  \/ ElementAt(j, n, w, FALSE) + w <= ElementAt(k, n, w, FALSE)
         \/ ElementAt(k, n, w, FALSE) + w <= ElementAt(j, n, w, FALSE)
  <1>1. n \in Nat /\ 0 < n /\ w \in Nat /\ 0 < w
    BY DEF Group
  <1>2. PICK i \in 0..(n - 1), c \in 0..(Stripes - 1), o \in 0..(SLEN - 1) :
           PlacedAt(k * w, n, i, c, o) /\ ElementAt(k, n, w, FALSE) = i * VLEN + c * SLEN + o
    BY Place, Zenon
  <1>3. PICK h \in 0..(n - 1), d \in 0..(Stripes - 1), p \in 0..(SLEN - 1) :
           PlacedAt(j * w, n, h, d, p) /\ ElementAt(j, n, w, FALSE) = h * VLEN + d * SLEN + p
    BY Place, Zenon
  <1>4. PICK a \in Int : ElementAt(k, n, w, FALSE) = a * w
    BY ElementWithin, Zenon
  <1>5. PICK b \in Int : ElementAt(j, n, w, FALSE) = b * w
    BY ElementWithin, Zenon
  <1>6. a # b
    <2> SUFFICES ASSUME a = b PROVE FALSE
      OBVIOUS
    <2>1. h \in Nat /\ i \in Nat
      BY <1>1
    <2>2. i * VLEN + c * SLEN + o = h * VLEN + d * SLEN + p
      BY <1>2, <1>3, <1>4, <1>5, Zenon
    <2>3. i = h /\ c = d /\ o = p
      BY <2>1, <2>2, PlaceUnique
    <2>4. k * w = j * w
      BY <2>3, <1>2, <1>3, Zenon DEF PlacedAt
    <2> QED BY <2>4, <1>1, MulCancel
  <1>7. CASE a < b
    <2>1. a * w < b * w
      BY <1>1, <1>7, MulCancel
    <2>2. a * w + w <= b * w
      BY <2>1, <1>1, MultipleBelow
    <2> QED BY <2>2, <1>4, <1>5, Zenon
  <1>8. CASE b < a
    <2>1. b * w < a * w
      BY <1>1, <1>8, MulCancel
    <2>2. b * w + w <= a * w
      BY <2>1, <1>1, MultipleBelow
    <2> QED BY <2>2, <1>4, <1>5, Zenon
  <1>9. a < b \/ b < a
    BY <1>6
  <1> QED BY <1>7, <1>8, <1>9, Zenon

(* The column of an element is that of its mask field, of m bits. *)
LEMMA PlaceColumn ==
  ASSUME NEW n, NEW w, Group(n, w), NEW k \in Nat, NEW m \in Nat, m * n = w,
         NEW i \in 0..(n - 1), NEW c \in 0..(Stripes - 1), NEW o \in 0..(SLEN - 1),
         PlacedAt(k * w, n, i, c, o)
  PROVE  (k * m) \div SLEN = c
  <1>1. /\ n \in Nat /\ 0 < n /\ SLEN \in Nat /\ 0 < SLEN /\ i \in Nat /\ c \in Nat /\ o \in Nat
        /\ i + 1 <= n /\ o < SLEN
    BY Lengths DEF Group
  <1> DEFINE x == k * m - c * SLEN
  <1>2. x \in Int /\ k * m = SLEN * c + x
    BY <1>1
  <1>3. x * n = o + SLEN * i
    <2>1. k * (m * n) = o + SLEN * i + (c * SLEN) * n
      BY DEF PlacedAt
    <2> QED BY <2>1, <1>1
  <1> HIDE DEF x
  <1>4. (i + 1) * SLEN <= n * SLEN
    BY <1>1, MulMono
  <1>5. i * SLEN \in Nat
    BY <1>1, MulPositive
  <1>6. 0 * n <= x * n /\ x * n < SLEN * n
    BY <1>1, <1>2, <1>3, <1>4, <1>5
  <1>7. x < SLEN
    BY <1>6, <1>1, <1>2, MulCancel
  <1>8. ~(x < 0)
    <2>1. x < 0 => x * n < 0 * n
      BY <1>1, <1>2, MulCancel
    <2> QED BY <2>1, <1>6, <1>1, <1>2
  <1> QED BY <1>1, <1>2, <1>7, <1>8, DivModUnique

-----------------------------------------------------------------------------
(* Locations                                                               *)

Whole(b) == b \in Int /\ b % GRAN = 0

LEMMA WholeFacts ==
  /\ GRAN \in Nat /\ 0 < GRAN
  /\ \A a, b \in Int : Whole(a) /\ Whole(b) => Whole(a + b)
  /\ \A r \in Int : Whole(r * VLEN)
  /\ \A w \in {8, 16, 32, 64} : \A q \in Int : Whole(w) /\ Whole(q * w)
  <1>1. GRAN \in {1, 2, 4, 8} /\ GRAN \in Nat /\ 0 < GRAN
    BY LayoutAssumption
  <1>2. \A a, b \in Int : Whole(a) /\ Whole(b) => Whole(a + b)
    BY <1>1 DEF Whole
  <1>3. ASSUME NEW q \in Int, NEW w \in Int, w % 8 = 0 PROVE Whole(q * w)
    <2>1. PICK t \in Int : w = 8 * t
      <3>1. w = 8 * (w \div 8) /\ w \div 8 \in Int
        BY <1>3
      <3> QED BY <3>1
    <2>2. q * w = 8 * (q * t) /\ q * t \in Int
      BY <2>1
    <2>3. ASSUME NEW z \in Int PROVE 8 * z \in Int /\ (8 * z) % GRAN = 0
      BY <1>1
    <2>4. 8 * (q * t) \in Int /\ (8 * (q * t)) % GRAN = 0
      BY <2>2, <2>3
    <2> QED BY <2>2, <2>4, Zenon DEF Whole
  <1>4. \A r \in Int : Whole(r * VLEN)
    <2>1. VLEN \in Int /\ VLEN % 8 = 0
      <3>1. VLEN = 8 * vRegBytes /\ vRegBytes \in Nat
        BY Lengths
      <3> QED BY <3>1
    <2> QED BY <2>1, <1>3
  <1>5. ASSUME NEW w \in {8, 16, 32, 64}, NEW q \in Int PROVE Whole(w) /\ Whole(q * w)
    <2>1. w \in Int /\ w % 8 = 0
      OBVIOUS
    <2>2. Whole(w)
      BY <1>1 DEF Whole
    <2>3. Whole(q * w)
      BY <2>1, <1>3
    <2> QED BY <2>2, <2>3
  <1> QED BY <1>1, <1>2, <1>4, <1>5

LEMMA WholeMultiple ==
  ASSUME NEW m \in Nat, Whole(m), NEW x \in Nat
  PROVE  Whole(x * m) /\ x * m \in Nat
  <1>1. GRAN \in {1, 2, 4, 8} /\ m % GRAN = 0
    BY LayoutAssumption DEF Whole
  <1>2. m = GRAN * (m \div GRAN) /\ m \div GRAN \in Nat
    BY <1>1
  <1>3. x * m = GRAN * (x * (m \div GRAN)) /\ x * (m \div GRAN) \in Nat
    BY <1>1, <1>2
  <1>4. ASSUME NEW z \in Nat PROVE GRAN * z \in Nat /\ (GRAN * z) % GRAN = 0
    BY <1>1
  <1> QED BY <1>3, <1>4 DEF Whole

(* The locations of a run of bits. *)
LEMMA BitsMember ==
  ASSUME NEW r \in Int, NEW b \in Int, Whole(b), NEW n \in Nat, 0 < n, Whole(n), NEW l
  PROVE  l \in Bits(r, b, n) <=> l \in Int /\ r * VLEN + b <= l * GRAN /\ l * GRAN < r * VLEN + b + n
  <1>1. GRAN \in Nat /\ 0 < GRAN /\ GRAN \in {1, 2, 4, 8} /\ VLEN \in Nat
    BY WholeFacts, Lengths, LayoutAssumption
  <1> DEFINE s == r * VLEN + b
  <1>2. s \in Int /\ s % GRAN = 0
    <2>1. r * VLEN \in Int
      BY <1>1
    <2> QED BY <2>1, WholeFacts, Zenon DEF Whole
  <1>3. n \in Nat /\ n % GRAN = 0
    BY DEF Whole
  <1>4. Bits(r, b, n) = (s \div GRAN)..((s + n - 1) \div GRAN)
    BY Zenon DEF Bits
  <1> HIDE DEF s
  <1>5. l \in (s \div GRAN)..((s + n - 1) \div GRAN) <=> l \in Int /\ s <= l * GRAN /\ l * GRAN < s + n
    BY <1>1, <1>2, <1>3
  <1> QED BY <1>4, <1>5, Zenon DEF s

(* Runs that follow one another do not overlap. *)
LEMMA BitsApart ==
  ASSUME NEW r \in Int, NEW b \in Int, Whole(b), NEW n \in Nat, 0 < n, Whole(n),
         NEW q \in Int, NEW d \in Int, Whole(d), NEW m \in Nat, 0 < m, Whole(m),
         \/ r * VLEN + b + n <= q * VLEN + d
         \/ q * VLEN + d + m <= r * VLEN + b
  PROVE  Bits(r, b, n) \cap Bits(q, d, m) = {}
  <1>1. GRAN \in Nat /\ VLEN \in Nat
    BY WholeFacts, Lengths
  <1> SUFFICES ASSUME NEW l \in Bits(r, b, n), l \in Bits(q, d, m) PROVE FALSE
    OBVIOUS
  <1>2. l \in Int /\ r * VLEN + b <= l * GRAN /\ l * GRAN < r * VLEN + b + n
    BY BitsMember
  <1>3. q * VLEN + d <= l * GRAN /\ l * GRAN < q * VLEN + d + m
    BY BitsMember
  <1>4. l * GRAN \in Int /\ r * VLEN \in Int /\ q * VLEN \in Int
    BY <1>1, <1>2
  <1> QED BY <1>2, <1>3, <1>4

(* Runs in different registers do not overlap. *)
LEMMA RegistersApart ==
  ASSUME NEW r \in Int, NEW b \in Nat, Whole(b), NEW n \in Nat, 0 < n, Whole(n), NEW x \in Nat, b + n <= x * VLEN,
         NEW q \in Int, NEW d \in Nat, Whole(d), NEW m \in Nat, 0 < m, Whole(m), NEW y \in Nat, d + m <= y * VLEN,
         r + x <= q \/ q + y <= r
  PROVE  Bits(r, b, n) \cap Bits(q, d, m) = {}
  <1>1. VLEN \in Nat
    BY Lengths
  <1>2. CASE r + x <= q
    <2>1. (r + x) * VLEN <= q * VLEN
      BY <1>1, <1>2, MulMono
    <2>2. (r + x) * VLEN = r * VLEN + x * VLEN /\ r * VLEN \in Int /\ x * VLEN \in Int /\ q * VLEN \in Int
      BY <1>1
    <2>3. r * VLEN + b + n <= q * VLEN + d
      BY <2>1, <2>2
    <2> QED BY <2>3, BitsApart
  <1>3. CASE q + y <= r
    <2>1. (q + y) * VLEN <= r * VLEN
      BY <1>1, <1>3, MulMono
    <2>2. (q + y) * VLEN = q * VLEN + y * VLEN /\ r * VLEN \in Int /\ y * VLEN \in Int /\ q * VLEN \in Int
      BY <1>1
    <2>3. q * VLEN + d + m <= r * VLEN + b
      BY <2>1, <2>2
    <2> QED BY <2>3, BitsApart
  <1> QED BY <1>2, <1>3

-----------------------------------------------------------------------------
(* Elements and mask fields                                                *)

FieldWidths == {1, 2, 4, 8, 16, 32, 64}

(* A mask field is a run of bits, whether bytes or bits of a byte. *)
LEMMA MaskBitsAt ==
  ASSUME NEW r, NEW k \in Nat, NEW m \in FieldWidths
  PROVE  MaskBits(r, k, m) = Bits(r, k * m, m)
  <1>1. CASE m >= 8
    BY <1>1 DEF MaskBits
  <1>2. CASE ~(m >= 8)
    <2>1. m \in {1, 2, 4}
      BY <1>2 DEF FieldWidths
    <2>2. 8 * (k \div (8 \div m)) + ((k * m) % 8) = k * m
      BY <2>1
    <2> QED BY <1>2, <2>2, Zenon DEF MaskBits
  <1> QED BY <1>1, <1>2

(* The group of a single register is its bits in order. *)
LEMMA OneRegister ==
  ASSUME NEW k \in Nat, NEW w \in {8, 16, 32, 64}, NEW whole
  PROVE  ElementAt(k, 1, w, whole) = k * w
  <1>1. ~isStriped(1, whole)
    BY DEF isStriped
  <1>2. ElementAt(k, 1, w, whole) = 8 * (k * (w \div 8))
    BY <1>1, Zenon DEF ElementAt
  <1> QED BY <1>2

(* The locations of an element. *)
LEMMA ElementBitsRun ==
  ASSUME NEW n, NEW w, Group(n, w), NEW k \in Nat, k * w < n * VLEN, NEW r \in Nat
  PROVE  /\ Whole(ElementAt(k, n, w, FALSE)) /\ Whole(w) /\ w \in Nat /\ 0 < w
         /\ ElementBits(r, k, n, w, FALSE) = Bits(r, ElementAt(k, n, w, FALSE), w)
  <1>1. w \in {8, 16, 32, 64} /\ w \in Nat /\ 0 < w
    BY DEF Group
  <1>2. PICK q \in Int : ElementAt(k, n, w, FALSE) = q * w
    BY ElementWithin, Zenon
  <1>3. Whole(w) /\ Whole(q * w)
    BY <1>1, WholeFacts, Zenon
  <1> QED BY <1>1, <1>2, <1>3, Zenon DEF ElementBits

(* Elements of different groups do not overlap. *)
LEMMA GroupsApart ==
  ASSUME NEW n, NEW w, Group(n, w), NEW k \in Nat, k * w < n * VLEN, NEW r \in Nat,
         NEW m, NEW v, Group(m, v), NEW j \in Nat, j * v < m * VLEN, NEW q \in Nat,
         r + n <= q \/ q + m <= r
  PROVE  ElementBits(r, k, n, w, FALSE) \cap ElementBits(q, j, m, v, FALSE) = {}
  <1> DEFINE x == ElementAt(k, n, w, FALSE)
             y == ElementAt(j, m, v, FALSE)
  <1>1. n \in Nat /\ m \in Nat
    BY DEF Group
  <1>2. x \in Nat /\ x + w <= n * VLEN
    BY ElementWithin, Zenon
  <1>3. y \in Nat /\ y + v <= m * VLEN
    BY ElementWithin, Zenon
  <1>4. /\ Whole(x) /\ Whole(w) /\ w \in Nat /\ 0 < w
        /\ ElementBits(r, k, n, w, FALSE) = Bits(r, x, w)
    BY ElementBitsRun, Zenon
  <1>5. /\ Whole(y) /\ Whole(v) /\ v \in Nat /\ 0 < v
        /\ ElementBits(q, j, m, v, FALSE) = Bits(q, y, v)
    BY ElementBitsRun, Zenon
  <1>6. r \in Int /\ q \in Int
    OBVIOUS
  <1> HIDE DEF x, y
  <1>7. Bits(r, x, w) \cap Bits(q, y, v) = {}
    BY <1>1, <1>2, <1>3, <1>4, <1>5, <1>6, RegistersApart
  <1> QED BY <1>4, <1>5, <1>7, Zenon

(* Different elements of a group do not overlap. *)
LEMMA ElementBitsApart ==
  ASSUME NEW n, NEW w, Group(n, w), NEW r \in Nat,
         NEW j \in Nat, j * w < n * VLEN, NEW k \in Nat, k * w < n * VLEN, j # k
  PROVE  ElementBits(r, j, n, w, FALSE) \cap ElementBits(r, k, n, w, FALSE) = {}
  <1> DEFINE x == ElementAt(j, n, w, FALSE)
             y == ElementAt(k, n, w, FALSE)
  <1>1. x \in Nat /\ y \in Nat
    BY ElementWithin, Zenon
  <1>2. x + w <= y \/ y + w <= x
    BY ElementsApart, Zenon
  <1>3. /\ Whole(x) /\ Whole(w) /\ w \in Nat /\ 0 < w /\ ElementBits(r, j, n, w, FALSE) = Bits(r, x, w)
    BY ElementBitsRun, Zenon
  <1>4. /\ Whole(y) /\ ElementBits(r, k, n, w, FALSE) = Bits(r, y, w)
    BY ElementBitsRun, Zenon
  <1> HIDE DEF x, y
  <1>5. r * VLEN \in Int /\ r \in Int
    BY Lengths
  <1>6. \/ r * VLEN + x + w <= r * VLEN + y
        \/ r * VLEN + y + w <= r * VLEN + x
    BY <1>1, <1>2, <1>3, <1>5
  <1>7. Bits(r, x, w) \cap Bits(r, y, w) = {}
    BY <1>1, <1>3, <1>4, <1>5, <1>6, BitsApart
  <1> QED BY <1>3, <1>4, <1>7, Zenon

(* Different fields of a mask register do not overlap. *)
LEMMA FieldsApart ==
  ASSUME NEW r \in Nat, NEW m \in FieldWidths, Whole(m), NEW j \in Nat, NEW k \in Nat, j # k
  PROVE  Bits(r, j * m, m) \cap Bits(r, k * m, m) = {}
  <1>1. m \in Nat /\ 0 < m
    BY DEF FieldWidths
  <1>2. \A x \in Nat : Whole(x * m) /\ x * m \in Nat
    BY <1>1, WholeMultiple
  <1>3. j * m + m <= k * m \/ k * m + m <= j * m
    BY <1>1, SMT
  <1>4. r * VLEN \in Int /\ r \in Int
    BY Lengths
  <1>5. \/ r * VLEN + j * m + m <= r * VLEN + k * m
        \/ r * VLEN + k * m + m <= r * VLEN + j * m
    BY <1>1, <1>2, <1>3, <1>4
  <1>6. Whole(j * m) /\ Whole(k * m) /\ j * m \in Int /\ k * m \in Int
    BY <1>2
  <1> QED BY <1>1, <1>4, <1>5, <1>6, BitsApart

(* The locations of bits of one column. *)
LEMMA BitsColumn ==
  ASSUME NEW r \in Nat, NEW i \in Nat, NEW c \in 0..(Stripes - 1), NEW o \in Nat, NEW w \in Nat, 0 < w, Whole(w),
         o + w <= SLEN, NEW b \in Nat, b = i * VLEN + c * SLEN + o, Whole(b), NEW l \in Bits(r, b, w)
  PROVE  ((l * GRAN) % VLEN) \div SLEN = c
  <1>1. /\ SLEN \in Nat /\ 0 < SLEN /\ VLEN \in Nat /\ 0 < VLEN /\ VLEN = SLEN * Stripes /\ Stripes \in Nat
        /\ c \in Nat /\ c + 1 <= Stripes /\ GRAN \in Nat
    <2>1. GRAN \in Nat
      BY LayoutAssumption
    <2> QED BY <2>1, Lengths
  <1>2. l \in Int /\ r * VLEN + b <= l * GRAN /\ l * GRAN < r * VLEN + b + w
    <2>1. r \in Int /\ b \in Int
      OBVIOUS
    <2> QED BY <2>1, BitsMember
  <1> DEFINE x == l * GRAN - (r * VLEN + i * VLEN + c * SLEN)
             y == c * SLEN + x
  <1>3. l * GRAN \in Int /\ r * VLEN \in Int /\ i * VLEN \in Int /\ c * SLEN \in Nat
    BY <1>1, <1>2
  <1>4. x \in Nat /\ x < SLEN
    BY <1>1, <1>2, <1>3
  <1>5. (c + 1) * SLEN <= Stripes * SLEN
    BY <1>1, MulMono
  <1>6. y \in Nat /\ y < VLEN
    BY <1>1, <1>3, <1>4, <1>5
  <1>7. l * GRAN = VLEN * (r + i) + y /\ r + i \in Int
    BY <1>1, <1>3
  <1>8. (l * GRAN) % VLEN = y
    <2> HIDE DEF y
    <2> QED BY <1>1, <1>6, <1>7, DivModUnique
  <1>9. y = SLEN * c + x
    BY <1>1, <1>3, <1>4
  <1> HIDE DEF x, y
  <1>10. (SLEN * c + x) \div SLEN = c
    BY <1>1, <1>4, DivModUnique
  <1> QED BY <1>8, <1>9, <1>10, Zenon

-----------------------------------------------------------------------------
(* The table of shapes                                                     *)

(* Shapes whose operands are all vectors or masks, and those of scalars. *)
PlainShapes ==
  {"S111_II", "S111_IIS", "S111_IIX", "S111_PI", "SCIN_II", "SCIN_PI", "S121_II", "S121_IIS",
   "S211_IIQ", "S211_II", "S211_IIS", "S411_II", "S221_II", "S111_FF", "S111_PF", "S121_FFQ",
   "S211_FFQ", "S211_FF", "S221_FF", "S111_FI", "S111_IF", "S21_FIQ", "S21_IFQ", "S12_FIQ",
   "S12_IFQ", "S111_PP"}
MoveShapes == {"S111_IP", "S111_GR", "S111_UP", "S111_DN", "S111_CMP"}
VectorShapes == PlainShapes \cup MoveShapes \cup {"S111_IIXSM"}
ReduceShapes == {"S111_SIS", "S212_SIS", "S111_SFS", "S212_SFS"}
Shapes == VectorShapes \cup ReduceShapes \cup {"S111_IS", "S111_SI"}
OneShapes == {"S111_II", "S111_IIXSM", "S111_UP", "S111_DN", "S111_GR", "S111_CMP"}

Multipliers ==
  {<<1,1,1>>, <<2,1,2>>, <<1,2,1>>, <<2,1,1>>, <<4,1,1>>, <<2,2,1>>, <<2,1,0>>, <<1,2,0>>}

(* What the table of shapes says of them.                                  *)
LEMMA ShapeFacts ==
  /\ \A s \in Shapes : shapeDetails[s].mul \in Multipliers /\ (noVStartCheck(s) => s = "S111_IS")
  /\ \A s \in VectorShapes : shapeDetails[s].scalars = {}
  /\ \A s \in OneShapes : shapeDetails[s].mul = <<1,1,1>> /\ shapeDetails[s].scalars = {} /\ shapeDetails[s].masks = {}
  /\ \A s \in {"S111_IP", "S111_GR", "S111_UP", "S111_CMP"} : "OT_S" \in shapeDetails[s].ot
  /\ \A s \in {"S111_IP", "S111_GR", "S111_CMP"} : "OT_M" \in shapeDetails[s].ot
  /\ "OT_XSM" \in shapeDetails["S111_IIXSM"].ot
  <1>1. /\ shapeDetails["S111_II"] = Row(<<1,1,1>>, {}, {}, {}, {}, {}, {})
        /\ shapeDetails["S111_IIXSM"] = Row(<<1,1,1>>, {}, {}, {}, {}, {}, {"OT_XSM"})
        /\ shapeDetails["S111_IIS"] = Row(<<1,1,1>>, {}, {}, {}, {}, {"isSaturating", "usesVXRM"}, {})
        /\ shapeDetails["S111_IIX"] = Row(<<1,1,1>>, {}, {}, {}, {}, {"usesVXRM"}, {})
        /\ shapeDetails["SBBB_II"] = Row(<<1,1,1>>, {}, {}, {}, {}, {"SEW8"}, {})
        /\ shapeDetails["S111_IS"] = Row(<<1,1,1>>, {}, {}, {1}, {}, {"noVStartCheck"}, {})
        /\ shapeDetails["S111_SI"] = Row(<<1,1,1>>, {}, {}, {0}, {}, {}, {})
        /\ shapeDetails["S111_PI"] = Row(<<1,1,1>>, {}, {0}, {}, {}, {}, {})
        /\ shapeDetails["S111_SIS"] = Row(<<1,1,1>>, {}, {}, {0,2}, {}, {}, {})
        /\ shapeDetails["SCIN_II"] = Row(<<1,1,1>>, {}, {}, {}, {}, {"isMaskCIn"}, {})
        /\ shapeDetails["SCIN_PI"] = Row(<<1,1,1>>, {}, {0}, {}, {}, {"isMaskCIn"}, {})
        /\ shapeDetails["S212_SIS"] = Row(<<2,1,2>>, {}, {}, {0,2}, {}, {}, {})
        /\ shapeDetails["S121_II"] = Row(<<1,2,1>>, {}, {}, {}, {}, {"isNarrowing"}, {})
        /\ shapeDetails["S121_IIS"] = Row(<<1,2,1>>, {}, {}, {}, {}, {"isNarrowing", "isSaturating", "usesVXRM"}, {})
        /\ shapeDetails["S211_IIQ"] = Row(<<2,1,1>>, {}, {}, {}, {}, {"implicitWiden"}, {})
        /\ shapeDetails["S211_II"] = Row(<<2,1,1>>, {}, {}, {}, {}, {}, {})
        /\ shapeDetails["S211_IIS"] = Row(<<2,1,1>>, {}, {}, {}, {}, {"isSaturating", "usesVXRM"}, {})
        /\ shapeDetails["S411_II"] = Row(<<4,1,1>>, {}, {}, {}, {}, {}, {})
        /\ shapeDetails["S221_II"] = Row(<<2,2,1>>, {}, {}, {}, {}, {}, {})
        /\ shapeDetails["S111_FF"] = Row(<<1,1,1>>, {0,1,2}, {}, {}, {}, {}, {})
        /\ shapeDetails["S111_PF"] = Row(<<1,1,1>>, {0,1,2}, {0}, {}, {}, {}, {})
        /\ shapeDetails["S111_SFS"] = Row(<<1,1,1>>, {0,1,2}, {}, {0,2}, {}, {}, {})
        /\ shapeDetails["S212_SFS"] = Row(<<2,1,2>>, {0,1,2}, {}, {0,2}, {}, {}, {})
        /\ shapeDetails["S121_FFQ"] = Row(<<1,2,1>>, {0,1,2}, {}, {}, {}, {"implicitWiden"}, {})
        /\ shapeDetails["S211_FFQ"] = Row(<<2,1,1>>, {0,1,2}, {}, {}, {}, {"implicitWiden"}, {})
        /\ shapeDetails["S211_FF"] = Row(<<2,1,1>>, {0,1,2}, {}, {}, {}, {}, {})
        /\ shapeDetails["S221_FF"] = Row(<<2,2,1>>, {0,1,2}, {}, {}, {}, {}, {})
        /\ shapeDetails["S111_FI"] = Row(<<1,1,1>>, {0}, {}, {}, {}, {}, {})
        /\ shapeDetails["S111_IF"] = Row(<<1,1,1>>, {1,2}, {}, {}, {}, {}, {})
        /\ shapeDetails["S21_FIQ"] = Row(<<2,1,0>>, {0}, {}, {}, {}, {"implicitWiden"}, {})
        /\ shapeDetails["S21_IFQ"] = Row(<<2,1,0>>, {1}, {}, {}, {}, {"implicitWiden"}, {})
        /\ shapeDetails["S12_FIQ"] = Row(<<1,2,0>>, {0}, {}, {}, {}, {"implicitWiden"}, {})
        /\ shapeDetails["S12_IFQ"] = Row(<<1,2,0>>, {1}, {}, {}, {}, {"implicitWiden"}, {})
        /\ shapeDetails["S111_PP"] = Row(<<1,1,1>>, {}, {0,1,2}, {}, {}, {}, {})
        /\ shapeDetails["S111_IP"] = Row(<<1,1,1>>, {}, {1,2}, {}, {}, {}, {"OT_S", "OT_M"})
        /\ shapeDetails["S111_GR"] = Row(<<1,1,1>>, {}, {}, {}, {1}, {}, {"OT_S", "OT_M"})
        /\ shapeDetails["S111_UP"] = Row(<<1,1,1>>, {}, {}, {}, {1}, {}, {"OT_S", "OT_M71"})
        /\ shapeDetails["S111_DN"] = Row(<<1,1,1>>, {}, {}, {}, {1}, {}, {"OT_M71"})
        /\ shapeDetails["S111_CMP"] = Row(<<1,1,1>>, {}, {}, {}, {0}, {}, {"OT_S", "OT_M"})
    BY Zenon DEF shapeDetails
  <1>2. ASSUME NEW mul, NEW float, NEW masks, NEW scalars, NEW unindexed, NEW flags, NEW ot
        PROVE  LET d == Row(mul, float, masks, scalars, unindexed, flags, ot)
               IN  d.mul = mul /\ d.masks = masks /\ d.scalars = scalars /\ d.flags = flags /\ d.ot = ot
    BY Zenon DEF Row
  <1>3. \A s \in Shapes : shapeDetails[s].mul \in Multipliers
    BY <1>1, <1>2, SMTT(60) DEF Shapes, VectorShapes, ReduceShapes, PlainShapes, MoveShapes, Multipliers
  <1>4. \A s \in Shapes : noVStartCheck(s) => s = "S111_IS"
    BY <1>1, <1>2, SMTT(30) DEF Shapes, VectorShapes, ReduceShapes, PlainShapes, MoveShapes, noVStartCheck
  <1>5. \A s \in VectorShapes : shapeDetails[s].scalars = {}
    BY <1>1, <1>2, SMTT(60) DEF VectorShapes, PlainShapes, MoveShapes
  <1>6. \A s \in OneShapes : shapeDetails[s].mul = <<1,1,1>> /\ shapeDetails[s].scalars = {} /\ shapeDetails[s].masks = {}
    BY <1>1, <1>2, SMTT(60) DEF OneShapes
  <1>7. /\ \A s \in {"S111_IP", "S111_GR", "S111_UP", "S111_CMP"} : "OT_S" \in shapeDetails[s].ot
        /\ \A s \in {"S111_IP", "S111_GR", "S111_CMP"} : "OT_M" \in shapeDetails[s].ot
        /\ "OT_XSM" \in shapeDetails["S111_IIXSM"].ot
    BY <1>1, <1>2, SMTT(60)
  <1> QED BY <1>3, <1>4, <1>5, <1>6, <1>7, Zenon

-----------------------------------------------------------------------------
(* The dispatch table                                                      *)

LoadCBs == {"emitVLdUCB", "emitVLdSCB", "emitVLdICB"}
StoreCBs == {"emitVStUCB", "emitVStSCB", "emitVStICB"}

LdStChecks == {"emitVLdStCheckUCB", "emitVLdStCheckSCB", "emitVLdStCheckXCB"}

(* Callbacks that read their sources and then write their result. *)
PlainCBs ==
  {"emitVRBinaryIntCB", "emitVIShiftIntCB", "emitVRMulHIntCB", "emitVRMAddIntCB",
   "emitVRAdcIntCB", "emitVRCmpIntCB", "emitVRSBinaryCB", "emitVRABinaryCB",
   "emitVRRShiftIntCB", "emitVRSMULCB", "emitVRSMAccIntCB", "emitVRBinaryFltCB",
   "emitVRMAddFltCB", "emitVRFSgnFltCB", "emitVRFCmpFltCB", "emitVRFClassFltCB",
   "emitVRConvertFltCB", "emitMBinaryCB"}

(* The classes of rows: an instruction that starts with element zero only  *)
(* is marked so.                                                           *)
MemoryRow(row) ==
  /\ row.vstart0 = "RVVS_ANY"
  /\ row.check \in IF row.tcb = "emitVAMOBinopRRR" THEN {"emitVAMOCheckCB"} ELSE LdStChecks
  /\ \/ row.tcb \in LoadCBs /\ row.shape = "S111_IIXSM" /\ row.init = "emitVLdStInitCB"
     \/ row.tcb \in StoreCBs \cup {"emitVAMOBinopRRR"} /\ row.shape = "S111_II"
          /\ row.init \in {"emitVLdStInitCB", "none"}
  /\ row.fcb = "none" /\ row.end = "none" /\ row.morph = "emitVectorOp" /\ ~row.implicitTZ

PlainRow(row) ==
  /\ \/ row.tcb \in PlainCBs /\ row.fcb = "none" /\ row.shape \in PlainShapes
     \/ row.tcb = "emitVRMERGETCB" /\ row.fcb = "emitVRMERGEFCB" /\ row.shape \in {"S111_II", "S111_FF"}
     \/ row.tcb = "none" /\ row.check = "emitEDIVCheckCB" /\ row.shape \in {"S111_II", "S111_FF"}
  /\ row.check = "emitVMVRCheckCB" => row.tcb = "emitVRBinaryIntCB" /\ row.shape = "S111_II"
  /\ row.init = "none" /\ row.end = "none" /\ row.morph = "emitVectorOp" /\ ~row.implicitTZ

MoveRow(row) ==
  /\ \/ row.tcb \in {"emitVRRGATHERCB", "emitVIRGATHERCB"} /\ row.shape = "S111_GR"
     \/ row.tcb \in {"emitVRSLIDEUPCB", "emitVRSLIDE1UPCB"} /\ row.shape = "S111_UP"
     \/ row.tcb \in {"emitVRSLIDEDOWNCB", "emitVRSLIDE1DOWNCB"} /\ row.shape = "S111_DN"
  /\ row.fcb = "none" /\ row.check = "none" /\ row.init \in {"none", "initVIRGATHERCB", "initVRSLIDE1CB"}
  /\ row.end = "none" /\ row.morph = "emitVectorOp" /\ ~row.implicitTZ

ReduceRow(row) ==
  /\ row.tcb \in {"emitVRedBinaryIntCB", "emitVRedBinaryFltCB"} /\ row.shape \in ReduceShapes
  /\ row.fcb = "none" /\ row.check = "none" /\ row.init = "initVRedCB" /\ row.end = "endVRedCB"
  /\ row.vstart0 = "RVVS_ZERO" /\ row.morph = "emitVectorOp" /\ ~row.implicitTZ

MaskRow(row) ==
  /\ \/ /\ \/ row.tcb = "emitVPOPCCB" /\ row.check = "initVPOPCCB"
           \/ row.tcb = "emitVFIRSTCB" /\ row.check = "initVFIRSTCB"
        /\ row.shape = "S111_PP" /\ row.fcb = "none" /\ row.init = "none" /\ row.vstart0 = "RVVS_ZERO"
     \/ /\ row.tcb \in {"emitVMSBFCB", "emitVMSOFCB", "emitVMSIFCB"} /\ row.check = "none"
        /\ row.shape = "S111_PP" /\ row.fcb = "none" /\ row.init = "initVMSFCB" /\ row.vstart0 = "RVVS_ZERO"
     \/ /\ row.tcb = "emitVIOTACB" /\ row.check = "none"
        /\ row.shape = "S111_IP" /\ row.fcb = "none" /\ row.init = "initVIOTACB" /\ row.vstart0 = "RVVS_ZERO"
     \/ /\ row.tcb = "emitVIDTCB" /\ row.check = "none"
        /\ row.shape = "S111_IP" /\ row.fcb = "emitVIDFCB" /\ row.init = "initVIOTACB"
  /\ row.end = "none" /\ row.morph = "emitVectorOp" /\ ~row.implicitTZ

CompressRow(row) ==
  /\ row.tcb = "emitVCOMPRESSCB" /\ row.shape = "S111_CMP" /\ row.check = "none" /\ row.fcb = "none"
  /\ row.init = "initVCOMPRESSCB" /\ row.end = "none" /\ row.vstart0 = "RVVS_ZERO"
  /\ row.morph = "emitVectorOp" /\ row.implicitTZ

ScalarRow(row) ==
  /\ \/ row.tcb \in {"emitVFMVFS", "emitVEXTXV"} /\ row.shape = "S111_IS"
     \/ row.tcb \in {"emitVMVSX", "emitVFMVSF"} /\ row.shape = "S111_SI"
  /\ row.fcb = "none" /\ row.check = "none" /\ row.init = "none" /\ row.end = "none"
  /\ row.morph = "emitScalarOp" /\ ~row.implicitTZ

RowClass(row) ==
  \/ MemoryRow(row) \/ PlainRow(row) \/ MoveRow(row) \/ ReduceRow(row) \/ MaskRow(row)
  \/ CompressRow(row) \/ ScalarRow(row)

(* Each way of writing a row gives one of a class. *)
(* Every row of the dispatch table is of a class. *)
LEMMA RowsClassified == \A row \in dispatchTable : RowClass(row)
  <1>1. ASSUME NEW ops, NEW tcb, NEW shape, NEW v
        PROVE  /\ tcb \in PlainCBs /\ shape \in PlainShapes => RowClass(Default(ops, tcb, shape))
               /\ tcb \in PlainCBs /\ shape \in PlainShapes /\ v # "emitVMVRCheckCB"
                    => RowClass(Checked(Default(ops, tcb, shape), v))
               /\ RowClass(Checked(Default(ops, "emitVRBinaryIntCB", "S111_II"), "emitVMVRCheckCB"))
               /\ shape \in {"S111_II", "S111_FF"}
                    => /\ RowClass(Unselected(Default(ops, "emitVRMERGETCB", shape), "emitVRMERGEFCB"))
                       /\ RowClass(Checked(Default(ops, "none", shape), "emitEDIVCheckCB"))
    <2>1. tcb \in PlainCBs /\ shape \in PlainShapes => RowClass(Default(ops, tcb, shape))
      BY Zenon DEF Default, Checked, Unselected, Initialized, AnyVStart, ImplicitTZ, RowClass, PlainRow
    <2>2. tcb \in PlainCBs /\ shape \in PlainShapes /\ v # "emitVMVRCheckCB"
            => RowClass(Checked(Default(ops, tcb, shape), v))
      BY Zenon DEF Default, Checked, Unselected, Initialized, AnyVStart, ImplicitTZ, RowClass, PlainRow
    <2>3. RowClass(Checked(Default(ops, "emitVRBinaryIntCB", "S111_II"), "emitVMVRCheckCB"))
      BY Zenon DEF Default, Checked, Unselected, Initialized, AnyVStart, ImplicitTZ, RowClass, PlainRow, PlainCBs, PlainShapes
    <2>4. shape \in {"S111_II", "S111_FF"}
            => /\ RowClass(Unselected(Default(ops, "emitVRMERGETCB", shape), "emitVRMERGEFCB"))
               /\ RowClass(Checked(Default(ops, "none", shape), "emitEDIVCheckCB"))
      BY Zenon DEF Default, Checked, Unselected, Initialized, AnyVStart, ImplicitTZ, RowClass, PlainRow
    <2> QED BY <2>1, <2>2, <2>3, <2>4, Zenon
  <1>2. ASSUME NEW ops, NEW tcb, NEW check \in LdStChecks
        PROVE  /\ tcb \in LoadCBs => RowClass(LdSt(ops, tcb, check, "S111_IIXSM"))
               /\ tcb \in StoreCBs => RowClass(LdSt(ops, tcb, check, "S111_II"))
               /\ RowClass(AnyVStart(Checked(Default(ops, "emitVAMOBinopRRR", "S111_II"), "emitVAMOCheckCB")))
    BY Zenon DEF LdSt, Default, Checked, Unselected, Initialized, AnyVStart, ImplicitTZ, RowClass, MemoryRow, LoadCBs, StoreCBs
  <1>3. ASSUME NEW ops, NEW tcb, NEW shape, NEW init,
               \/ tcb \in {"emitVRRGATHERCB", "emitVIRGATHERCB"} /\ shape = "S111_GR"
               \/ tcb \in {"emitVRSLIDEUPCB", "emitVRSLIDE1UPCB"} /\ shape = "S111_UP"
               \/ tcb \in {"emitVRSLIDEDOWNCB", "emitVRSLIDE1DOWNCB"} /\ shape = "S111_DN",
               init \in {"initVIRGATHERCB", "initVRSLIDE1CB"}
        PROVE  /\ RowClass(Default(ops, tcb, shape))
               /\ RowClass(Initialized(Default(ops, tcb, shape), init))
    BY <1>3, Zenon DEF Default, Checked, Unselected, Initialized, AnyVStart, ImplicitTZ, RowClass, MoveRow
  <1>4. ASSUME NEW ops, NEW tcb \in {"emitVRedBinaryIntCB", "emitVRedBinaryFltCB"}, NEW shape \in ReduceShapes
        PROVE  RowClass(Reduce(ops, tcb, shape))
    BY Zenon DEF Reduce, Default, Checked, Unselected, Initialized, AnyVStart, ImplicitTZ, RowClass, ReduceRow
  <1>5. ASSUME NEW ops
        PROVE  /\ RowClass(Checked(FromStart(ops, "emitVPOPCCB", "none", "S111_PP"), "initVPOPCCB"))
               /\ RowClass(Checked(FromStart(ops, "emitVFIRSTCB", "none", "S111_PP"), "initVFIRSTCB"))
               /\ \A tcb \in {"emitVMSBFCB", "emitVMSOFCB", "emitVMSIFCB"} :
                    RowClass(FromStart(ops, tcb, "initVMSFCB", "S111_PP"))
               /\ RowClass(FromStart(ops, "emitVIOTACB", "initVIOTACB", "S111_IP"))
               /\ RowClass(Initialized(Unselected(Default(ops, "emitVIDTCB", "S111_IP"), "emitVIDFCB"), "initVIOTACB"))
    <2>1. RowClass(Checked(FromStart(ops, "emitVPOPCCB", "none", "S111_PP"), "initVPOPCCB"))
      BY Zenon DEF FromStart, Default, Checked, Unselected, Initialized, AnyVStart, ImplicitTZ, RowClass, MaskRow
    <2>2. RowClass(Checked(FromStart(ops, "emitVFIRSTCB", "none", "S111_PP"), "initVFIRSTCB"))
      BY Zenon DEF FromStart, Default, Checked, Unselected, Initialized, AnyVStart, ImplicitTZ, RowClass, MaskRow
    <2>3. \A tcb \in {"emitVMSBFCB", "emitVMSOFCB", "emitVMSIFCB"} :
                RowClass(FromStart(ops, tcb, "initVMSFCB", "S111_PP"))
      BY ZenonT(40) DEF FromStart, Default, Checked, Unselected, Initialized, AnyVStart, ImplicitTZ, RowClass, MaskRow
    <2>4. RowClass(FromStart(ops, "emitVIOTACB", "initVIOTACB", "S111_IP"))
      BY Zenon DEF FromStart, Default, Checked, Unselected, Initialized, AnyVStart, ImplicitTZ, RowClass, MaskRow
    <2>5. RowClass(Initialized(Unselected(Default(ops, "emitVIDTCB", "S111_IP"), "emitVIDFCB"), "initVIOTACB"))
      BY Zenon DEF FromStart, Default, Checked, Unselected, Initialized, AnyVStart, ImplicitTZ, RowClass, MaskRow
    <2> QED BY <2>1, <2>2, <2>3, <2>4, <2>5, Zenon
  <1>6. ASSUME NEW ops
        PROVE  RowClass(ImplicitTZ(FromStart(ops, "emitVCOMPRESSCB", "initVCOMPRESSCB", "S111_CMP")))
    BY Zenon DEF FromStart, Default, Checked, Unselected, Initialized, AnyVStart, ImplicitTZ, RowClass, CompressRow
  <1>7. ASSUME NEW ops, NEW tcb, NEW shape,
               \/ tcb \in {"emitVFMVFS", "emitVEXTXV"} /\ shape = "S111_IS"
               \/ tcb \in {"emitVMVSX", "emitVFMVSF"} /\ shape = "S111_SI"
        PROVE  RowClass(Scalar(ops, tcb, shape))
    BY <1>7, Zenon DEF Scalar, Default, Checked, Unselected, Initialized, AnyVStart, ImplicitTZ, RowClass, ScalarRow
  <1>8. \A row \in MemoryRows : RowClass(row)
    BY <1>2, SMTT(30) DEF MemoryRows, LoadCBs, StoreCBs, LdStChecks
  <1>9. \A row \in IntegerRows : RowClass(row)
    BY <1>1, <1>3, SMTT(30) DEF IntegerRows, PlainCBs, PlainShapes
  <1>10. \A row \in FixedPointRows : RowClass(row)
    BY <1>1, SMTT(30) DEF FixedPointRows, PlainCBs, PlainShapes
  <1>11. \A row \in MultiplyRows : RowClass(row)
    BY <1>1, <1>4, SMTT(30) DEF MultiplyRows, PlainCBs, PlainShapes, ReduceShapes
  <1>12. \A row \in FloatRows : RowClass(row)
    BY <1>1, SMTT(30) DEF FloatRows, PlainCBs, PlainShapes
  <1>13. \A row \in FloatUnaryRows : RowClass(row)
    BY <1>1, <1>4, <1>7, SMTT(30) DEF FloatUnaryRows, PlainCBs, PlainShapes, ReduceShapes
  <1>14. \A row \in MaskRows : RowClass(row)
    BY <1>1, <1>4, <1>7, <1>5, <1>6, SMTT(30)
       DEF MaskRows, PlainCBs, PlainShapes, ReduceShapes
  <1>15. \A row \in ImmediateRows : RowClass(row)
    BY <1>1, <1>3, <1>7, SMTT(120) DEF ImmediateRows, PlainCBs, PlainShapes
  <1> QED BY <1>8, <1>9, <1>10, <1>11, <1>12, <1>13, <1>14, <1>15, Zenon DEF dispatchTable

-----------------------------------------------------------------------------
(* Instructions and their number of elements                               *)

LEMMA MorphFacts ==
  ASSUME NEW i, Decoded(i)
  PROVE  /\ i.row.morph \in {"emitVectorOp", "emitScalarOp"}
         /\ i.row.morph = "emitVectorOp" => ~noVStartCheck(i.shape)
         /\ i.row.tcb \in MemoryCBs => i.row.morph = "emitVectorOp" /\ i.whole # "RV_WD_MV"
         /\ i.ff => i.row.tcb \in MemoryCBs /\ ~isWhole(i)
  <1>1. RowClass(i.row) /\ i.shape = i.row.shape
    BY RowsClassified, Zenon DEF Decoded
  <1>2. i.row.morph \in {"emitVectorOp", "emitScalarOp"}
    BY <1>1, Zenon DEF RowClass, MemoryRow, PlainRow, MoveRow, ReduceRow, MaskRow, CompressRow, ScalarRow
  <1>3. i.row.morph = "emitVectorOp" => i.shape \in Shapes /\ i.shape # "S111_IS"
    BY <1>1 DEF RowClass, MemoryRow, PlainRow, MoveRow, ReduceRow, MaskRow, CompressRow, ScalarRow,
                Shapes, VectorShapes, PlainShapes, MoveShapes, ReduceShapes
  <1>4. i.row.tcb \in MemoryCBs => i.row.morph = "emitVectorOp" /\ i.row.check # "emitVMVRCheckCB"
    BY <1>1 DEF RowClass, MemoryRow, PlainRow, MoveRow, ReduceRow, MaskRow, CompressRow, ScalarRow,
                PlainCBs, MemoryCBs, LdStChecks
  <1>5. i.whole = "RV_WD_MV" => i.row.check = "emitVMVRCheckCB"
    BY Zenon DEF Decoded
  <1>6. i.ff => i.row.tcb \in MemoryCBs /\ ~isWhole(i)
    BY Zenon DEF Decoded, MemoryCBs, isWhole
  <1> QED BY <1>2, <1>3, <1>4, <1>5, <1>6, ShapeFacts, Zenon

LEMMA DivPositive ==
  ASSUME NEW a \in Nat, NEW b \in Nat, 0 < b
  PROVE  /\ a \div b \in Nat
         /\ b <= a => 0 < a \div b
  BY SMT

LEMMA VLMAXType ==
  ASSUME NEW i, NEW e, Setting(e), Decoded(i)
  PROVE  /\ getVLMAXOp(i, e) \in Nat
         /\ isWhole(i) => 0 < getVLMAXOp(i, e)
  <1>1. CASE isWhole(i)
    <2> DEFINE n == VLEN * (i.nf + 1)
    <2>1. n \in Nat /\ 8 <= n
      BY LayoutAssumption DEF Decoded
    <2>2. getVLMAXOp(i, e) = (n * 1) \div 8
      BY <1>1, Zenon DEF getVLMAXOp, VLMUL, SEW
    <2> HIDE DEF n
    <2>3. n * 1 = n
      BY <2>1
    <2> QED BY <2>1, <2>2, <2>3, DivPositive
  <1>2. CASE ~isWhole(i)
    <2> DEFINE n == VLEN * e.VLMUL
    <2>1. n \in Nat /\ e.SEW \in Nat /\ 0 < e.SEW
      BY LayoutAssumption DEF Setting
    <2>2. getVLMAXOp(i, e) = n \div e.SEW
      BY <1>2, Zenon DEF getVLMAXOp, VLMUL, SEW
    <2> HIDE DEF n
    <2> QED BY <1>2, <2>1, <2>2, DivPositive
  <1> QED BY <1>1, <1>2

-----------------------------------------------------------------------------
(* The operands                                                            *)

(* What the checks made before the first element establish. *)
Allowed(i, e) ==
  /\ getVectorOpRegisters(i, VLMUL(i, e))
  /\ validateVArgWidths(e.conf, i, VLMUL(i, e), SEW(i, e))
  /\ checkCB(i, e)

LEMMA MultiplierMax ==
  ASSUME NEW s \in Shapes
  PROVE  /\ getWidthMultiplier(s) \in {1, 2, 4}
         /\ \A a \in 0..3 : /\ getWidthMultiplierN(s, a) \in {0, 1, 2, 4}
                            /\ getWidthMultiplierN(s, a) <= getWidthMultiplier(s)
  <1> DEFINE mul == shapeDetails[s].mul
             P(m) == \A a \in 1..3 : mul[a] <= m
  <1>1. mul \in Multipliers
    BY ShapeFacts, Zenon
  <1>2. getWidthMultiplier(s) = CHOOSE m \in {mul[1], mul[2], mul[3]} : P(m)
    BY Zenon DEF getWidthMultiplier
  <1>3. \A a \in 0..3 : getWidthMultiplierN(s, a) = mul[clampArgIndex(a) + 1] /\ clampArgIndex(a) + 1 \in 1..3
    BY DEF getWidthMultiplierN, clampArgIndex
  <1> HIDE DEF mul
  <1>4. mul[1] \in {1, 2, 4} /\ mul[2] \in {1, 2} /\ mul[3] \in {0, 1, 2} /\ \A a \in 1..3 : mul[a] \in {0, 1, 2, 4}
    BY <1>1 DEF Multipliers
  <1>5. \E m \in {mul[1], mul[2], mul[3]} : P(m)
    BY <1>4
  <1> HIDE DEF P
  <1>6. getWidthMultiplier(s) \in {mul[1], mul[2], mul[3]} /\ P(getWidthMultiplier(s))
    BY <1>2, <1>5, Zenon
  <1>7. getWidthMultiplier(s) \in {1, 2, 4}
    BY <1>4, <1>6, SMTT(30) DEF P
  <1> QED BY <1>3, <1>4, <1>6, <1>7 DEF P

LEMMA ShapeKnown ==
  ASSUME NEW i, Decoded(i)
  PROVE  i.shape \in Shapes
  <1>1. RowClass(i.row) /\ i.shape = i.row.shape
    BY RowsClassified, Zenon DEF Decoded
  <1> QED BY <1>1 DEF RowClass, MemoryRow, PlainRow, MoveRow, ReduceRow, MaskRow, CompressRow, ScalarRow,
                Shapes, VectorShapes, PlainShapes, MoveShapes, ReduceShapes

LEMMA FieldCount ==
  ASSUME NEW i, Decoded(i)
  PROVE  NF(i) \in Nat
  <1>1. i.nf \in 0..7
    BY Zenon DEF Decoded
  <1>2. NF(i) = 0 \/ NF(i) = i.nf
    BY Zenon DEF NF
  <1> QED BY <1>1, <1>2

LEMMA MaskRegister ==
  ASSUME NEW i, Decoded(i), isVReg(i.mask)
  PROVE  i.mask \in 0..31
  <1>1. i.mask \in {NoReg} \cup (IF i.row.tcb = "emitVCOMPRESSCB" THEN 0..(VREG_NUM - 1) ELSE {0})
    BY Zenon DEF Decoded
  <1>2. i.mask # NoReg
    BY Zenon DEF isVReg
  <1> QED BY <1>1, <1>2 DEF VREG_NUM

LEMMA Registers ==
  ASSUME NEW i, Decoded(i), NEW a \in 0..3, isVReg(i.r[a])
  PROVE  i.r[a] \in 0..31 /\ getWidthMultiplierN(i.shape, a) \in {1, 2, 4}
  <1>1. i.r[a] \in 0..31 /\ getWidthMultiplierN(i.shape, a) # 0
    BY DEF Decoded, RV_MAX_AREGS, VREG_NUM, isVReg
  <1> QED BY <1>1, ShapeKnown, MultiplierMax

(* Numbers of operands and multipliers. *)
LEMMA ArgIndices ==
  /\ 0 \in Nat /\ 0 \in 0..3 /\ 1 \in 0..3 /\ 2 \in 0..3 /\ 1 \in 1..3 /\ 1 \in {1, 2, 4}
  /\ \A a \in 1..3 : a \in 0..3
  OBVIOUS

(* The fields of the setting. *)
LEMMA SettingFacts ==
  ASSUME NEW i, NEW e, Setting(e), ~isWhole(i)
  PROVE  /\ VLMUL(i, e) \in {1, 2, 4, 8} /\ SEW(i, e) \in {8, 16, 32, 64}
         /\ MLEN(i, e) \in FieldWidths /\ MLEN(i, e) \in Nat /\ 0 < MLEN(i, e) /\ Whole(MLEN(i, e)) /\ MLEN(i, e) * VLMUL(i, e) = SEW(i, e)
         /\ SLEN % SEW(i, e) = 0 /\ SLEN % MLEN(i, e) = 0
         /\ e.conf.ELEN \in {32, 64} /\ SLEN % e.conf.ELEN = 0 /\ SEW(i, e) <= e.conf.ELEN
  <1>1. /\ VLMUL(i, e) = e.VLMUL /\ SEW(i, e) = e.SEW /\ MLEN(i, e) = e.SEW \div e.VLMUL
    BY Zenon DEF VLMUL, SEW, MLEN
  <1>2. /\ e.VLMUL \in {1, 2, 4, 8} /\ e.SEW \in {8, 16, 32, 64} /\ (e.SEW \div e.VLMUL) % GRAN = 0
        /\ e.conf.ELEN \in {32, 64} /\ SLEN % e.conf.ELEN = 0 /\ e.SEW <= e.conf.ELEN /\ SLEN \in Nat
    BY LayoutAssumption DEF Setting
  <1>3. e.SEW \div e.VLMUL \in FieldWidths /\ e.SEW \div e.VLMUL \in Nat /\ 0 < e.SEW \div e.VLMUL /\ (e.SEW \div e.VLMUL) * e.VLMUL = e.SEW
    BY <1>2 DEF FieldWidths
  <1>4. SLEN % e.SEW = 0
    BY <1>2
  <1>5. SLEN % (e.SEW \div e.VLMUL) = 0
    BY <1>2, <1>4
  <1>6. Whole(e.SEW \div e.VLMUL)
    BY <1>2, <1>3 DEF Whole, FieldWidths
  <1> QED BY <1>1, <1>2, <1>3, <1>4, <1>5, <1>6, Zenon

(* A group is of one, two, four or eight registers, and aligned. *)
LEMMA ArgGroup ==
  ASSUME NEW i, NEW e, Setting(e), Decoded(i), Allowed(i, e), ~isWhole(i),
         NEW a \in 0..3, isVReg(i.r[a]), argIsGroup(i.shape, a)
  PROVE  LET mulE == getWidthMultiplierN(i.shape, a)
             n    == VLMUL(i, e) * mulE
         IN  /\ Group(n, SEW(i, e) * mulE)
             /\ i.r[a] \in 0..31 /\ i.r[a] % n = 0 /\ i.r[a] + n <= 32
             /\ getVRegNumN(i, VLMUL(i, e), a) = n
  <1> DEFINE mulE == getWidthMultiplierN(i.shape, a)
             n    == VLMUL(i, e) * mulE
             max  == getWidthMultiplier(i.shape)
  <1>1. i.r[a] \in 0..31 /\ mulE \in {1, 2, 4}
    BY Registers
  <1>2. max \in {1, 2, 4} /\ mulE <= max
    BY ShapeKnown, MultiplierMax
  <1>3. getVRegNumN(i, VLMUL(i, e), a) = n
    BY Zenon DEF getVRegNumN
  <1>4. max # 1 => max * SEW(i, e) <= e.conf.ELEN /\ ~getVRegNumMaxExceeds(i, VLMUL(i, e), 8)
    BY Zenon DEF Allowed, validateVArgWidths
  <1>5. i.r[a] % n = 0
    <2>1. \A b \in 0..3 : isVReg(i.r[b]) /\ argIsGroup(i.shape, b)
             => i.r[b] % (getVLMULMtN(i, VLMUL(i, e), b) * getWidthMultiplierN(i.shape, b)) = 0
      BY DEF Allowed, getVectorOpRegisters, RV_MAX_AREGS
    <2> QED BY <2>1, Zenon DEF getVLMULMtN
  <1>6. max # 1 => ~(n > 8)
    BY <1>3, <1>4 DEF getVRegNumMaxExceeds, RV_MAX_AREGS
  <1>7. /\ VLMUL(i, e) \in {1, 2, 4, 8} /\ SEW(i, e) \in {8, 16, 32, 64} /\ SLEN \in Nat
        /\ e.conf.ELEN \in {32, 64} /\ SLEN % e.conf.ELEN = 0 /\ SEW(i, e) <= e.conf.ELEN
    BY SettingFacts, LayoutAssumption
  <1> HIDE DEF mulE, max
  <1>8. n \in {1, 2, 4, 8}
    BY <1>1, <1>2, <1>6, <1>7
  <1>9. SEW(i, e) * mulE \in {8, 16, 32, 64} /\ SEW(i, e) * mulE <= e.conf.ELEN
    BY <1>1, <1>2, <1>4, <1>7
  <1>10. SLEN % (SEW(i, e) * mulE) = 0
    BY <1>7, <1>9
  <1>11. i.r[a] + n <= 32
    BY <1>1, <1>5, <1>8
  <1> QED BY <1>1, <1>3, <1>5, <1>8, <1>9, <1>10, <1>11, Zenon DEF Group, mulE

(* An element below VLMAX lies in its group. *)
LEMMA BelowVLMAX ==
  ASSUME NEW i, NEW e, Setting(e), Decoded(i), ~isWhole(i), NEW k \in Nat, k < getVLMAXOp(i, e)
  PROVE  /\ k * SEW(i, e) < VLMUL(i, e) * VLEN
         /\ \A mulE \in {1, 2, 4} : k * (SEW(i, e) * mulE) < (VLMUL(i, e) * mulE) * VLEN
         /\ k * MLEN(i, e) + MLEN(i, e) <= VLEN
  <1> DEFINE m == MLEN(i, e)
             s == SEW(i, e)
             v == VLMUL(i, e)
  <1>1. /\ v \in {1, 2, 4, 8} /\ s \in {8, 16, 32, 64} /\ m \in FieldWidths /\ m * v = s
        /\ SLEN % m = 0
    BY SettingFacts
  <1>2. k < (VLEN * v) \div s
    BY Zenon DEF getVLMAXOp
  <1> HIDE DEF m, s, v
  <1>3. VLEN \in Nat /\ VLEN = SLEN * Stripes /\ SLEN \in Nat /\ Stripes \in Nat
    BY Lengths
  <1>4. VLEN * v \in Nat
    BY <1>1, <1>3
  <1>5. k * s < v * VLEN
    BY <1>1, <1>2, <1>3, <1>4
  <1>6. \A mulE \in {1, 2, 4} : k * (s * mulE) < (v * mulE) * VLEN
    BY <1>1, <1>3, <1>5
  <1>7. k * m < VLEN
    <2>1. (k * m) * v < VLEN * v
      BY <1>1, <1>5, <1>3 DEF FieldWidths
    <2>2. k * m \in Nat /\ v \in Nat /\ 0 < v
      BY <1>1 DEF FieldWidths
    <2> QED BY <2>1, <2>2, <1>3, MulCancel
  <1>8. k * m + m <= VLEN
    <2>1. m \in Nat /\ 0 < m
      BY <1>1 DEF FieldWidths
    <2>2. SLEN = m * (SLEN \div m) /\ SLEN \div m \in Nat
      BY <2>1, <1>1, <1>3, DivMod
    <2> DEFINE t == SLEN \div m
    <2> HIDE DEF t
    <2> DEFINE q == t * Stripes
    <2>3. VLEN = q * m /\ q \in Int
      BY <2>1, <2>2, <1>3 DEF t
    <2> HIDE DEF q
    <2>4. k * m < q * m /\ k \in Int
      BY <2>3, <1>7
    <2>5. k * m + m <= q * m
      BY <2>1, <2>3, <2>4, MultipleBelow
    <2> QED BY <2>3, <2>5
  <1> QED BY <1>5, <1>6, <1>8, Zenon DEF m, s, v

LEMMA VLMAXPositive ==
  ASSUME NEW i, NEW e, Setting(e), Decoded(i), ~isWhole(i)
  PROVE  0 < getVLMAXOp(i, e) /\ e.vl <= getVLMAXOp(i, e) /\ getVLMAXOp(i, e) \in Nat
  <1>1. /\ getVLMAXOp(i, e) = (VLEN * e.VLMUL) \div e.SEW /\ e.vl <= (VLEN * e.VLMUL) \div e.SEW
        /\ SEW(i, e) = e.SEW
    BY DEF getVLMAXOp, VLMUL, SEW, Setting
  <1>2. /\ e.VLMUL \in {1, 2, 4, 8} /\ e.SEW \in {8, 16, 32, 64} /\ SLEN % e.SEW = 0
    <2>1. SLEN % SEW(i, e) = 0
      BY SettingFacts
    <2> QED BY <1>1, <2>1, Zenon DEF Setting
  <1>3. SLEN \in Nat /\ 0 < SLEN /\ SLEN <= VLEN /\ VLEN \in Nat
    BY Lengths
  <1>4. e.SEW <= SLEN
    BY <1>2, <1>3
  <1>5. e.SEW <= VLEN * e.VLMUL
    BY <1>2, <1>3, <1>4
  <1>6. VLEN * e.VLMUL \in Nat /\ e.SEW \in Nat /\ 0 < e.SEW
    BY <1>2, <1>3
  <1> QED BY <1>1, <1>5, <1>6, DivPositive

-----------------------------------------------------------------------------
(* Columns                                                                 *)

LEMMA ArgBitsGroup ==
  ASSUME NEW i, NEW e, ~isWhole(i), NEW a, isVReg(i.r[a]), argIsGroup(i.shape, a), NEW k
  PROVE  LET mulE == getWidthMultiplierN(i.shape, a)
         IN  ArgBits(i, e, a, k) = ElementBits(i.r[a], k, VLMUL(i, e) * mulE, SEW(i, e) * mulE, FALSE)
  BY Zenon DEF ArgBits, argIsGroup, isWhole

LEMMA ArgBitsMask ==
  ASSUME NEW i, NEW e, Setting(e), ~isWhole(i), NEW a, isVReg(i.r[a]), isMaskN(i.shape, a), ~isScalarN(i.shape, a),
         NEW k \in Nat
  PROVE  ArgBits(i, e, a, k) = Bits(i.r[a], k * MLEN(i, e), MLEN(i, e))
  <1>1. MLEN(i, e) \in FieldWidths
    BY SettingFacts
  <1>2. ArgBits(i, e, a, k) = MaskBits(i.r[a], k, MLEN(i, e))
    BY Zenon DEF ArgBits
  <1> QED BY <1>1, <1>2, MaskBitsAt

(* Every operand of an element lies in the column of its mask field. *)
LEMMA OperandColumn ==
  ASSUME NEW i, NEW e, Setting(e), Decoded(i), Allowed(i, e), ~isWhole(i),
         NEW k \in Nat, k < getVLMAXOp(i, e),
         NEW a \in 0..3, isVReg(i.r[a]), ~isScalarN(i.shape, a), NEW l \in ArgBits(i, e, a, k)
  PROVE  ((l * GRAN) % VLEN) \div SLEN = (k * MLEN(i, e)) \div SLEN
  <1> DEFINE m == MLEN(i, e)
  <1>1. i.r[a] \in Nat
    BY Registers
  <1>2. m \in FieldWidths /\ Whole(m) /\ m * VLMUL(i, e) = SEW(i, e) /\ SLEN % m = 0
        /\ VLMUL(i, e) \in {1, 2, 4, 8}
    BY SettingFacts
  <1>3. m \in Nat /\ 0 < m
    BY <1>2 DEF FieldWidths
  <1>4. CASE argIsGroup(i.shape, a)
    <2> DEFINE mulE == getWidthMultiplierN(i.shape, a)
               n == VLMUL(i, e) * mulE
               w == SEW(i, e) * mulE
    <2>1. mulE \in {1, 2, 4}
      BY Registers
    <2>2. Group(n, w)
      BY <1>4, ArgGroup
    <2>3. k * w < n * VLEN
      BY <2>1, BelowVLMAX
    <2>4. m * n = w
      BY <1>2, <1>3, <2>1
    <2>5. ArgBits(i, e, a, k) = ElementBits(i.r[a], k, n, w, FALSE)
      BY <1>4, ArgBitsGroup, Zenon
    <2> HIDE DEF n, w, m
    <2>6. PICK j \in 0..(n - 1), c \in 0..(Stripes - 1), o \in 0..(SLEN - 1) :
             PlacedAt(k * w, n, j, c, o) /\ ElementAt(k, n, w, FALSE) = j * VLEN + c * SLEN + o
      BY <2>2, <2>3, Place, Zenon
    <2>7. (k * m) \div SLEN = c
      BY <1>3, <2>2, <2>4, <2>6, PlaceColumn
    <2>8. o + w <= SLEN
      BY <2>2, <2>6, PlaceFits
    <2> DEFINE b == ElementAt(k, n, w, FALSE)
    <2>9. /\ Whole(b) /\ Whole(w) /\ w \in Nat /\ 0 < w /\ ElementBits(i.r[a], k, n, w, FALSE) = Bits(i.r[a], b, w)
      BY <1>1, <2>2, <2>3, ElementBitsRun, Zenon
    <2>10. b \in Nat
      BY <2>2, <2>3, ElementWithin, Zenon
    <2>11. b = j * VLEN + c * SLEN + o /\ l \in Bits(i.r[a], b, w)
      BY <2>5, <2>6, <2>9, Zenon
    <2>12. j \in Nat /\ o \in Nat
      OBVIOUS
    <2> HIDE DEF b
    <2>13. ((l * GRAN) % VLEN) \div SLEN = c
      BY <1>1, <2>8, <2>9, <2>10, <2>11, <2>12, BitsColumn
    <2> QED BY <2>7, <2>13, Zenon DEF m
  <1>5. CASE isMaskN(i.shape, a)
    <2>1. l \in Bits(i.r[a], k * m, m)
      BY <1>5, ArgBitsMask
    <2>2. k * m + m <= VLEN
      BY BelowVLMAX
    <2> HIDE DEF m
    <2>3. SLEN \in Nat /\ 0 < SLEN /\ VLEN = SLEN * Stripes /\ Stripes \in Nat /\ VLEN \in Nat
      BY Lengths
    <2> DEFINE b == k * m
               c == b \div SLEN
               o == b % SLEN
               t == SLEN \div m
    <2>4. b \in Nat /\ Whole(b)
      BY <1>2, <1>3, WholeMultiple
    <2>5. SLEN = m * t /\ t \in Nat
      BY <1>2, <1>3, <2>3, DivMod
    <2>6. b = SLEN * c + o /\ c \in Nat /\ o \in Nat /\ o < SLEN
      <3> HIDE DEF b
      <3> QED BY <2>3, <2>4, DivMod
    <2> HIDE DEF c, o, t
    <2>7. o + m <= SLEN
      <3> DEFINE x == k - t * c
      <3>1. x \in Int /\ o = x * m
        BY <1>3, <2>5, <2>6
      <3> HIDE DEF x
      <3>2. x * m < t * m
        BY <1>3, <2>5, <2>6, <3>1
      <3>3. x * m + m <= t * m
        BY <1>3, <2>5, <3>1, <3>2, MultipleBelow, SMTT(30)
      <3> QED BY <1>3, <2>5, <3>1, <3>3
    <2>8. c \in 0..(Stripes - 1)
      <3>1. c * SLEN < Stripes * SLEN
        BY <1>3, <2>2, <2>3, <2>6
      <3> QED BY <2>3, <2>6, <3>1, MulCancel
    <2>9. b = 0 * VLEN + c * SLEN + o /\ 0 \in Nat
      BY <2>3, <2>6
    <2> HIDE DEF b
    <2>10. ((l * GRAN) % VLEN) \div SLEN = c
      BY <1>1, <1>2, <1>3, <2>1, <2>4, <2>6, <2>7, <2>8, <2>9, BitsColumn, SMTT(30) DEF b
    <2> QED BY <2>10, Zenon DEF c, b, m
  <1> QED BY <1>4, <1>5, Zenon DEF argIsGroup

-----------------------------------------------------------------------------
(* Operands that do not overlap                                            *)

(* The overlap constraints in force for an instruction. *)
Constraints(i, e) ==
  LET given == shapeDetails[i.shape].ot
  IN  given \cup (IF "OT_XSM" \in given /\ i.nf > 0 THEN {"OT_S", "OT_M"} ELSE {})
            \cup (IF "OT_M71" \in given /\ riscvVFSupport(e.conf.version, "STRICT_OVERLAP") THEN {"OT_M"} ELSE {})

LEMMA Overlap ==
  ASSUME NEW i, NEW e, Allowed(i, e), isVReg(i.r[0]), ~isScalarN(i.shape, 0)
  PROVE  LET n(a) == getVRegNumN(i, VLMUL(i, e), a)
             R(a) == ArgRegs(i, VLMUL(i, e), a)
         IN  /\ isVReg(i.mask) /\ ("OT_M" \in Constraints(i, e) \/ n(0) # 1) => i.mask \notin R(0)
             /\ \A a \in 1..3 : isVReg(i.r[a]) /\ ("OT_S" \in Constraints(i, e) \/ n(0) # n(a)) => R(0) \cap R(a) = {}
  <1>1. validateNoOverlap(e.conf.version, i, VLMUL(i, e))
    BY Zenon DEF Allowed, validateVArgWidths
  <1>2. 1..(RV_MAX_AREGS - 1) = 1..3
    BY DEF RV_MAX_AREGS
  <1> QED BY <1>1, <1>2, Zenon DEF validateNoOverlap, Constraints

(* The element of a vector operand, or field of a mask operand, is a run   *)
(* of bits of its registers.                                               *)
LEMMA OperandRun ==
  ASSUME NEW i, NEW e, Setting(e), Decoded(i), Allowed(i, e), ~isWhole(i),
         NEW k \in Nat, k < getVLMAXOp(i, e), NEW a \in 0..3, isVReg(i.r[a]), ~isScalarN(i.shape, a)
  PROVE  /\ \E b \in Nat, w \in Nat :
              /\ ArgBits(i, e, a, k) = Bits(i.r[a], b, w) /\ Whole(b) /\ Whole(w) /\ 0 < w
              /\ b + w <= getVRegNumN(i, VLMUL(i, e), a) * VLEN
         /\ i.r[a] \in Nat /\ i.r[a] + getVRegNumN(i, VLMUL(i, e), a) <= 32
         /\ getVRegNumN(i, VLMUL(i, e), a) \in {1, 2, 4, 8}
         /\ i.r[a] % getVRegNumN(i, VLMUL(i, e), a) = 0
  <1>1. i.r[a] \in Nat /\ i.r[a] <= 31
    BY Registers
  <1>2. CASE argIsGroup(i.shape, a)
    <2> DEFINE mulE == getWidthMultiplierN(i.shape, a)
               n == VLMUL(i, e) * mulE
               w == SEW(i, e) * mulE
               b == ElementAt(k, n, w, FALSE)
    <2>1. mulE \in {1, 2, 4}
      BY Registers, Zenon
    <2>2. Group(n, w) /\ i.r[a] + n <= 32 /\ i.r[a] % n = 0 /\ getVRegNumN(i, VLMUL(i, e), a) = n
      BY <1>2, ArgGroup, Zenon
    <2>3. k * w < n * VLEN
      BY <2>1, BelowVLMAX, Zenon
    <2>4. ArgBits(i, e, a, k) = ElementBits(i.r[a], k, n, w, FALSE)
      BY <1>2, ArgBitsGroup, Zenon
    <2> HIDE DEF mulE, n, w
    <2>5. /\ Whole(b) /\ Whole(w) /\ w \in Nat /\ 0 < w /\ ElementBits(i.r[a], k, n, w, FALSE) = Bits(i.r[a], b, w)
      BY <1>1, <2>2, <2>3, ElementBitsRun, Zenon
    <2>6. b \in Nat /\ b + w <= n * VLEN
      BY <2>2, <2>3, ElementWithin, Zenon
    <2>7. n \in {1, 2, 4, 8}
      BY <2>2, Zenon DEF Group
    <2> HIDE DEF b
    <2> QED BY <1>1, <2>2, <2>4, <2>5, <2>6, <2>7, Zenon
  <1>3. CASE isMaskN(i.shape, a)
    <2> DEFINE m == MLEN(i, e)
    <2>1. getVRegNumN(i, VLMUL(i, e), a) = 1
      BY <1>3, Zenon DEF getVRegNumN, argIsGroup
    <2>2. ArgBits(i, e, a, k) = Bits(i.r[a], k * m, m)
      BY <1>3, ArgBitsMask, Zenon
    <2>3. Whole(m) /\ m \in Nat /\ 0 < m
      BY SettingFacts, Zenon
    <2>4. k * m + m <= VLEN
      BY BelowVLMAX, Zenon
    <2> HIDE DEF m
    <2>6. Whole(k * m) /\ k * m \in Nat
      BY <2>3, WholeMultiple, Zenon
    <2>7. 1 * VLEN = VLEN
      BY Lengths
    <2>8. i.r[a] + 1 <= 32 /\ 1 \in {1, 2, 4, 8} /\ i.r[a] % 1 = 0
      BY <1>1
    <2> QED BY <1>1, <2>1, <2>2, <2>3, <2>4, <2>6, <2>7, <2>8, Zenon
  <1> QED BY <1>2, <1>3, Zenon DEF argIsGroup

(* Operands in different registers do not overlap. *)
LEMMA OperandsApart ==
  ASSUME NEW i, NEW e, Setting(e), Decoded(i), Allowed(i, e), ~isWhole(i),
         NEW j \in Nat, j < getVLMAXOp(i, e), NEW k \in Nat, k < getVLMAXOp(i, e),
         NEW a \in 0..3, isVReg(i.r[a]), ~isScalarN(i.shape, a),
         NEW c \in 0..3, isVReg(i.r[c]), ~isScalarN(i.shape, c),
         \/ i.r[a] + getVRegNumN(i, VLMUL(i, e), a) <= i.r[c]
         \/ i.r[c] + getVRegNumN(i, VLMUL(i, e), c) <= i.r[a]
  PROVE  ArgBits(i, e, a, j) \cap ArgBits(i, e, c, k) = {}
  <1> DEFINE x == getVRegNumN(i, VLMUL(i, e), a)
             y == getVRegNumN(i, VLMUL(i, e), c)
             p == i.r[a]
             q == i.r[c]
  <1>1. PICK b \in Nat, w \in Nat :
              /\ ArgBits(i, e, a, j) = Bits(p, b, w) /\ Whole(b) /\ Whole(w) /\ 0 < w /\ b + w <= x * VLEN
    BY OperandRun, Zenon
  <1>2. PICK d \in Nat, v \in Nat :
              /\ ArgBits(i, e, c, k) = Bits(q, d, v) /\ Whole(d) /\ Whole(v) /\ 0 < v /\ d + v <= y * VLEN
    BY OperandRun, Zenon
  <1>3. p \in Int /\ q \in Int /\ x \in Nat /\ y \in Nat
    <2>1. p \in Nat /\ q \in Nat /\ x \in {1, 2, 4, 8} /\ y \in {1, 2, 4, 8}
      BY OperandRun, Zenon
    <2> HIDE DEF p, q, x, y
    <2> QED BY <2>1
  <1>4. p + x <= q \/ q + y <= p
    BY Zenon
  <1> HIDE DEF x, y, p, q
  <1>5. Bits(p, b, w) \cap Bits(q, d, v) = {}
    BY <1>1, <1>2, <1>3, <1>4, RegistersApart, Zenon
  <1> QED BY <1>1, <1>2, <1>5, Zenon

(* Registers validateNoOverlap keeps apart follow one another. *)
LEMMA RegsApart ==
  ASSUME NEW i, NEW e, Setting(e), Decoded(i), Allowed(i, e), ~isWhole(i),
         NEW a \in 0..3, isVReg(i.r[a]), ~isScalarN(i.shape, a),
         NEW c \in 0..3, isVReg(i.r[c]), ~isScalarN(i.shape, c),
         \/ ArgRegs(i, VLMUL(i, e), a) \cap ArgRegs(i, VLMUL(i, e), c) = {}
         \/ /\ getVRegNumN(i, VLMUL(i, e), a) = getVRegNumN(i, VLMUL(i, e), c)
            /\ i.r[a] # i.r[c]
  PROVE  \/ i.r[a] + getVRegNumN(i, VLMUL(i, e), a) <= i.r[c]
         \/ i.r[c] + getVRegNumN(i, VLMUL(i, e), c) <= i.r[a]
  <1> DEFINE x == getVRegNumN(i, VLMUL(i, e), a)
             y == getVRegNumN(i, VLMUL(i, e), c)
             p == i.r[a]
             q == i.r[c]
  <1>0. 0 \in Nat /\ 0 < getVLMAXOp(i, e)
    BY ArgIndices, VLMAXPositive, Zenon
  <1>1. p \in Nat /\ p + x <= 32 /\ x \in {1, 2, 4, 8} /\ p % x = 0
    BY <1>0, OperandRun, Zenon
  <1>2. q \in Nat /\ q + y <= 32 /\ y \in {1, 2, 4, 8} /\ q % y = 0
    BY <1>0, OperandRun, Zenon
  <1>3. CASE ArgRegs(i, VLMUL(i, e), a) \cap ArgRegs(i, VLMUL(i, e), c) = {}
    <2>1. {reg \in 0..(VREG_NUM - 1) : reg \in p..(p + x - 1)} \cap {reg \in 0..(VREG_NUM - 1) : reg \in q..(q + y - 1)} = {}
      BY <1>3, Zenon DEF ArgRegs, p, q, x, y
    <2> HIDE DEF p, q, x, y
    <2>2. ASSUME p <= q, q < p + x PROVE FALSE
      <3>1. q \in 0..(VREG_NUM - 1) /\ q \in p..(p + x - 1) /\ q \in q..(q + y - 1)
        BY <1>1, <1>2, <2>2 DEF VREG_NUM
      <3> QED BY <2>1, <3>1
    <2>3. ASSUME q <= p, p < q + y PROVE FALSE
      <3>1. p \in 0..(VREG_NUM - 1) /\ p \in p..(p + x - 1) /\ p \in q..(q + y - 1)
        BY <1>1, <1>2, <2>3 DEF VREG_NUM
      <3> QED BY <2>1, <3>1
    <2>4. p + x <= q \/ q + y <= p
      BY <1>1, <1>2, <2>2, <2>3
    <2> QED BY <2>4, Zenon DEF p, q, x, y
  <1>4. CASE x = y /\ p # q
    <2> HIDE DEF p, q, x, y
    <2>1. p + x <= q \/ q + y <= p
      BY <1>1, <1>2, <1>4
    <2> QED BY <2>1, Zenon DEF p, q, x, y
  <1> QED BY <1>3, <1>4, Zenon

(* An operand of one register has its elements at the mask fields. *)
LEMMA OneRegisterOperand ==
  ASSUME NEW i, NEW e, Setting(e), Decoded(i), Allowed(i, e), ~isWhole(i), NEW k \in Nat,
         NEW a \in 0..3, isVReg(i.r[a]), ~isScalarN(i.shape, a), getVRegNumN(i, VLMUL(i, e), a) = 1
  PROVE  ArgBits(i, e, a, k) = Bits(i.r[a], k * MLEN(i, e), MLEN(i, e))
  <1>1. CASE isMaskN(i.shape, a)
    BY <1>1, ArgBitsMask, Zenon
  <1>2. CASE argIsGroup(i.shape, a)
    <2> DEFINE mulE == getWidthMultiplierN(i.shape, a)
               s == SEW(i, e)
    <2>1. mulE \in {1, 2, 4} /\ VLMUL(i, e) \in {1, 2, 4, 8} /\ s \in {8, 16, 32, 64}
          /\ MLEN(i, e) * VLMUL(i, e) = s /\ MLEN(i, e) \in FieldWidths
      BY Registers, SettingFacts, Zenon
    <2>2. VLMUL(i, e) * mulE = 1
      BY <1>2, Zenon DEF getVRegNumN
    <2>3. mulE = 1 /\ VLMUL(i, e) = 1 /\ MLEN(i, e) = s /\ s * mulE = s
      BY <2>1, <2>2 DEF FieldWidths
    <2>4. ArgBits(i, e, a, k) = ElementBits(i.r[a], k, 1, s, FALSE)
      <3>1. ArgBits(i, e, a, k) = ElementBits(i.r[a], k, VLMUL(i, e) * mulE, s * mulE, FALSE)
        BY <1>2, ArgBitsGroup, Zenon
      <3> QED BY <3>1, <2>2, <2>3, Zenon
    <2>5. ElementAt(k, 1, s, FALSE) = k * s
      <3> HIDE DEF s
      <3> QED BY <2>1, OneRegister, ZenonT(40)
    <2> QED BY <2>3, <2>4, <2>5, Zenon DEF ElementBits
  <1> QED BY <1>1, <1>2, Zenon DEF argIsGroup

(* Where the constraint is strict, no source overlaps the destination. *)
LEMMA StrictApart ==
  ASSUME NEW i, NEW e, Setting(e), Decoded(i), Allowed(i, e), ~isWhole(i),
         NEW j \in Nat, j < getVLMAXOp(i, e), NEW k \in Nat, k < getVLMAXOp(i, e),
         isVReg(i.r[0]), ~isScalarN(i.shape, 0),
         NEW a \in 1..3, isVReg(i.r[a]), ~isScalarN(i.shape, a),
         \/ "OT_S" \in Constraints(i, e)
         \/ getVRegNumN(i, VLMUL(i, e), 0) # getVRegNumN(i, VLMUL(i, e), a)
         \/ i.r[0] # i.r[a]
  PROVE  ArgBits(i, e, 0, j) \cap ArgBits(i, e, a, k) = {}
  <1>1. 0 \in 0..3 /\ a \in 0..3
    BY ArgIndices, Zenon
  <1>2. \/ ArgRegs(i, VLMUL(i, e), 0) \cap ArgRegs(i, VLMUL(i, e), a) = {}
        \/ /\ getVRegNumN(i, VLMUL(i, e), 0) = getVRegNumN(i, VLMUL(i, e), a)
           /\ i.r[0] # i.r[a]
    BY Overlap, Zenon
  <1>3. \/ i.r[0] + getVRegNumN(i, VLMUL(i, e), 0) <= i.r[a]
        \/ i.r[a] + getVRegNumN(i, VLMUL(i, e), a) <= i.r[0]
    BY <1>1, <1>2, RegsApart, Zenon
  <1> QED BY <1>1, <1>3, OperandsApart, Zenon

(* A source overlaps the same element of the destination at most. *)
LEMMA SourceApart ==
  ASSUME NEW i, NEW e, Setting(e), Decoded(i), Allowed(i, e), ~isWhole(i),
         NEW j \in Nat, j < getVLMAXOp(i, e), NEW k \in Nat, k < getVLMAXOp(i, e), j # k,
         isVReg(i.r[0]), ~isScalarN(i.shape, 0),
         NEW a \in 0..3, isVReg(i.r[a]), ~isScalarN(i.shape, a)
  PROVE  ArgBits(i, e, 0, j) \cap ArgBits(i, e, a, k) = {}
  <1> DEFINE n(c) == getVRegNumN(i, VLMUL(i, e), c)
             mulE(c) == getWidthMultiplierN(i.shape, c)
  <1>1. CASE a # 0 /\ (n(0) # n(a) \/ i.r[0] # i.r[a])
    <2>1. a \in 1..3
      BY <1>1
    <2> QED BY <1>1, <2>1, StrictApart, Zenon
  <1>2. CASE n(0) = n(a) /\ i.r[0] = i.r[a]
    <2>0. i.r[0] \in Nat /\ n(0) \in {1, 2, 4, 8}
      BY ArgIndices, OperandRun, Zenon
    <2>1. CASE n(0) = 1
      <3> DEFINE m == MLEN(i, e)
      <3>1. ArgBits(i, e, 0, j) = Bits(i.r[0], j * m, m) /\ ArgBits(i, e, a, k) = Bits(i.r[0], k * m, m)
        BY <1>2, <2>1, ArgIndices, OneRegisterOperand, Zenon
      <3>2. m \in FieldWidths /\ Whole(m)
        BY SettingFacts, Zenon
      <3> HIDE DEF m
      <3>3. Bits(i.r[0], j * m, m) \cap Bits(i.r[0], k * m, m) = {}
        BY <2>0, <3>2, FieldsApart
      <3> QED BY <3>1, <3>3, Zenon
    <2>2. CASE n(0) # 1
      <3>1. argIsGroup(i.shape, 0) /\ argIsGroup(i.shape, a)
        BY <1>2, <2>2, Zenon DEF getVRegNumN
      <3>2. n(0) = VLMUL(i, e) * mulE(0) /\ n(a) = VLMUL(i, e) * mulE(a)
        BY <3>1, Zenon DEF getVRegNumN
      <3>3. mulE(0) \in {1, 2, 4} /\ mulE(a) \in {1, 2, 4} /\ VLMUL(i, e) \in {1, 2, 4, 8}
        BY ArgIndices, Registers, SettingFacts, Zenon
      <3>4. mulE(0) = mulE(a)
        BY <1>2, <3>2, <3>3, SMTT(30)
      <3> DEFINE g == VLMUL(i, e) * mulE(0)
                 w == SEW(i, e) * mulE(0)
      <3>5. Group(g, w)
        BY <3>1, ArgIndices, ArgGroup, Zenon
      <3>6. j * w < g * VLEN /\ k * w < g * VLEN
        BY <3>3, BelowVLMAX, Zenon
      <3>7. ArgBits(i, e, 0, j) = ElementBits(i.r[0], j, g, w, FALSE)
        BY <3>1, ArgBitsGroup, Zenon
      <3>8. ArgBits(i, e, a, k) = ElementBits(i.r[0], k, g, w, FALSE)
        BY <1>2, <3>1, <3>4, ArgBitsGroup, Zenon
      <3> HIDE DEF g, w
      <3>9. ElementBits(i.r[0], j, g, w, FALSE) \cap ElementBits(i.r[0], k, g, w, FALSE) = {}
        BY <2>0, <3>5, <3>6, ElementBitsApart, ZenonT(40)
      <3> QED BY <3>7, <3>8, <3>9, Zenon
    <2> QED BY <2>1, <2>2, ZenonT(40)
  <1> QED BY <1>1, <1>2, Zenon

(* So does the mask, or the carry. *)
LEMMA MaskApart ==
  ASSUME NEW i, NEW e, Setting(e), Decoded(i), Allowed(i, e), ~isWhole(i),
         NEW j \in Nat, j < getVLMAXOp(i, e), NEW k \in Nat, k < getVLMAXOp(i, e),
         isVReg(i.r[0]), ~isScalarN(i.shape, 0), isVReg(i.mask),
         j # k \/ "OT_M" \in Constraints(i, e)
  PROVE  ArgBits(i, e, 0, j) \cap Bits(i.mask, k * MLEN(i, e), MLEN(i, e)) = {}
  <1> DEFINE m == MLEN(i, e)
             n == getVRegNumN(i, VLMUL(i, e), 0)
             p == i.r[0]
             q == i.mask
  <1>0. 0 \in 0..3
    BY ArgIndices, Zenon
  <1>1. q \in 0..31
    BY MaskRegister, Zenon
  <1>2. m \in FieldWidths /\ Whole(m) /\ m \in Nat /\ 0 < m
    BY SettingFacts, Zenon
  <1>3. k * m + m <= VLEN
    BY BelowVLMAX, Zenon
  <1>4. p \in Nat /\ p + n <= 32 /\ n \in {1, 2, 4, 8}
    BY <1>0, OperandRun, Zenon
  <1>5. CASE q \notin ArgRegs(i, VLMUL(i, e), 0)
    <2>1. ~(p <= q /\ q <= p + n - 1)
      BY <1>1, <1>4, <1>5 DEF ArgRegs, VREG_NUM
    <2>2. PICK b \in Nat, w \in Nat :
              /\ ArgBits(i, e, 0, j) = Bits(p, b, w) /\ Whole(b) /\ Whole(w) /\ 0 < w /\ b + w <= n * VLEN
      BY <1>0, OperandRun, Zenon
    <2> HIDE DEF m, n, p, q
    <2>3. p + n <= q \/ q + 1 <= p
      BY <1>1, <1>4, <2>1
    <2>4. p \in Int /\ q \in Int /\ n \in Nat /\ 1 \in Nat
      BY <1>1, <1>4
    <2>5. Whole(k * m) /\ k * m \in Nat /\ k * m + m <= 1 * VLEN
      BY <1>2, <1>3, WholeMultiple, Lengths, SMTT(30)
    <2> DEFINE d == k * m
    <2> HIDE DEF d
    <2>6. Bits(p, b, w) \cap Bits(q, d, m) = {}
      BY <1>2, <2>2, <2>3, <2>4, <2>5, RegistersApart, SMTT(30) DEF d
    <2> QED BY <2>2, <2>6, Zenon DEF m, q, d
  <1>6. CASE q \in ArgRegs(i, VLMUL(i, e), 0)
    <2>1. n = 1 /\ "OT_M" \notin Constraints(i, e)
      BY <1>6, Overlap, Zenon
    <2>2. p = q
      BY <1>4, <1>6, <2>1, SMTT(30) DEF ArgRegs
    <2>3. ArgBits(i, e, 0, j) = Bits(p, j * m, m)
      BY <1>0, <2>1, OneRegisterOperand, Zenon
    <2>4. Bits(p, j * m, m) \cap Bits(p, k * m, m) = {}
      BY <1>2, <1>4, <2>1, FieldsApart
    <2> QED BY <2>2, <2>3, <2>4, Zenon
  <1> QED BY <1>5, <1>6, Zenon

-----------------------------------------------------------------------------
(* Sources of the element at hand                                          *)

LEMMA ShapeScalars ==
  \A s \in VectorShapes : \A a \in 0..3 : ~isScalarN(s, a)
  BY ShapeFacts, ZenonT(40) DEF isScalarN

(* Shapes whose operands are all groups of elements of SEW bits. *)
LEMMA ShapeOnes ==
  \A s \in OneShapes : \A a \in 0..3 :
    argIsGroup(s, a) /\ getWidthMultiplierN(s, a) = 1
  <1>2. \A a \in 0..3 : clampArgIndex(a) + 1 \in 1..3
    BY DEF clampArgIndex
  <1>3. \A c \in 1..3 : <<1,1,1>>[c] = 1
    OBVIOUS
  <1> SUFFICES ASSUME NEW s \in OneShapes, NEW a \in 0..3
               PROVE  argIsGroup(s, a) /\ getWidthMultiplierN(s, a) = 1
    BY Zenon
  <1>4. argIsGroup(s, a)
    BY ShapeFacts, Zenon DEF argIsGroup, isMaskN, isScalarN
  <1>5. getWidthMultiplierN(s, a) = <<1,1,1>>[clampArgIndex(a) + 1]
    BY ShapeFacts, Zenon DEF getWidthMultiplierN
  <1> QED BY <1>2, <1>3, <1>4, <1>5, ZenonT(40)

(* A field of a segment is an element of a group of its own. *)
LEMMA FieldRun ==
  ASSUME NEW i, NEW e, Setting(e), Decoded(i), Allowed(i, e), ~isWhole(i),
         i.row.tcb \in LoadCBs, MemoryRow(i.row), isVReg(i.r[0]), NEW f \in 0..NF(i)
  PROVE  /\ Group(VLMUL(i, e), SEW(i, e))
         /\ i.r[0] + f * VLMUL(i, e) \in Nat
         /\ \A k : FieldBits(i, e, f, k) = ElementBits(i.r[0] + f * VLMUL(i, e), k, VLMUL(i, e), SEW(i, e), FALSE)
         /\ f * VLMUL(i, e) + VLMUL(i, e) <= getVRegNum(i, VLMUL(i, e))
  <1> DEFINE v == VLMUL(i, e)
             s == SEW(i, e)
             p == i.r[0]
  <1>1. v \in {1, 2, 4, 8} /\ s \in {8, 16, 32, 64} /\ SLEN % s = 0
    BY SettingFacts
  <1>2. p \in 0..31
    BY Registers
  <1>3. i.nf \in 0..7 /\ NF(i) = i.nf
    BY Zenon DEF Decoded, NF
  <1>4. f \in Nat /\ f <= i.nf
    <2>1. f \in 0..i.nf
      BY <1>3, Zenon
    <2> HIDE DEF v, s, p
    <2> QED BY <1>3, <2>1
  <1>5. i.nf > 0 => p + getVRegNum(i, v) - 1 < 32
    <2>1. checkCB(i, e)
      BY Zenon DEF Allowed
    <2>2. i.row.check \in LdStChecks
      BY DEF MemoryRow, LoadCBs
    <2>3. emitVLdStCheckCB(e.conf, i, v, s)
      BY <2>1, <2>2 DEF checkCB, LdStChecks
    <2> QED BY <2>3 DEF emitVLdStCheckCB, legalVRegIndex, VREG_NUM
  <1>6. getVRegNum(i, v) = v * (i.nf + 1)
    BY Zenon DEF getVRegNum
  <1> HIDE DEF v, s, p
  <1>7. f * v \in Nat /\ f * v + v <= v * (i.nf + 1)
    BY <1>1, <1>3, <1>4
  <1>8. p + f * v \in Nat /\ p + f * v < 32
    <2> DEFINE x == f * v
               t == v * (i.nf + 1)
    <2>1. x \in Nat /\ x + v <= t /\ p \in Nat /\ p <= 31 /\ v \in Nat /\ 1 <= v
      BY <1>1, <1>2, <1>7
    <2>2. i.nf > 0 => p + t - 1 < 32
      BY <1>5, <1>6, Zenon
    <2>3. i.nf > 0 \/ i.nf = 0
      BY <1>3
    <2>4. t \in Nat
      BY <1>1, <1>3
    <2>5. CASE i.nf = 0
      <3>1. f = 0
        BY <1>4, <2>5
      <3>2. x = 0
        BY <1>1, <3>1
      <3> HIDE DEF x, t
      <3> QED BY <2>1, <3>2 DEF x
    <2>6. CASE i.nf > 0
      <3> HIDE DEF x, t
      <3>1. p + x \in Nat /\ p + x < 32
        BY <2>1, <2>2, <2>4, <2>6
      <3> QED BY <3>1, Zenon DEF x
    <2> QED BY <2>3, <2>5, <2>6, Zenon
  <1>9. (p + f * v) % 32 = p + f * v
    BY <1>8
  <1>10. \A k : FieldBits(i, e, f, k) = ElementBits(p + f * v, k, v, s, FALSE)
    BY <1>9, Zenon DEF FieldBits, VREG_NUM, isWhole, p, v, s
  <1>11. Group(v, s)
    BY <1>1, Zenon DEF Group
  <1> QED BY <1>6, <1>7, <1>8, <1>10, <1>11, Zenon DEF p, v, s

-----------------------------------------------------------------------------
(* Loads, whole register moves, compression and the mask bit               *)

LEMMA MultiplesApart ==
  ASSUME NEW v \in {1, 2, 4, 8}, NEW p \in Nat, NEW q \in Nat, p % v = 0, q % v = 0, q < p
  PROVE  q + v <= p
  <1>1. CASE v = 1
    BY <1>1
  <1>2. CASE v = 2
    BY <1>2
  <1>3. CASE v = 4
    BY <1>3
  <1>4. CASE v = 8
    BY <1>4, SMTT(30)
  <1> QED BY <1>1, <1>2, <1>3, <1>4

(* The fields of a segment overlap the index register only where there is  *)
(* one field, which is then the element itself.                            *)
LEMMA LoadIndexApart ==
  ASSUME NEW i, NEW e, Setting(e), Decoded(i), Allowed(i, e), ~isWhole(i),
         i.row.tcb \in LoadCBs, MemoryRow(i.row), isVReg(i.r[0]), isVReg(i.r[2]), ~IndexOverlapped(i, e),
         NEW j \in Nat, j < getVLMAXOp(i, e), NEW k \in Nat, k < getVLMAXOp(i, e), j # k \/ i.nf > 0,
         NEW f \in 0..NF(i)
  PROVE  FieldBits(i, e, f, j) \cap ArgBits(i, e, 2, k) = {}
  <1> DEFINE v == VLMUL(i, e)
             s == SEW(i, e)
             p == i.r[0]
             q == i.r[2]
  <1>1. i.shape = "S111_IIXSM"
    BY Zenon DEF MemoryRow, LoadCBs, StoreCBs, Decoded
  <1>2. 0 \in 0..3 /\ 2 \in 0..3 /\ 1 \in {1, 2, 4}
    BY ArgIndices, Zenon
  <1>3. /\ argIsGroup(i.shape, 0) /\ getWidthMultiplierN(i.shape, 0) = 1
        /\ argIsGroup(i.shape, 2) /\ getWidthMultiplierN(i.shape, 2) = 1
    BY <1>1, <1>2, ShapeOnes, Zenon DEF OneShapes
  <1>4. v \in {1, 2, 4, 8} /\ s \in {8, 16, 32, 64}
    BY SettingFacts, Zenon
  <1>5. v * 1 = v /\ s * 1 = s /\ p \in Nat /\ q \in Nat /\ p + 0 * v = p /\ p <= 31 /\ q <= 31
    <2>1. p \in 0..31 /\ q \in 0..31
      BY <1>2, Registers, Zenon
    <2> HIDE DEF v, s, p, q
    <2> QED BY <1>4, <2>1
  <1>6. p % v = 0
    <2>1. p % (v * 1) = 0
      BY <1>2, <1>3, ArgGroup, Zenon
    <2> QED BY <2>1, <1>5, Zenon
  <1>7. q % v = 0
    <2>1. q % (v * 1) = 0
      BY <1>2, <1>3, ArgGroup, Zenon
    <2> QED BY <2>1, <1>5, Zenon
  <1>8. ArgBits(i, e, 2, k) = ElementBits(q, k, v, s, FALSE)
    <2>1. ArgBits(i, e, 2, k) = ElementBits(q, k, v * 1, s * 1, FALSE)
      BY <1>2, <1>3, ArgBitsGroup, Zenon
    <2> QED BY <2>1, <1>5, Zenon
  <1>9. /\ Group(v, s) /\ p + f * v \in Nat
        /\ FieldBits(i, e, f, j) = ElementBits(p + f * v, j, v, s, FALSE)
        /\ f * v + v <= getVRegNum(i, v)
    BY FieldRun, ZenonT(40)
  <1>10. j * s < v * VLEN /\ k * s < v * VLEN
    BY <1>2, <1>4, <1>5, BelowVLMAX, Zenon
  <1>11. f \in Nat /\ NF(i) = i.nf /\ i.nf \in Nat
    BY DEF NF, Decoded
  <1>12. CASE i.nf > 0
    <2>1. ~(q \in p..(p + getVRegNum(i, v) - 1))
      BY <1>12, Zenon DEF IndexOverlapped
    <2>2. f * v \in Nat /\ f * v + v <= getVRegNum(i, v) /\ getVRegNum(i, v) \in Nat
      <3>1. getVRegNum(i, v) \in Nat
        BY <1>4, <1>11, SMTT(30) DEF getVRegNum
      <3> QED BY <1>4, <1>9, <1>11, <3>1, SMTT(30)
    <2> DEFINE x == f * v
               y == getVRegNum(i, v)
    <2> HIDE DEF v, s, p, q, x, y
    <2>3. q < p \/ p + y <= q
      BY <1>5, <2>1, <2>2, SMTT(30) DEF x, y
    <2>4. q < p => q + v <= p
      BY <1>4, <1>5, <1>6, <1>7, MultiplesApart, SMTT(30)
    <2>5. p + x + v <= q \/ q + v <= p + x
      BY <1>4, <1>5, <2>2, <2>3, <2>4 DEF x, y
    <2>6. p + x \in Nat /\ FieldBits(i, e, f, j) = ElementBits(p + x, j, v, s, FALSE)
      BY <1>9, Zenon DEF x
    <2>7. ElementBits(p + x, j, v, s, FALSE) \cap ElementBits(q, k, v, s, FALSE) = {}
      <3>1. Group(v, s) /\ j * s < v * VLEN /\ k * s < v * VLEN /\ p + x \in Nat /\ q \in Nat
        BY <1>5, <1>9, <1>10, <2>6, Zenon
      <3> QED BY <3>1, <2>5, GroupsApart, ZenonT(40)
    <2> QED BY <1>8, <2>6, <2>7, Zenon
  <1>13. CASE i.nf = 0
    <2>1. f = 0 /\ j # k
      BY <1>11, <1>13
    <2>2. ArgBits(i, e, 0, j) = ElementBits(p, j, v, s, FALSE)
      <3>1. ArgBits(i, e, 0, j) = ElementBits(p, j, v * 1, s * 1, FALSE)
        BY <1>2, <1>3, ArgBitsGroup, Zenon
      <3> QED BY <3>1, <1>5, Zenon
    <2>3. FieldBits(i, e, f, j) = ArgBits(i, e, 0, j)
      BY <1>5, <1>9, <2>1, <2>2, Zenon
    <2>4. ~isScalarN(i.shape, 0) /\ ~isScalarN(i.shape, 2)
      BY <1>3, Zenon DEF argIsGroup
    <2> QED BY <1>2, <2>1, <2>3, <2>4, SourceApart, ZenonT(40)
  <1> QED BY <1>11, <1>12, <1>13, SMTT(30)

LEMMA LoadMaskApart ==
  ASSUME NEW i, NEW e, Setting(e), Decoded(i), Allowed(i, e), ~isWhole(i),
         i.row.tcb \in LoadCBs, MemoryRow(i.row), isVReg(i.r[0]), isVReg(i.mask),
         NEW j \in Nat, j < getVLMAXOp(i, e), NEW k \in Nat, k < getVLMAXOp(i, e), j # k \/ i.nf > 0,
         NEW f \in 0..NF(i)
  PROVE  FieldBits(i, e, f, j) \cap Bits(i.mask, k * MLEN(i, e), MLEN(i, e)) = {}
  <1> DEFINE v == VLMUL(i, e)
             s == SEW(i, e)
             p == i.r[0]
             m == MLEN(i, e)
  <1>1. i.shape = "S111_IIXSM" /\ i.mask = 0
    BY SMTT(30) DEF MemoryRow, LoadCBs, StoreCBs, Decoded, isVReg
  <1>2. 0 \in 0..3 /\ 1 \in {1, 2, 4}
    BY ArgIndices, Zenon
  <1>3. argIsGroup(i.shape, 0) /\ getWidthMultiplierN(i.shape, 0) = 1
    BY <1>1, <1>2, ShapeOnes, Zenon DEF OneShapes
  <1>3a. ~isScalarN(i.shape, 0)
    BY <1>3, ZenonT(40) DEF argIsGroup
  <1>4. v \in {1, 2, 4, 8} /\ s \in {8, 16, 32, 64} /\ m \in Nat /\ 0 < m /\ Whole(m)
    BY SettingFacts, Zenon
  <1>5. v * 1 = v /\ s * 1 = s /\ p \in 0..31 /\ p + 0 * v = p
    <2>1. p \in 0..31
      BY <1>2, Registers, Zenon
    <2> HIDE DEF v, s, p
    <2> QED BY <1>4, <2>1
  <1>9. /\ Group(v, s) /\ p + f * v \in Nat
        /\ FieldBits(i, e, f, j) = ElementBits(p + f * v, j, v, s, FALSE)
    BY FieldRun, ZenonT(40)
  <1>10. j * s < v * VLEN /\ k * m + m <= VLEN
    BY <1>2, <1>4, <1>5, BelowVLMAX, Zenon
  <1>11. f \in Nat /\ NF(i) = i.nf /\ i.nf \in Nat
    BY DEF NF, Decoded
  <1>12. CASE i.nf > 0
    <2>1. "OT_M" \in Constraints(i, e)
      BY <1>1, <1>12, ShapeFacts, Zenon DEF Constraints
    <2>2. i.mask \notin ArgRegs(i, v, 0)
      BY <1>3a, <2>1, Overlap, Zenon
    <2>3. getVRegNumN(i, v, 0) = v
      BY <1>3, <1>5, ZenonT(40) DEF getVRegNumN
    <2>4. p # 0
      BY <1>1, <1>4, <2>2, <2>3, SMTT(30) DEF ArgRegs, VREG_NUM
    <2> DEFINE x == p + f * v
               b == ElementAt(j, v, s, FALSE)
               d == k * m
    <2>5. x \in Nat /\ 1 <= x
      BY <1>4, <1>5, <1>9, <1>11, <2>4, SMTT(30)
    <2> HIDE DEF v, s, p, m, x
    <2>6. /\ Whole(b) /\ Whole(s) /\ s \in Nat /\ 0 < s
          /\ ElementBits(x, j, v, s, FALSE) = Bits(x, b, s)
      <3>1. Group(v, s) /\ j * s < v * VLEN /\ x \in Nat
        BY <1>9, <1>10, <2>5, Zenon
      <3> QED BY <3>1, ElementBitsRun, Zenon
    <2>7. b \in Nat /\ b + s <= v * VLEN
      BY <1>9, <1>10, ElementWithin, Zenon
    <2>8. Whole(d) /\ d \in Nat /\ d + m <= 1 * VLEN
      <3>1. Whole(d) /\ d \in Nat
        BY <1>4, WholeMultiple, Zenon
      <3>2. d + m <= VLEN /\ VLEN \in Nat
        BY <1>10, Lengths, Zenon
      <3> QED BY <3>1, <3>2
    <2>9. v \in Nat /\ 0 + 1 <= x /\ x \in Int
      BY <1>4, <2>5
    <2> HIDE DEF b, d
    <2>10. Bits(x, b, s) \cap Bits(0, d, m) = {}
      BY <1>4, <2>6, <2>7, <2>8, <2>9, RegistersApart, SMTT(30)
    <2> QED BY <1>1, <1>9, <2>6, <2>10, Zenon DEF x, d, m
  <1>13. CASE i.nf = 0
    <2>1. f = 0 /\ j # k
      BY <1>11, <1>13
    <2>2. ArgBits(i, e, 0, j) = ElementBits(p, j, v, s, FALSE)
      <3>1. ArgBits(i, e, 0, j) = ElementBits(p, j, v * 1, s * 1, FALSE)
        BY <1>2, <1>3, ArgBitsGroup, Zenon
      <3> QED BY <3>1, <1>5, Zenon
    <2>3. FieldBits(i, e, f, j) = ArgBits(i, e, 0, j)
      BY <1>5, <1>9, <2>1, <2>2, Zenon
    <2> QED BY <1>2, <1>3a, <2>1, <2>3, MaskApart, Zenon
  <1> QED BY <1>11, <1>12, <1>13, SMTT(30)

(* A whole register move that goes up does not overlap its source. *)
LEMMA WholeApart ==
  ASSUME NEW i, NEW e, Decoded(i), i.whole = "RV_WD_MV", Allowed(i, e), i.shape = "S111_II",
         i.row.check = "emitVMVRCheckCB", isVReg(i.r[0]), isVReg(i.r[1]),
         NEW j \in Nat, NEW k \in Nat, j < k, k < getVLMAXOp(i, e)
  PROVE  ArgBits(i, e, 0, j) \cap ArgBits(i, e, 1, k) = {}
  <1> DEFINE d == i.r[0]
             s == i.r[1]
  <1>1. 0 \in 0..3 /\ 1 \in 0..3
    BY ArgIndices, Zenon
  <1>2. d \in 0..31 /\ s \in 0..31 /\ i.nf \in Nat
    <2>1. d \in 0..31 /\ s \in 0..31
      BY <1>1, Registers, Zenon
    <2>2. i.nf \in 0..7
      BY Zenon DEF Decoded
    <2> QED BY <2>1, <2>2
  <1>3. isWhole(i) /\ VLMUL(i, e) = 1 /\ SEW(i, e) = 8
    BY DEF isWhole, VLMUL, SEW
  <1>4. \A a \in {0, 1} : argIsGroup(i.shape, a) /\ getWidthMultiplierN(i.shape, a) = 1
    BY ArgIndices, ShapeOnes, Zenon DEF OneShapes
  <1>5. 8 \in {8, 16, 32, 64} /\ 1 * 1 = 1 /\ 8 * 1 = 8
    OBVIOUS
  <1>6. \A a \in {0, 1}, c \in Nat : isVReg(i.r[a]) => ArgBits(i, e, a, c) = Bits(i.r[a], c * 8, 8)
    <2> SUFFICES ASSUME NEW a \in {0, 1}, NEW c \in Nat, isVReg(i.r[a])
                 PROVE  ArgBits(i, e, a, c) = Bits(i.r[a], c * 8, 8)
      BY Zenon
    <2>1. ArgBits(i, e, a, c) = ElementBits(i.r[a], c, 1 * 1, 8 * 1, isWhole(i))
      BY <1>3, <1>4, Zenon DEF ArgBits, argIsGroup
    <2>2. ElementAt(c, 1, 8, isWhole(i)) = c * 8
      BY <1>5, OneRegister, Zenon
    <2> QED BY <1>5, <2>1, <2>2, Zenon DEF ElementBits
  <1>7. emitVMVRCheckCB(e.conf, i, 1)
    BY <1>3, SMTT(30) DEF Allowed, checkCB
  <1>8. ~(d > s /\ d - s < i.nf + 1)
    BY <1>2, <1>7 DEF emitVMVRCheckCB, getVRegNum
  <1>9. getVLMAXOp(i, e) = ((VLEN * (i.nf + 1)) * 1) \div 8
    BY <1>3, Zenon DEF getVLMAXOp
  <1> HIDE DEF d, s
  <1>10. VLEN \in Nat /\ VLEN % 8 = 0 /\ 0 < VLEN
    BY Lengths, LayoutAssumption
  <1> DEFINE n == i.nf + 1
             t == VLEN * n
  <1>11. t \in Nat /\ n \in Nat
    BY <1>2, <1>10
  <1> HIDE DEF t
  <1>12. k * 8 + 8 <= t
    <2>1. k < t \div 8
      BY <1>9, <1>11 DEF t
    <2>2. t \in Nat
      BY <1>11
    <2> QED BY <2>1, <2>2
  <1>13. d <= s \/ n <= d - s
    BY <1>2, <1>8
  <1>14. \/ d * VLEN + j * 8 + 8 <= s * VLEN + k * 8
         \/ s * VLEN + k * 8 + 8 <= d * VLEN + j * 8
    <2>1. CASE d <= s
      <3>1. d * VLEN <= s * VLEN
        BY <1>2, <1>10, <2>1
      <3>2. d * VLEN \in Int /\ s * VLEN \in Int
        BY <1>2, <1>10
      <3> QED BY <3>1, <3>2
    <2>2. CASE n <= d - s
      <3>1. s + n <= d /\ s \in Nat /\ d \in Nat
        BY <1>2, <1>11, <2>2
      <3>2. (s + n) * VLEN <= d * VLEN
        BY <1>10, <1>11, <3>1
      <3>3. (s + n) * VLEN = s * VLEN + t
        BY <1>10, <1>11, <3>1 DEF t
      <3>4. d * VLEN \in Int /\ s * VLEN \in Int
        BY <1>2, <1>10
      <3> QED BY <1>11, <1>12, <3>2, <3>3, <3>4
    <2> QED BY <1>13, <2>1, <2>2
  <1>15. Whole(j * 8) /\ Whole(k * 8) /\ Whole(8) /\ j * 8 \in Int /\ k * 8 \in Int
    BY WholeFacts
  <1>16. Bits(d, j * 8, 8) \cap Bits(s, k * 8, 8) = {}
    <2>1. d \in Int /\ s \in Int /\ 8 \in Nat /\ 0 < 8
      BY <1>2
    <2> QED BY <2>1, <1>14, <1>15, BitsApart, ZenonT(40)
  <1>17. 0 \in {0, 1} /\ 1 \in {0, 1}
    OBVIOUS
  <1> QED BY <1>6, <1>16, <1>17, Zenon DEF d, s

(* The bit that is tested is of the field. *)
LEMMA MaskBit ==
  ASSUME NEW q \in Nat, NEW b \in Nat, NEW m \in Nat, 0 < m
  PROVE  Bits(q, b, 1) \subseteq Bits(q, b, m)
  <1> DEFINE x == q * VLEN + b
  <1>1. x \in Int /\ GRAN \in {1, 2, 4, 8}
    BY Lengths, LayoutAssumption
  <1> HIDE DEF x
  <1>2. x \div GRAN \in Int /\ (x + 1 - 1) \div GRAN <= (x + m - 1) \div GRAN /\ (x + m - 1) \div GRAN \in Int
    BY <1>1
  <1> DEFINE A == x \div GRAN
             C == (x + 1 - 1) \div GRAN
             D == (x + m - 1) \div GRAN
  <1>4. (x + 1 - 1) \div GRAN \in Int
    BY <1>1
  <1>5. A \in Int /\ C \in Int /\ D \in Int /\ C <= D
    BY <1>2, <1>4
  <1> HIDE DEF A, C, D
  <1>6. A..C \subseteq A..D
    BY <1>5
  <1> QED BY <1>6, Zenon DEF Bits, x, A, C, D

(* Only segments have fields, and only some instructions clear registers   *)
(* first.                                                                  *)
LEMMA OneField ==
  ASSUME NEW i, Decoded(i), i.row.tcb \notin LoadCBs \cup StoreCBs
  PROVE  ~(NF(i) > 0)
  <1>1. i.nf > 0 => i.whole = "RV_WD_MV"
    BY DEF Decoded, LoadCBs, StoreCBs, MemoryCBs
  <1> QED BY <1>1 DEF NF, isWhole

LEMMA NoZeroTail ==
  ASSUME NEW i, NEW e, RowClass(i.row), i.row.tcb \notin {"emitVCOMPRESSCB", "emitVMVSX", "emitVFMVSF"}
  PROVE  zeroTail(i, e) = {}
  <1>1. i.row.init # "initVCOMPRESSCB"
    BY Zenon DEF RowClass, MemoryRow, PlainRow, MoveRow, ReduceRow, MaskRow, CompressRow, ScalarRow
  <1> QED BY <1>1 DEF zeroTail

(* Instructions other than loads, stores, reductions and scalar moves, on  *)
(* groups of registers.                                                    *)
OnElements(i) ==
  /\ ~isWhole(i) /\ i.shape \in VectorShapes
  /\ i.row.tcb \notin LoadCBs \cup StoreCBs /\ i.row.end # "endVRedCB"

LEMMA NoArgument ==
  ASSUME NEW i, NEW e, NEW a, ~isVReg(i.r[a]), NEW k
  PROVE  ArgBits(i, e, a, k) = {}
  BY Zenon DEF ArgBits

(* VCOMPRESS clears its destination first, which overlaps neither source   *)
(* nor mask.                                                               *)
LEMMA ClearedApart ==
  ASSUME NEW i, NEW e, Setting(e), Decoded(i), Allowed(i, e), ~isWhole(i), i.shape = "S111_CMP",
         NEW k \in Nat, k < getVLMAXOp(i, e), isVReg(i.r[0])
  PROVE  /\ isVReg(i.r[1]) => RegisterBits(i.r[0], VLMUL(i, e)) \cap ArgBits(i, e, 1, k) = {}
         /\ isVReg(i.mask) => RegisterBits(i.r[0], VLMUL(i, e)) \cap Bits(i.mask, k * MLEN(i, e), MLEN(i, e)) = {}
  <1> DEFINE v == VLMUL(i, e)
             p == i.r[0]
             m == MLEN(i, e)
             q == i.mask
             t == v * VLEN
  <1>0. 0 \in 0..3 /\ 1 \in 0..3 /\ 1 \in 1..3
    BY ArgIndices, Zenon
  <1>1. argIsGroup(i.shape, 0) /\ getWidthMultiplierN(i.shape, 0) = 1
    BY <1>0, ShapeOnes, Zenon DEF OneShapes
  <1>2. ~isScalarN(i.shape, 0) /\ ~isScalarN(i.shape, 1)
    BY <1>0, ShapeOnes, Zenon DEF argIsGroup, OneShapes
  <1>3. v \in {1, 2, 4, 8} /\ m \in Nat /\ 0 < m /\ Whole(m)
    BY SettingFacts, Zenon
  <1>4. getVRegNumN(i, v, 0) = v
    <2>1. v * 1 = v
      BY <1>3
    <2> QED BY <1>1, <2>1, Zenon DEF getVRegNumN
  <1>5. "OT_S" \in Constraints(i, e) /\ "OT_M" \in Constraints(i, e)
    BY ShapeFacts, Zenon DEF Constraints
  <1>6. p \in 0..31
    BY <1>0, Registers, Zenon
  <1>7. VLEN \in Nat /\ 0 < VLEN
    BY Lengths, LayoutAssumption
  <1>8. t \in Nat /\ 0 < t /\ Whole(t) /\ Whole(0)
    <2>1. t \in Nat /\ 0 < t /\ v \in Int
      BY <1>3, <1>7
    <2>2. Whole(t)
      BY <2>1, WholeFacts, Zenon
    <2>3. Whole(0)
      BY LayoutAssumption DEF Whole
    <2> QED BY <2>1, <2>2, <2>3, Zenon
  <1>9. ASSUME isVReg(i.r[1])
        PROVE  RegisterBits(p, v) \cap ArgBits(i, e, 1, k) = {}
    <2> DEFINE c == i.r[1]
               y == getVRegNumN(i, v, 1)
    <2>1. PICK d \in Nat, w \in Nat :
              ArgBits(i, e, 1, k) = Bits(c, d, w) /\ Whole(d) /\ Whole(w) /\ 0 < w /\ d + w <= y * VLEN
      BY <1>0, <1>2, <1>9, OperandRun, Zenon
    <2>2. c \in Nat /\ y \in {1, 2, 4, 8}
      BY <1>0, <1>2, <1>9, OperandRun, Zenon
    <2>3. ArgRegs(i, v, 0) \cap ArgRegs(i, v, 1) = {}
      BY <1>0, <1>2, <1>5, <1>9, Overlap, Zenon
    <2>4. p + v <= c \/ c + y <= p
      BY <1>0, <1>2, <1>4, <1>9, <2>3, RegsApart, Zenon
    <2> HIDE DEF c, y, p, v, t
    <2>5. Bits(p, 0, t) \cap Bits(c, d, w) = {}
      <3>1. p \in Int /\ c \in Int /\ v \in Nat /\ y \in Nat /\ 0 \in Nat /\ 0 + t <= v * VLEN
        BY <1>3, <1>6, <1>7, <1>8, <2>2 DEF t
      <3> QED BY <3>1, <1>8, <2>1, <2>4, RegistersApart, Zenon
    <2> QED BY <2>1, <2>5, Zenon DEF RegisterBits, t
  <1>10. ASSUME isVReg(i.mask)
         PROVE  RegisterBits(p, v) \cap Bits(q, k * m, m) = {}
    <2> DEFINE d == k * m
    <2>1. q \in 0..31
      BY <1>10, MaskRegister, Zenon
    <2>2. q \notin ArgRegs(i, v, 0)
      BY <1>2, <1>5, <1>10, Overlap, Zenon
    <2>3. p + v <= q \/ q + 1 <= p
      BY <1>3, <1>4, <1>6, <2>1, <2>2 DEF ArgRegs, VREG_NUM
    <2>4. Whole(d) /\ d \in Nat
      BY <1>3, WholeMultiple, Zenon
    <2>5. d + m <= 1 * VLEN
      BY <1>7, BelowVLMAX
    <2> HIDE DEF q, p, v, t, d, m
    <2>6. Bits(p, 0, t) \cap Bits(q, d, m) = {}
      <3>1. p \in Int /\ q \in Int /\ v \in Nat /\ 1 \in Nat /\ 0 \in Nat /\ 0 + t <= v * VLEN
        BY <1>3, <1>6, <1>7, <1>8, <2>1 DEF t
      <3> QED BY <3>1, <1>3, <1>8, <2>3, <2>4, <2>5, RegistersApart, Zenon
    <2> QED BY <2>6, Zenon DEF RegisterBits, t, d
  <1> QED BY <1>9, <1>10, Zenon

-----------------------------------------------------------------------------
(* Sequences                                                               *)

LEMMA AppendOne ==
  ASSUME NEW x, NEW y
  PROVE  Append(<<x>>, y) = <<x, y>>
  <1> DEFINE S == {x, y}
             s == Append(<<x>>, y)
             t == <<x, y>>
  <1>1. <<x>> \in Seq(S) /\ t \in Seq(S)
    OBVIOUS
  <1>2. s \in Seq(S) /\ Len(s) = 2 /\ Len(t) = 2
    BY <1>1
  <1>3. s[1] = t[1] /\ s[2] = t[2]
    BY <1>1
  <1> HIDE DEF s, t, S
  <1>4. s = t
    BY <1>1, <1>2, <1>3
  <1> QED BY <1>4, Zenon DEF s, t

LEMMA AppendTwo ==
  ASSUME NEW x, NEW y, NEW z
  PROVE  Append(<<x, y>>, z) = <<x, y, z>> /\ <<x>> \o <<y, z>> = <<x, y, z>>
  <1> DEFINE S == {x, y, z}
             s == <<x>> \o <<y, z>>
             t == <<x, y, z>>
             u == Append(<<x, y>>, z)
  <1>1. <<x>> \in Seq(S) /\ <<x, y>> \in Seq(S) /\ <<y, z>> \in Seq(S) /\ t \in Seq(S)
    OBVIOUS
  <1>2. u \in Seq(S) /\ Len(u) = 3 /\ u[1] = t[1] /\ u[2] = t[2] /\ u[3] = t[3]
    BY <1>1
  <1>3. s \in Seq(S) /\ Len(s) = 3 /\ Len(t) = 3
    BY <1>1
  <1>4. s[1] = t[1] /\ s[2] = t[2] /\ s[3] = t[3]
    BY <1>1
  <1> HIDE DEF s, t, u, S
  <1>5. s = t
    BY <1>1, <1>3, <1>4
  <1>6. u = t
    BY <1>1, <1>2, <1>3
  <1> QED BY <1>5, <1>6, Zenon DEF s, t, u

LEMMA AppendThree ==
  ASSUME NEW x, NEW y, NEW z, NEW w
  PROVE  Append(<<x, y, z>>, w) = <<x, y, z, w>> /\ <<x, y>> \o <<z, w>> = <<x, y, z, w>>
  <1> DEFINE S == {x, y, z, w}
             s == <<x, y>> \o <<z, w>>
             t == <<x, y, z, w>>
             u == Append(<<x, y, z>>, w)
  <1>1. <<x, y>> \in Seq(S) /\ <<z, w>> \in Seq(S) /\ <<x, y, z>> \in Seq(S) /\ t \in Seq(S)
    OBVIOUS
  <1>2. u \in Seq(S) /\ Len(u) = 4
    BY <1>1
  <1>3. u[1] = t[1] /\ u[2] = t[2] /\ u[3] = t[3] /\ u[4] = t[4]
    BY <1>1
  <1>4. s \in Seq(S) /\ Len(s) = 4 /\ Len(t) = 4
    BY <1>1
  <1>5. s[1] = t[1] /\ s[2] = t[2] /\ s[3] = t[3] /\ s[4] = t[4]
    BY <1>1
  <1> HIDE DEF s, t, u, S
  <1>6. s = t
    BY <1>1, <1>4, <1>5
  <1>7. u = t
    BY <1>1, <1>2, <1>3, <1>4
  <1> QED BY <1>6, <1>7, Zenon DEF s, t, u

=============================================================================
