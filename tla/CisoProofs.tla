----------------------------- MODULE CisoProofs -----------------------------
(* Proofs about Ciso, for images, blocks, windows and requests of any      *)
(* size.                                                                   *)
EXTENDS Ciso, FiniteSetTheorems, WellFoundedInduction, TLAPS

(* The part of a request that the image has. *)
Least(a, b) == IF a <= b THEN a ELSE b
Length == Least(want, file.uncompressed_size - o_offset)

(* The window of offsets is that of the image that is open, and there is   *)
(* none after ciso_close.                                                  *)
IndexInv ==
  /\ idx_start_block \in Int
  /\ idx_start_block >= 0 => idx_cache = Index(idx_start_block)
  /\ pc = "closed" => idx_start_block < 0

(* How far a call has come. *)
CallInv ==
  /\ addr \in Nat \ {0} /\ size \in Nat /\ offset \in Nat
  /\ want \in Nat /\ o_offset \in Nat /\ addr - 1 = offset - o_offset
  /\ pc \in {"open", "closed"} => addr = 1
  /\ pc = "reading" =>
       /\ buf \in [1 .. want -> Int] /\ c_buf \in Nat /\ o_end \in Int
       /\ o_offset <= file.uncompressed_size /\ addr - 1 + size = Length
  /\ pc = "returned" =>
       offset - o_offset = IF o_offset > file.uncompressed_size THEN 0 ELSE Length

(* The window does not begin behind the block that is read. *)
Window == pc = "reading" /\ size > 0 => idx_start_block \in 0 .. cur_block

(* From c_buf on, as far as the image goes and the output has not come,    *)
(* the buffer holds the compressed file from the block that is read; but   *)
(* for the block whose size the code cannot know, before which c_buf is    *)
(* moved too far.                                                          *)
HeldAt(b, c, a, n, from, end) ==
  \A k \in 1 .. n :
    k >= a /\ k >= c /\ from + k - c \in 1 .. end - 1 => b[k] = -(from + k - c)
ReadAheadInv ==
  pc = "reading" /\ size > 0 /\ c_buf # 0 /\ Known(cur_block) =>
      HeldAt(buf, c_buf, addr, want, Begin[cur_block], Begin[Blocks])

(* What is delivered so far. *)
Front == \A k \in 1 .. addr - 1 :
           Told((o_offset + k - 1) \div block_size) => buf[k] = o_offset + k - 1

IInv ==
  /\ file \in Image /\ pc \in {"closed", "open", "reading", "returned", "corrupt"}
  /\ pc = "corrupt" => ~Known(cur_block)
  /\ IndexInv /\ CallInv /\ Window /\ ReadAheadInv /\ Front

-----------------------------------------------------------------------------
(* Induction over the numbers, for a set of them. *)
LEMMA Induct ==
  ASSUME NEW S, 0 \in S, \A k \in Nat : k \in S => k + 1 \in S
  PROVE  Nat \subseteq S
<1>. DEFINE R == OpToRel(<, Nat)
            T == Nat \ S
<1>1. IsWellFoundedOn(R, Nat)
  BY NatLessThanWellFounded
<1>2. \A x \in Nat, y \in Nat : y < x => <<y, x>> \in R
  BY DEF OpToRel
<1>3. SUFFICES ASSUME T # {} PROVE FALSE
  OBVIOUS
<1>4. T \subseteq Nat
  OBVIOUS
<1>5. PICK x \in T : \A y \in T : ~ (<<y, x>> \in R)
  <2>. HIDE DEF R, T
  <2>. QED
    BY <1>1, <1>3, <1>4, WFMin
<1>6. x \in Nat /\ x # 0 /\ x \notin S
  OBVIOUS
<1>7. x - 1 \in Nat /\ x - 1 < x /\ x - 1 + 1 = x
  BY <1>6
<1>8. x - 1 \in S
  <2>1. <<x - 1, x>> \in R
    BY <1>2, <1>6, <1>7
  <2>. HIDE DEF R
  <2>. QED
    BY <1>5, <1>7, <2>1
<1>9. x \in S
  BY <1>7, <1>8
<1>. QED
  BY <1>6, <1>9

-----------------------------------------------------------------------------
(* Numbers. *)
LEMMA MinOfTwo == ASSUME NEW a \in Int, NEW b \in Int PROVE Min({a, b}) = Least(a, b)
<1>. DEFINE m == Least(a, b)
<1>1. m \in {a, b} /\ \A t \in {a, b} : m <= t
  BY DEF Least
<1>2. ASSUME NEW s \in {a, b}, \A t \in {a, b} : s <= t PROVE s = m
  BY <1>2 DEF Least
<1>3. Min({a, b}) = CHOOSE s \in {a, b} : \A t \in {a, b} : s <= t
  BY DEF Min
<1>. HIDE DEF m
<1>4. Min({a, b}) = m
  BY <1>1, <1>2, <1>3
<1>. QED
  BY <1>4 DEF m

LEMMA DivMod ==
  ASSUME NEW b \in Nat \ {0}, NEW o \in Nat
  PROVE  \E q \in Nat, r \in 0 .. b - 1 : q = o \div b /\ r = o % b /\ o = b * q + r
<1>1. o \div b \in Nat /\ o % b \in 0 .. b - 1
  OBVIOUS
<1>2. o % b = o - b * (o \div b)
  BY SMTT(30)
<1>3. PICK q \in Nat, r \in 0 .. b - 1 : q = o \div b /\ r = o % b
  BY <1>1
<1>4. r = o - b * q /\ b * q \in Int
  BY <1>2, <1>3
<1>5. o = b * q + r
  BY <1>4
<1>. QED
  BY <1>3, <1>5

LEMMA DivIs ==
  ASSUME NEW b \in Nat \ {0}, NEW o \in Nat, NEW q \in Nat, NEW r \in 0 .. b - 1, o = b * q + r
  PROVE  o \div b = q /\ o % b = r
BY SMTT(30)

(* The blocks of the units of an image. *)
LEMMA DivBounded ==
  ASSUME NEW b \in Nat \ {0}, NEW o \in Nat, NEW n \in Nat, o < n * b
  PROVE  o \div b \in 0 .. n - 1
<1>1. PICK q \in Nat, r \in 0 .. b - 1 : q = o \div b /\ o = b * q + r
  BY DivMod
<1>2. ASSUME q >= n PROVE FALSE
  <2>1. b * q >= b * n
    BY ONLY <1>2, q \in Nat, n \in Nat, b \in Nat
  <2>2. n * b = b * n
    OBVIOUS
  <2>. QED
    BY <1>1, <2>1, <2>2
<1>. QED
  BY <1>1, <1>2

LEMMA DivMonotone ==
  ASSUME NEW b \in Nat \ {0}, NEW o \in Nat, NEW p \in Nat, o <= p
  PROVE  o \div b <= p \div b
<1>1. PICK q \in Nat, r \in 0 .. b - 1 : q = o \div b /\ o = b * q + r
  BY DivMod
<1>2. PICK s \in Nat, t \in 0 .. b - 1 : s = p \div b /\ p = b * s + t
  BY DivMod
<1>3. ASSUME q > s PROVE FALSE
  <2>1. b * q >= b * (s + 1)
    BY ONLY <1>3, q \in Nat, s \in Nat, b \in Nat
  <2>2. b * (s + 1) = b * s + b
    OBVIOUS
  <2>. QED
    BY <1>1, <1>2, <2>1, <2>2
<1>. QED
  BY <1>1, <1>2, <1>3

LEMMA ModWidth ==
  ASSUME NEW x \in Int, NEW y \in Int
  PROVE  /\ Minus(x, y) \in 0 .. W - 1
         /\ x - y \in 0 .. W - 1 => Minus(x, y) = x - y
<1>1. W \in Nat \ {0}
  <2>1. W # 0
    <3>1. Blocks * com_size >= 0
      BY CisoAssumption
    <3>2. 0 \div 2 = 0
      OBVIOUS
    <3>. QED
      BY <3>1, <3>2, CisoAssumption
  <2>. QED
    BY <2>1, CisoAssumption
<1>2. \A d \in Int : d % W \in 0 .. W - 1
  BY <1>1
<1>3. \A d \in 0 .. W - 1 : d % W = d
  BY <1>1
<1>. QED
  BY <1>2, <1>3 DEF Minus

-----------------------------------------------------------------------------
(* Where the blocks begin. *)
Sums(r, sizes, n) == r = [k \in 0 .. n |-> IF k = 0 THEN 1 ELSE r[k - 1] + sizes[k - 1]]

LEMMA SumsExist ==
  ASSUME NEW n \in Nat, NEW sizes \in [0 .. n - 1 -> Nat]
  PROVE  \E r \in [0 .. n -> Nat] : Sums(r, sizes, n)
<1>. DEFINE S == {m \in Nat : m <= n => \E r \in [0 .. m -> Nat] : Sums(r, sizes, m)}
<1>1. 0 \in S
  <2>. DEFINE r == [k \in 0 .. 0 |-> 1]
  <2>1. r \in [0 .. 0 -> Nat] /\ Sums(r, sizes, 0)
    BY DEF Sums
  <2>. QED
    BY <2>1
<1>2. ASSUME NEW m \in Nat, m \in S PROVE m + 1 \in S
  <2>. SUFFICES ASSUME m + 1 <= n PROVE \E r \in [0 .. m + 1 -> Nat] : Sums(r, sizes, m + 1)
    OBVIOUS
  <2>1. PICK r \in [0 .. m -> Nat] : Sums(r, sizes, m)
    BY <1>2
  <2>2. r[m] + sizes[m] \in Nat
    <3>1. m \in 0 .. m /\ m \in 0 .. n - 1
      OBVIOUS
    <3>2. r[m] \in Nat /\ sizes[m] \in Nat
      BY <3>1
    <3>. QED
      BY <3>2
  <2>. DEFINE q == [k \in 0 .. m + 1 |-> IF k = m + 1 THEN r[m] + sizes[m] ELSE r[k]]
  <2>3. q \in [0 .. m + 1 -> Nat]
    BY <2>1, <2>2
  <2>4. ASSUME NEW k \in 0 .. m + 1 PROVE q[k] = IF k = 0 THEN 1 ELSE q[k - 1] + sizes[k - 1]
    <3>1. CASE k = m + 1
      <4>1. q[m + 1] = r[m] + sizes[m] /\ q[m] = r[m] /\ m + 1 - 1 = m /\ m + 1 # 0
        OBVIOUS
      <4>. HIDE DEF q
      <4>. QED
        BY <3>1, <4>1
    <3>2. CASE k # m + 1
      <4>1. k \in 0 .. m /\ q[k] = r[k] /\ (k # 0 => k - 1 \in 0 .. m + 1 /\ q[k - 1] = r[k - 1])
        BY <3>2
      <4>2. r[k] = IF k = 0 THEN 1 ELSE r[k - 1] + sizes[k - 1]
        BY <2>1, <4>1 DEF Sums
      <4>. HIDE DEF q
      <4>. QED
        BY <4>1, <4>2
    <3>. QED
      BY <3>1, <3>2
  <2>5. Sums(q, sizes, m + 1)
    <3>1. q = [k \in 0 .. m + 1 |-> q[k]]
      OBVIOUS
    <3>. QED
      BY <2>4 DEF Sums
  <2>. QED
    BY <2>3, <2>5
<1>3. n \in S
  <2>. HIDE DEF S
  <2>. QED
    BY <1>1, <1>2, Induct
<1>. QED
  BY <1>3

AllSizes == [0 .. Blocks - 1 -> Sizes]

LEMMA BeginsAre ==
  ASSUME NEW sizes \in AllSizes
  PROVE  /\ Begins(sizes)[0] = 1
         /\ \A k \in 0 .. Blocks - 1 : Begins(sizes)[k + 1] = Begins(sizes)[k] + sizes[k]
<1>1. sizes \in [0 .. Blocks - 1 -> Nat] /\ Blocks \in Nat
  <2>1. 1 .. com_size \subseteq Nat /\ Sizes \subseteq 1 .. com_size
    BY CisoAssumption
  <2>2. Sizes \subseteq Nat
    BY <2>1
  <2>. QED
    BY <2>2, CisoAssumption DEF AllSizes
<1>2. \E r : Sums(r, sizes, Blocks)
  BY <1>1, SumsExist
<1>. DEFINE g == CHOOSE r : Sums(r, sizes, Blocks)
<1>3. Sums(g, sizes, Blocks)
  BY <1>2
<1>4. Begins(sizes) = g
  BY DEF Begins, Sums
<1>. HIDE DEF g
<1>5. g[0] = 1
  <2>1. 0 \in 0 .. Blocks
    BY <1>1
  <2>. QED
    BY <1>3, <2>1 DEF Sums
<1>6. ASSUME NEW k \in 0 .. Blocks - 1 PROVE g[k + 1] = g[k] + sizes[k]
  <2>1. k + 1 \in 0 .. Blocks /\ k + 1 # 0 /\ k + 1 - 1 = k
    BY <1>1
  <2>2. \A m \in 0 .. Blocks : m # 0 => g[m] = g[m - 1] + sizes[m - 1]
    BY <1>3 DEF Sums
  <2>3. g[k + 1] = g[k + 1 - 1] + sizes[k + 1 - 1]
    BY <2>1, <2>2
  <2>. QED
    BY <2>1, <2>3
<1>. QED
  BY <1>4, <1>5, <1>6

(* They follow one another and lie within half the numbers there are. *)
LEMMA BeginsGrow ==
  ASSUME NEW sizes \in AllSizes
  PROVE  \A k \in 0 .. Blocks :
           /\ Begins(sizes)[k] \in Nat \ {0} /\ Begins(sizes)[k] <= W
           /\ \A j \in 0 .. k : Begins(sizes)[j] + (k - j) <= Begins(sizes)[k]
<1>. DEFINE B == Begins(sizes)
            Good(k) == /\ B[k] \in Nat \ {0} /\ B[k] <= 1 + k * com_size
                       /\ \A j \in 0 .. k : B[j] \in Nat /\ B[j] + (k - j) <= B[k]
            S == {k \in Nat : k <= Blocks => Good(k)}
<1>0. Blocks \in Nat \ {0} /\ com_size \in Nat /\ W \in Nat
  BY CisoAssumption
<1>1. B[0] = 1 /\ \A k \in 0 .. Blocks - 1 : B[k + 1] = B[k] + sizes[k]
  BY BeginsAre
<1>2. \A k \in 0 .. Blocks - 1 : sizes[k] \in 1 .. com_size
  BY CisoAssumption DEF AllSizes
<1>. HIDE DEF B
<1>3. 0 \in S
  BY <1>0, <1>1
<1>4. ASSUME NEW k \in Nat, k \in S PROVE k + 1 \in S
  <2>. SUFFICES ASSUME k + 1 <= Blocks PROVE Good(k + 1)
    OBVIOUS
  <2>1. Good(k) /\ k \in 0 .. Blocks - 1
    BY <1>0, <1>4
  <2>2. B[k + 1] = B[k] + sizes[k] /\ sizes[k] \in 1 .. com_size
    BY <1>1, <1>2, <2>1
  <2>3. PICK x \in Nat \ {0}, y \in 1 .. com_size : x = B[k] /\ y = sizes[k]
    BY <2>1, <2>2
  <2>4. B[k + 1] = x + y /\ x <= 1 + k * com_size
    BY <2>1, <2>2, <2>3
  <2>5. x + y \in Nat \ {0} /\ x + y <= 1 + (k + 1) * com_size
    <3>1. (k + 1) * com_size = k * com_size + com_size /\ k * com_size \in Nat
      BY <1>0
    <3>. QED
      BY <1>0, <2>4, <3>1
  <2>6. ASSUME NEW j \in 0 .. k + 1 PROVE B[j] \in Nat /\ B[j] + (k + 1 - j) <= x + y
    <3>1. CASE j = k + 1
      BY <2>4, <2>5, <3>1
    <3>2. CASE j # k + 1
      <4>1. j \in 0 .. k
        BY <3>2
      <4>2. B[j] \in Nat /\ B[j] + (k - j) <= x
        BY <2>1, <2>3, <4>1
      <4>. QED
        BY <4>1, <4>2
    <3>. QED
      BY <3>1, <3>2
  <2>. QED
    BY <2>4, <2>5, <2>6
<1>5. \A k \in 0 .. Blocks : Good(k)
  <2>1. Nat \subseteq S
    <3>. HIDE DEF S
    <3>. QED
      BY <1>3, <1>4, Induct
  <2>. QED
    BY <2>1
<1>6. ASSUME NEW k \in 0 .. Blocks PROVE 1 + k * com_size <= W
  <2>1. k * com_size <= Blocks * com_size
    BY <1>0
  <2>2. Blocks * com_size < W \div 2 /\ Blocks * com_size \in Nat /\ k * com_size \in Nat
    BY <1>0, CisoAssumption
  <2>3. W \div 2 \in Nat /\ W \div 2 <= W
    BY <1>0
  <2>. QED
    BY <1>0, <2>1, <2>2, <2>3
<1>7. ASSUME NEW k \in 0 .. Blocks PROVE B[k] <= W
  <2>1. B[k] \in Nat /\ B[k] <= 1 + k * com_size /\ 1 + k * com_size <= W /\ k * com_size \in Nat
    BY <1>0, <1>5, <1>6
  <2>. QED
    BY <1>0, <2>1
<1>. QED
  BY <1>5, <1>7 DEF B

-----------------------------------------------------------------------------
(* What an image is. *)
LEMMA ImageIs ==
  ASSUME file \in Image
  PROVE  /\ file.sizes \in AllSizes /\ file.junk \in Int
         /\ file.block_header \in Nat
         /\ \A k \in 0 .. Blocks - 1 :
              /\ file.sizes[k] > file.block_header
              /\ file.format = "jiso" => file.sizes[k] <= block_size
              /\ k \in file.stored => file.sizes[k] >= block_size
         /\ file.uncompressed_size \in Nat /\ file.uncompressed_size <= Blocks * block_size
<1>1. /\ file.sizes \in AllSizes /\ file.junk \in Junk
      /\ file.block_header \in Headers
      /\ \A k \in DOMAIN file.sizes :
           /\ file.sizes[k] > file.block_header
           /\ file.format = "jiso" => file.sizes[k] <= block_size
           /\ k \in file.stored => file.sizes[k] >= block_size
      /\ file.uncompressed_size \in (Blocks - 1) * block_size + 1 .. Blocks * block_size
  BY DEF Image, AllSizes
<1>2. Blocks \in Nat \ {0} /\ block_size \in Nat \ {0}
  BY CisoAssumption
<1>3. (Blocks - 1) * block_size \in Nat /\ Blocks * block_size \in Nat
  BY <1>2
<1>4. file.junk \in Int
  <2>1. 0 .. W \div 2 - 1 \subseteq Int
    OBVIOUS
  <2>. QED
    BY <1>1, <2>1, CisoAssumption
<1>5. file.block_header \in Nat /\ DOMAIN file.sizes = 0 .. Blocks - 1
  BY <1>1, CisoAssumption DEF AllSizes
<1>. QED
  BY <1>1, <1>3, <1>4, <1>5

LEMMA Places ==
  ASSUME file \in Image
  PROVE  /\ \A k \in 0 .. Blocks :
              /\ Begin[k] \in Nat \ {0} /\ Begin[k] <= W
              /\ \A j \in 0 .. k : Begin[j] + (k - j) <= Begin[k]
         /\ \A k \in 0 .. Blocks - 1 :
              /\ file.sizes[k] \in 1 .. com_size
              /\ Begin[k + 1] = Begin[k] + file.sizes[k]
         /\ \A k \in Nat : Table(k) \in Int
<1>1. file.sizes \in AllSizes /\ file.junk \in Int
  BY ImageIs
<1>2. PICK s \in AllSizes : s = file.sizes
  BY <1>1
<1>3. Begin = Begins(s)
  BY <1>2 DEF Begin
<1>4. \A k \in 0 .. Blocks :
        /\ Begin[k] \in Nat \ {0} /\ Begin[k] <= W
        /\ \A j \in 0 .. k : Begin[j] + (k - j) <= Begin[k]
  BY <1>3, BeginsGrow
<1>5. ASSUME NEW k \in 0 .. Blocks - 1
      PROVE  s[k] \in 1 .. com_size /\ Begin[k + 1] = Begin[k] + s[k]
  <2>1. Begin[k + 1] = Begin[k] + s[k]
    BY <1>3, BeginsAre
  <2>2. s[k] \in 1 .. com_size
    BY CisoAssumption DEF AllSizes
  <2>. QED
    BY <2>1, <2>2
<1>6. ASSUME NEW k \in Nat PROVE Table(k) \in Int
  <2>1. CASE k < Blocks \/ (k = Blocks /\ ~dax)
    <3>1. k \in 0 .. Blocks
      BY <2>1, CisoAssumption
    <3>2. Begin[k] \in Int
      BY <1>4, <3>1
    <3>. QED
      BY <2>1, <3>2 DEF Table
  <2>2. CASE ~(k < Blocks \/ (k = Blocks /\ ~dax))
    BY <1>1, <2>2 DEF Table
  <2>. QED
    BY <2>1, <2>2
<1>. QED
  BY <1>2, <1>4, <1>5, <1>6

(* The block that is read lies in the image and in the window, and its     *)
(* offset and, where the code can know it, its size are those of the image *)
(* (for the last block of a DAX file the size is the largest there is).    *)
LEMMA CurrentBlock ==
  ASSUME IInv, pc = "reading", size > 0
  PROVE  cur_block \in 0 .. Blocks - 1
<1>1. /\ block_size \in Nat \ {0} /\ Blocks \in Nat /\ Blocks * block_size \in Nat
      /\ file.uncompressed_size \in Nat /\ file.uncompressed_size <= Blocks * block_size
  BY CisoAssumption, ImageIs DEF IInv
<1>2. /\ offset \in Nat /\ size \in Nat /\ addr \in Nat /\ o_offset \in Nat /\ want \in Nat
      /\ addr - 1 = offset - o_offset /\ addr - 1 + size = Length
  BY DEF IInv, CallInv
<1>3. Length <= file.uncompressed_size - o_offset /\ Length \in Int
  BY <1>1, <1>2 DEF Length, Least
<1>4. offset < Blocks * block_size
  <2>1. PICK l \in Int, u \in Nat, m \in Nat :
          l = Length /\ u = file.uncompressed_size /\ m = Blocks * block_size
    BY <1>1, <1>3
  <2>. QED
    BY <1>1, <1>2, <1>3, <2>1
<1>. QED
  BY <1>1, <1>2, <1>4, DivBounded DEF cur_block

LEMMA InWindow ==
  ASSUME IInv, pc = "reading", size > 0
  PROVE  start_now \in 0 .. cur_block /\ cache_now = Index(start_now) /\ InIndex
<1>1. /\ cur_block \in Nat /\ idx_start_block \in 0 .. cur_block
      /\ idx_cache_num \in Nat /\ idx_cache_num > 2
  BY CurrentBlock, CisoAssumption DEF IInv, Window
<1>2. idx_cache = Index(idx_start_block)
  BY <1>1 DEF IInv, IndexInv
<1>3. CASE Stale
  BY <1>1, <1>3 DEF start_now, cache_now, InIndex, at_now
<1>4. CASE ~Stale
  <2>1. start_now = idx_start_block /\ cache_now = Index(start_now)
    BY <1>2, <1>4 DEF start_now, cache_now
  <2>2. cur_block - idx_start_block < idx_cache_num - 1
    BY <1>1, <1>4 DEF Stale
  <2>. QED
    BY <1>1, <2>1, <2>2 DEF InIndex, at_now
<1>. QED
  BY <1>3, <1>4

LEMMA BlockIs ==
  ASSUME IInv, pc = "reading", size > 0
  PROVE  /\ b_offset = Begin[cur_block] /\ b_size \in Nat
         /\ Known(cur_block) =>
              /\ b_size = SizeOf(cur_block)
              /\ b_size \in 1 .. com_size /\ file.sizes[cur_block] <= b_size
              /\ Known(cur_block + 1) => b_size = file.sizes[cur_block]
<1>0. file \in Image /\ com_size \in Nat /\ Blocks \in Nat \ {0} /\ block_size \in Nat \ {0}
      /\ W \in Nat /\ idx_cache_num \in Nat
  BY CisoAssumption DEF IInv
<1>1. PICK k \in 0 .. Blocks - 1 : k = cur_block
  BY CurrentBlock
<1>2. /\ start_now \in 0 .. k /\ cache_now = Index(start_now)
      /\ k - start_now \in 0 .. idx_cache_num - 2
  BY <1>1, InWindow DEF InIndex, at_now
<1>3. cache_now[at_now] = Table(k) /\ cache_now[at_now + 1] = Table(k + 1)
  <2>1. PICK s \in 0 .. k : s = start_now
    BY <1>2
  <2>2. k - s \in 0 .. idx_cache_num - 1 /\ k - s + 1 \in 0 .. idx_cache_num - 1
    BY <1>0, <1>2, <2>1
  <2>3. Index(s)[k - s] = Table(s + (k - s)) /\ Index(s)[k - s + 1] = Table(s + (k - s + 1))
    BY <2>2 DEF Index
  <2>4. s + (k - s) = k /\ s + (k - s + 1) = k + 1
    OBVIOUS
  <2>5. at_now = k - s
    BY <1>1, <2>1 DEF at_now
  <2>6. cache_now = Index(s)
    BY <1>2, <2>1
  <2>. HIDE DEF Index
  <2>. QED
    BY <2>3, <2>4, <2>5, <2>6
<1>4. /\ Begin[k] \in Nat /\ file.sizes[k] \in 1 .. com_size
      /\ Begin[k + 1] = Begin[k] + file.sizes[k]
  BY <1>0, Places
<1>5. Table(k) = Begin[k] /\ b_offset = Begin[k]
  BY <1>0, <1>3 DEF Table, b_offset
<1>6. com_size <= W - 1
  <2>1. com_size <= Blocks * com_size /\ Blocks * com_size \in Nat
    BY <1>0
  <2>2. Blocks * com_size < W \div 2 /\ W \div 2 \in Nat /\ W \div 2 <= W
    BY <1>0, CisoAssumption
  <2>. QED
    BY <1>0, <2>1, <2>2
<1>7. total_blocks \in Nat /\ total_blocks <= Blocks
  <2>1. PICK u \in Nat : u = file.uncompressed_size /\ u <= Blocks * block_size
    BY <1>0, ImageIs
  <2>2. PICK o \in Nat : o = Blocks * block_size
    BY <1>0
  <2>3. o = block_size * Blocks + 0 /\ 0 \in 0 .. block_size - 1
    BY <1>0, <2>2
  <2>4. o \div block_size = Blocks
    BY <1>0, <2>3, DivIs
  <2>5. u \div block_size \in Nat
    BY <1>0, DivMod
  <2>6. u \div block_size <= o \div block_size
    BY <1>0, <2>1, <2>2, DivMonotone
  <2>. QED
    BY <2>1, <2>4, <2>5, <2>6 DEF total_blocks
<1>8. CASE dax /\ k = total_blocks - 1
  <2>1. b_size = com_size
    BY <1>1, <1>8 DEF b_size
  <2>2. b_size = SizeOf(k)
    BY <1>8, <2>1 DEF SizeOf
  <2>3. ~Known(k + 1)
    BY <1>7, <1>8 DEF Known
  <2>. QED
    BY <1>0, <1>1, <1>4, <1>5, <2>1, <2>2, <2>3
<1>9. CASE ~(dax /\ k = total_blocks - 1) /\ Known(k)
  <2>1. Table(k + 1) = Begin[k + 1]
    <3>1. ASSUME dax PROVE k + 1 < Blocks
      BY <1>0, <1>7, <1>9, <3>1 DEF Known
    <3>. QED
      BY <1>0, <3>1 DEF Table
  <2>2. Minus(Begin[k + 1], Begin[k]) = file.sizes[k]
    <3>1. PICK x \in Nat, y \in 1 .. com_size :
            x = Begin[k] /\ y = file.sizes[k] /\ Begin[k + 1] = x + y
      BY <1>4
    <3>2. x + y - x \in 0 .. W - 1 /\ x + y - x = y /\ x + y \in Int
      BY <1>0, <1>6, <3>1
    <3>3. Minus(x + y, x) = y
      BY <3>2, ModWidth
    <3>. QED
      BY <3>1, <3>3
  <2>4. b_size = file.sizes[k]
    BY <1>1, <1>3, <1>5, <1>9, <2>1, <2>2 DEF b_size
  <2>5. b_size = SizeOf(k)
    BY <1>9, <2>4 DEF SizeOf
  <2>. QED
    BY <1>0, <1>1, <1>4, <1>5, <2>4, <2>5
<1>10. CASE ~Known(k)
  <2>1. ~(dax /\ k = total_blocks - 1)
    BY <1>7, <1>10 DEF Known
  <2>2. PICK x \in Int, y \in Int : x = Table(k + 1) /\ y = Begin[k]
    BY <1>0, <1>4, Places
  <2>3. b_size = Minus(x, y)
    BY <1>1, <1>3, <1>5, <2>1, <2>2 DEF b_size
  <2>4. b_size \in Nat
    BY <1>0, <2>3, ModWidth
  <2>. QED
    BY <1>1, <1>5, <1>10, <2>4
<1>. QED
  BY <1>8, <1>9, <1>10

(* What read_data leaves in the caller's buffer. *)
LEMMA ReadIntoHolds ==
  ASSUME NEW n \in Nat, NEW b \in [1 .. n -> Int], NEW c \in Nat, NEW m \in Nat,
         NEW from \in Nat, c + m = n + 1, file \in Image
  PROVE  /\ ReadInto(b, c, m, from) \in [1 .. n -> Int]
         /\ \A a \in Nat : HeldAt(ReadInto(b, c, m, from), c, a, n, from, Begin[Blocks])
<1>1. DOMAIN b = 1 .. n
  OBVIOUS
<1>2. ReadInto(b, c, m, from) =
        [k \in 1 .. n |-> IF k \in c .. c + m - 1 /\ InFile(from + k - c)
                            THEN -(from + k - c) ELSE b[k]]
  BY <1>1 DEF ReadInto
<1>3. ReadInto(b, c, m, from) \in [1 .. n -> Int]
  <2>1. \A k \in 1 .. n : -(from + k - c) \in Int /\ b[k] \in Int
    OBVIOUS
  <2>. HIDE DEF InFile
  <2>. QED
    BY <1>2, <2>1
<1>4. ASSUME NEW a \in Nat, NEW k \in 1 .. n, k >= a, k >= c,
             from + k - c \in 1 .. Begin[Blocks] - 1
      PROVE  ReadInto(b, c, m, from)[k] = -(from + k - c)
  <2>1. k \in c .. c + m - 1 /\ InFile(from + k - c)
    BY <1>4 DEF InFile
  <2>. HIDE DEF InFile
  <2>. QED
    BY <1>2, <1>4, <2>1
<1>. QED
  BY <1>3, <1>4 DEF HeldAt

LEMMA RequestIs ==
  ASSUME IInv, pc = "reading"
  PROVE  /\ addr \in Nat \ {0} /\ size \in Nat /\ offset \in Nat /\ want \in Nat
         /\ o_offset \in Nat /\ c_buf \in Nat /\ o_end \in Int /\ buf \in [1 .. want -> Int]
         /\ addr - 1 = offset - o_offset /\ addr - 1 + size = Length
         /\ addr + size <= want + 1
<1>1. /\ addr \in Nat \ {0} /\ size \in Nat /\ offset \in Nat /\ want \in Nat
      /\ o_offset \in Nat /\ c_buf \in Nat /\ o_end \in Int /\ buf \in [1 .. want -> Int]
      /\ addr - 1 = offset - o_offset /\ addr - 1 + size = Length
  BY DEF IInv, CallInv
<1>2. file.uncompressed_size \in Nat
  BY ImageIs DEF IInv
<1>3. Length <= want /\ Length \in Int
  BY <1>1, <1>2 DEF Length, Least
<1>. QED
  BY <1>1, <1>3

(* Whether or not another chunk is read, the data read ahead are those     *)
(* from the current block on, and a new chunk does not touch the output.   *)
LEMMA HeldNow ==
  ASSUME IInv, pc = "reading", size > 0
  PROVE  /\ c_now \in Nat /\ buf_now \in [1 .. want -> Int]
         /\ c_now # 0 /\ Known(cur_block) =>
              HeldAt(buf_now, c_now, addr, want, Begin[cur_block], Begin[Blocks])
         /\ \A k \in 1 .. addr - 1 : buf_now[k] = buf[k]
<1>1. /\ addr \in Nat \ {0} /\ size \in Nat /\ want \in Nat /\ c_buf \in Nat
      /\ o_end \in Int /\ buf \in [1 .. want -> Int] /\ addr + size <= want + 1
  BY RequestIs
<1>2. CASE ~Again
  <2>1. c_now = c_buf /\ buf_now = buf
    BY <1>2 DEF c_now, buf_now
  <2>2. c_buf # 0 /\ Known(cur_block) =>
          HeldAt(buf, c_buf, addr, want, Begin[cur_block], Begin[Blocks])
    BY DEF IInv, ReadAheadInv
  <2>. QED
    BY <1>1, <2>1, <2>2
<1>3. CASE Again
  <2>1. /\ file \in Image /\ block_size \in Nat \ {0} /\ com_size \in Nat
        /\ Begin[cur_block] \in Nat /\ b_size \in Nat /\ b_offset = Begin[cur_block]
    <3>1. file \in Image /\ block_size \in Nat \ {0} /\ com_size \in Nat
      BY CisoAssumption DEF IInv
    <3>2. cur_block \in 0 .. Blocks
      BY CurrentBlock, CisoAssumption
    <3>. QED
      BY <3>1, <3>2, Places, BlockIs
  <2>2. PICK s \in Nat : s = b_size
    BY <2>1
  <2>3. Minus(o_end, b_offset) \in Nat
    <3>1. PICK x \in Int, y \in Int : x = b_offset /\ y = o_end
      BY <1>1, <2>1
    <3>2. Minus(y, x) \in 0 .. W - 1
      BY ModWidth
    <3>. QED
      BY <3>1, <3>2, CisoAssumption
  <2>4. size > s + block_size /\ chunk >= s
    BY <1>3, <2>2 DEF Again
  <2>5. chunk \in Nat /\ chunk <= size
    <3>1. PICK l \in Nat : l = Minus(o_end, b_offset)
      BY <2>3
    <3>2. chunk = IF size < l THEN size - block_size ELSE l
      BY <3>1 DEF chunk
    <3>. QED
      BY <1>1, <2>1, <2>2, <2>4, <3>2
  <2>6. PICK m \in Nat, c \in Nat : m = chunk /\ c = want + 1 - m /\ c >= addr
    <3>1. PICK m \in Nat : m = chunk /\ m <= size
      BY <2>5
    <3>2. want + 1 - m \in Nat /\ want + 1 - m >= addr
      BY <1>1, <3>1
    <3>. QED
      BY <3>1, <3>2
  <2>7. c_now = c /\ buf_now = ReadInto(buf, c, m, Begin[cur_block])
    <3>1. c_now = want + 1 - chunk
      BY <1>1, <1>3, <2>5 DEF c_now, top_addr
    <3>2. c_now = c
      BY <2>6, <3>1
    <3>. HIDE DEF ReadInto
    <3>. QED
      BY <1>3, <2>1, <2>6, <3>2 DEF buf_now
  <2>8. c + m = want + 1
    BY <1>1, <2>6
  <2>9. /\ ReadInto(buf, c, m, Begin[cur_block]) \in [1 .. want -> Int]
        /\ HeldAt(ReadInto(buf, c, m, Begin[cur_block]), c, addr, want,
                  Begin[cur_block], Begin[Blocks])
    <3>1. PICK f \in Nat : f = Begin[cur_block]
      BY <2>1
    <3>. QED
      BY <1>1, <2>1, <2>8, <3>1, ReadIntoHolds
  <2>10. ASSUME NEW k \in 1 .. addr - 1 PROVE ReadInto(buf, c, m, Begin[cur_block])[k] = buf[k]
    <3>1. k \in 1 .. want /\ ~(k \in c .. c + m - 1)
      BY <1>1, <2>6
    <3>2. DOMAIN buf = 1 .. want
      BY <1>1
    <3>. HIDE DEF InFile
    <3>. QED
      BY <3>1, <3>2 DEF ReadInto
  <2>. QED
    BY <2>6, <2>7, <2>9, <2>10
<1>. QED
  BY <1>2, <1>3

(* The decompressor gets the whole block. *)
LEMMA WholeBlock ==
  ASSUME IInv, pc = "reading", size > 0, Known(cur_block)
  PROVE  Whole
<1>1. PICK k \in 0 .. Blocks - 1 : k = cur_block
  BY CurrentBlock
<1>2. file \in Image /\ Blocks \in Nat /\ com_size \in Nat
  BY CisoAssumption DEF IInv
<1>3. PICK B \in Nat \ {0}, z \in Nat, s \in Nat, h \in Nat, E \in Nat :
        /\ B = Begin[k] /\ z = file.sizes[k] /\ s = b_size /\ h = header
        /\ E = Begin[Blocks] /\ Begin[k + 1] = B + z /\ z <= s /\ B + z <= E /\ b_offset = B
  <2>1. /\ Begin[k] \in Nat \ {0} /\ file.sizes[k] \in 1 .. com_size
        /\ Begin[k + 1] = Begin[k] + file.sizes[k]
    BY <1>2, Places
  <2>2. k + 1 \in 0 .. Blocks /\ Blocks \in 0 .. Blocks
    BY <1>2
  <2>3. /\ Begin[Blocks] \in Nat /\ Begin[k + 1] \in Nat
        /\ Begin[k + 1] + (Blocks - (k + 1)) <= Begin[Blocks]
    BY <1>2, <2>2, Places
  <2>4. Begin[k + 1] <= Begin[Blocks]
    BY <1>2, <2>2, <2>3
  <2>5. b_size \in 1 .. com_size /\ file.sizes[k] <= b_size /\ b_offset = Begin[k]
    BY <1>1, BlockIs
  <2>6. header \in Nat
    BY <1>2, ImageIs DEF header
  <2>7. file.sizes[k] \in Nat /\ b_size \in Nat
    BY <1>2, <2>1, <2>5
  <2>. QED
    BY <2>1, <2>3, <2>4, <2>5, <2>6, <2>7
<1>4. ASSUME NEW a \in B + h .. B + z - 1
      PROVE  a - B - h \in DOMAIN block_buf /\ block_buf[a - B - h] = -a
  <2>1. PICK j \in 0 .. s - 1 : j = a - B - h /\ a = B + h + j
    <3>1. a - B - h \in 0 .. s - 1 /\ a = B + h + (a - B - h)
      BY <1>3, <1>4
    <3>. QED
      BY <3>1
  <2>2. InFile(a)
    <3>1. /\ B \in Nat \ {0} /\ h \in Nat /\ z \in Nat /\ E \in Nat /\ a \in Int
          /\ a >= B + h /\ a <= B + z - 1 /\ B + z <= E
      BY <1>3, <1>4
    <3>2. a \in 1 .. E - 1
      BY ONLY <3>1
    <3>. QED
      BY <1>3, <3>2 DEF InFile
  <2>3. DOMAIN block_buf = 0 .. s - 1
    BY <1>3 DEF block_buf
  <2>4. block_buf[j] =
          IF Ahead(c_now)
            THEN IF c_now + h + j \in DOMAIN buf THEN buf_now[c_now + h + j] ELSE Blank
            ELSE IF InFile(B + h + j) THEN -(B + h + j) ELSE Blank
    BY <1>3, <2>1 DEF block_buf
  <2>5. CASE ~Ahead(c_now)
    BY <2>1, <2>2, <2>3, <2>4, <2>5
  <2>6. CASE Ahead(c_now)
    <3>1. PICK c \in Nat : c = c_now
      BY HeldNow
    <3>2. /\ addr \in Nat \ {0} /\ want \in Nat /\ buf \in [1 .. want -> Int]
      BY RequestIs
    <3>3. c >= addr /\ c + s <= want + 1
      BY <1>3, <2>6, <3>1 DEF Ahead, top_addr
    <3>4. HeldAt(buf_now, c, addr, want, B, E)
      BY <1>1, <1>3, <3>1, <3>2, <3>3, HeldNow
    <3>5. /\ c + h + j \in 1 .. want /\ c + h + j >= addr /\ c + h + j >= c
          /\ B + (c + h + j) - c = a
      <4>1. /\ c \in Nat /\ h \in Nat /\ j \in Nat /\ B \in Nat /\ s \in Nat
            /\ want \in Nat /\ addr \in Nat \ {0} /\ a \in Int /\ z \in Nat
            /\ a <= B + z - 1 /\ z <= s /\ a = B + h + j /\ c >= addr /\ c + s <= want + 1
        BY <1>3, <1>4, <2>1, <3>2, <3>3
      <4>. QED
        BY ONLY <4>1
    <3>6. buf_now[c + h + j] = -a
      <4>1. PICK i \in 1 .. want : i = c + h + j
        BY <3>5
      <4>. QED
        BY <1>3, <2>2, <3>4, <3>5, <4>1 DEF HeldAt, InFile
    <3>7. DOMAIN buf = 1 .. want
      BY <3>2
    <3>. QED
      BY <2>1, <2>3, <2>4, <2>6, <3>1, <3>5, <3>6, <3>7
  <2>. QED
    BY <2>5, <2>6
<1>. QED
  BY <1>1, <1>3, <1>4 DEF Whole

-----------------------------------------------------------------------------
(* A turn of the loop. *)
LEMMA BytesIs ==
  ASSUME IInv, pc = "reading", size > 0
  PROVE  \E n \in Nat \ {0}, p \in 0 .. block_size - 1 :
           /\ n = Bytes /\ p = pos /\ offset = block_size * cur_block + p
           /\ n <= size /\ n <= block_size - p /\ (n < size => n = block_size - p)
<1>1. block_size \in Nat \ {0} /\ offset \in Nat /\ size \in Nat \ {0}
  BY RequestIs, CisoAssumption
<1>2. PICK q \in Nat, p \in 0 .. block_size - 1 :
        q = cur_block /\ p = pos /\ offset = block_size * q + p
  BY <1>1, DivMod DEF cur_block, pos
<1>3. PICK r \in Nat \ {0} : r = block_size - p
  BY <1>1
<1>4. Bytes = Least(size, r)
  <2>1. PICK s \in Int : s = size
    BY <1>1
  <2>2. Min({s, r}) = Least(s, r)
    BY MinOfTwo
  <2>3. Bytes = Min({size, block_size - pos})
    BY DEF Bytes
  <2>4. Bytes = Min({s, r})
    BY <1>2, <1>3, <2>1, <2>3
  <2>. QED
    BY <2>1, <2>2, <2>4
<1>5. PICK n \in Nat \ {0} : n = Bytes /\ n <= size /\ n <= r /\ (n < size => n = r)
  BY <1>1, <1>4 DEF Least
<1>6. n <= block_size - p /\ (n < size => n = block_size - p)
  BY <1>3, <1>5
<1>. QED
  BY <1>2, <1>5, <1>6

(* A read that does not come to the end of the file reads as many units as *)
(* it is asked for: beyond the header it runs into the next block.         *)
LEMMA ReadCount ==
  ASSUME IInv, pc = "reading", size > 0
  PROVE  /\ n_read \in Nat /\ (Known(cur_block) => n_read \in SrcLens(cur_block))
         /\ cur_block + 1 < Blocks /\ Known(cur_block + 1) => n_read = b_size
<1>1. file \in Image /\ Blocks \in Nat /\ com_size \in Nat /\ W \in Nat
  BY CisoAssumption DEF IInv
<1>2. PICK k \in 0 .. Blocks - 1 : k = cur_block
  BY CurrentBlock
<1>3. PICK s \in Nat, h \in Nat : s = b_size /\ h = header
  <2>1. b_size \in Nat /\ header \in Nat
    BY <1>1, BlockIs, ImageIs DEF header
  <2>. QED
    BY <1>1, <2>1
<1>4. CASE Ahead(c_now)
  <2>1. n_read = s
    BY <1>3, <1>4 DEF n_read
  <2>2. Known(k) => s = SizeOf(k)
    BY <1>2, <1>3, BlockIs
  <2>. QED
    BY <1>2, <1>3, <2>1, <2>2 DEF SrcLens
<1>5. CASE ~Ahead(c_now)
  <2>. DEFINE R == {j \in DOMAIN block_buf : block_buf[j] # Blank}
  <2>1. n_read = Cardinality(R)
    BY <1>5 DEF n_read
  <2>2. DOMAIN block_buf = 0 .. s - 1
    BY <1>3 DEF block_buf
  <2>3. PICK B \in Nat \ {0}, E \in Nat, e \in Nat \ {0} :
          /\ B = Begin[k] /\ E = Begin[Blocks] /\ E <= W /\ b_offset = B
          /\ e = E - B - h
    <3>1. /\ Begin[k] \in Nat \ {0} /\ Begin[k + 1] = Begin[k] + file.sizes[k]
          /\ file.sizes[k] \in 1 .. com_size
      BY <1>1, Places
    <3>2. k + 1 \in 0 .. Blocks /\ Blocks \in 0 .. Blocks
      BY <1>1
    <3>3. /\ Begin[Blocks] \in Nat /\ Begin[k + 1] \in Nat /\ Begin[Blocks] <= W
          /\ Begin[k + 1] + (Blocks - (k + 1)) <= Begin[Blocks]
      BY <1>1, <3>2, Places
    <3>4. file.sizes[k] > h
      BY <1>1, <1>3, ImageIs DEF header
    <3>5. PICK B \in Nat \ {0}, E \in Nat, y \in Nat, x \in Nat :
            /\ B = Begin[k] /\ E = Begin[Blocks] /\ y = file.sizes[k] /\ x = Begin[k + 1]
            /\ x = B + y /\ y > h /\ x + (Blocks - (k + 1)) <= E
      BY <1>1, <3>1, <3>3, <3>4
    <3>6. E - B - h \in Nat \ {0}
      BY <1>1, <3>5
    <3>. QED
      BY <1>2, <3>3, <3>5, <3>6, BlockIs
  <2>4. ASSUME NEW j \in 0 .. s - 1 PROVE block_buf[j] # Blank <=> j < e
    <3>1. B + h + j \in Nat \ {0} /\ (j < e <=> B + h + j <= E - 1)
          /\ (j < e => -(B + h + j) # -W)
      <4>1. /\ B \in Nat \ {0} /\ h \in Nat /\ j \in Nat /\ E \in Nat /\ e \in Nat /\ W \in Nat
            /\ e = E - B - h /\ E <= W
        BY <1>1, <1>3, <2>3
      <4>. QED
        BY ONLY <4>1
    <3>2. InFile(B + h + j) <=> j < e
      BY <2>3, <3>1 DEF InFile
    <3>3. block_buf[j] = IF InFile(B + h + j) THEN -(B + h + j) ELSE Blank
      BY <1>3, <1>5, <2>3 DEF block_buf
    <3>. QED
      BY <3>1, <3>2, <3>3 DEF Blank
  <2>5. PICK m \in Nat : m = Least(s, e)
    BY <2>3 DEF Least
  <2>6. R = 0 .. m - 1
    BY <2>2, <2>3, <2>4, <2>5 DEF Least
  <2>7. Cardinality(0 .. m - 1) = m
    <3>1. 0 \in Int /\ m - 1 \in Int /\ (IF 0 > m - 1 THEN 0 ELSE m - 1 - 0 + 1) = m
      OBVIOUS
    <3>. QED
      BY <3>1, FS_Interval
  <2>. HIDE DEF R
  <2>8. n_read = m
    BY <2>1, <2>6, <2>7
  <2>9. ASSUME Known(k) PROVE m \in SrcLens(k)
    <3>1. s = SizeOf(k)
      BY <1>2, <1>3, <2>9, BlockIs
    <3>2. m = Min({s, e})
      BY <2>5, MinOfTwo
    <3>. QED
      BY <1>3, <2>3, <3>1, <3>2 DEF SrcLens
  <2>10. ASSUME k + 1 < Blocks, Known(k + 1) PROVE m = s
    <3>1. Known(k)
      <4>1. total_blocks \in Int
        <5>1. file.uncompressed_size \in Nat /\ block_size \in Nat \ {0}
          BY <1>1, ImageIs, CisoAssumption
        <5>. QED
          BY <5>1, DivMod DEF total_blocks
      <4>. QED
        BY <2>10, <4>1 DEF Known
    <3>2. s = file.sizes[k]
      BY <1>2, <1>3, <2>10, <3>1, BlockIs
    <3>3. PICK i \in 0 .. Blocks - 1 :
            i = k + 1 /\ i + 1 \in 0 .. Blocks /\ Blocks \in 0 .. Blocks
      BY <1>1, <2>10
    <3>4. /\ Begin[i + 1] \in Nat /\ Begin[i + 1] + (Blocks - (i + 1)) <= Begin[Blocks]
      BY <1>1, <3>3, Places
    <3>5. /\ Begin[i + 1] = Begin[i] + file.sizes[i] /\ file.sizes[i] > h
          /\ file.sizes[i] \in Nat /\ Begin[i] = B + s
      BY <1>1, <1>3, <2>3, <3>2, <3>3, Places, ImageIs DEF header
    <3>6. PICK y \in Nat, x \in Nat : /\ y = file.sizes[i] /\ x = Begin[i + 1]
                                     /\ x = B + s + y /\ y > h /\ x + (Blocks - (i + 1)) <= E
      BY <2>3, <3>4, <3>5
    <3>7. s <= e
      BY <1>1, <2>3, <3>6
    <3>. QED
      BY <2>5, <3>7 DEF Least
  <2>. QED
    BY <1>2, <1>3, <2>8, <2>9, <2>10
<1>. QED
  BY <1>4, <1>5

(* Of a block that can be told, the decompressor makes the right units. *)
LEMMA Decompressed ==
  ASSUME IInv, pc = "reading", size > 0, NEW p \in 0 .. block_size - 1
  PROVE  dec_buf[p] \in Int /\ (Told(cur_block) => dec_buf[p] = block_size * cur_block + p)
<1>0. block_size \in Nat \ {0} /\ cur_block \in Nat /\ cur_block * block_size \in Nat
      /\ cur_block * block_size = block_size * cur_block /\ W \in Nat
  BY CurrentBlock, CisoAssumption
<1>1. dec_buf[p] = IF Right(p) THEN cur_block * block_size + p ELSE Blank
  BY DEF dec_buf
<1>2. dec_buf[p] \in Int
  BY <1>0, <1>1 DEF Blank
<1>3. ASSUME Told(cur_block) PROVE Right(p)
  <2>1. /\ Known(cur_block) /\ (cur_block \in file.stored => header = 0)
        /\ \A src_len \in SrcLens(cur_block) :
             Copies(cur_block, src_len) <=> cur_block \in file.stored
    BY <1>3 DEF Told
  <2>2. n_read \in SrcLens(cur_block)
    BY <2>1, ReadCount
  <2>3. Copies(cur_block, n_read) <=> cur_block \in file.stored
    BY <2>1, <2>2
  <2>4. Whole
    BY <2>1, WholeBlock
  <2>5. CASE cur_block \notin file.stored
    BY <2>3, <2>4, <2>5, Zenon DEF Right
  <2>6. CASE cur_block \in file.stored
    <3>1. PICK k \in 0 .. Blocks - 1 : k = cur_block
      BY CurrentBlock
    <3>2. file \in Image
      BY DEF IInv
    <3>3. PICK B \in Nat, z \in Nat : B = Begin[k] /\ Begin[k + 1] = B + z /\ z >= block_size
      <4>1. /\ Begin[k] \in Nat /\ file.sizes[k] \in 1 .. com_size
            /\ Begin[k + 1] = Begin[k] + file.sizes[k]
        BY <3>2, Places, CisoAssumption
      <4>2. file.sizes[k] >= block_size
        BY <2>6, <3>1, <3>2, ImageIs
      <4>. QED
        BY <4>1, <4>2, CisoAssumption
    <3>4. \A a \in B + 0 .. B + z - 1 : a - B - 0 \in DOMAIN block_buf /\ block_buf[a - B - 0] = -a
      BY <2>1, <2>4, <2>6, <3>1, <3>3 DEF Whole
    <3>5. PICK a \in B + 0 .. B + z - 1 : a = B + p /\ a - B - 0 = p
      <4>1. B + p \in B + 0 .. B + z - 1 /\ B + p - B - 0 = p
        BY <1>0, <3>3
      <4>. QED
        BY <4>1
    <3>6. Raw(p)
      BY <3>1, <3>3, <3>4, <3>5 DEF Raw
    <3>. QED
      BY <2>3, <2>6, <3>6, Zenon DEF Right
  <2>. QED
    BY <2>5, <2>6
<1>. QED
  BY <1>0, <1>1, <1>2, <1>3

LEMMA TurnWrites ==
  ASSUME IInv, Turn
  PROVE  /\ buf' \in [1 .. want -> Int]
         /\ \A k \in 1 .. addr + Bytes - 1 :
              Told((o_offset + k - 1) \div block_size) => buf'[k] = o_offset + k - 1
         /\ \A k \in 1 .. want : k >= addr + Bytes => buf'[k] = buf_now[k]
<1>0. pc = "reading" /\ size > 0
  BY DEF Turn
<1>1. PICK n \in Nat \ {0}, p \in 0 .. block_size - 1 :
        /\ n = Bytes /\ p = pos /\ offset = block_size * cur_block + p
        /\ n <= size /\ n <= block_size - p
  BY <1>0, BytesIs
<1>2. /\ addr \in Nat \ {0} /\ size \in Nat /\ offset \in Nat /\ want \in Nat
      /\ o_offset \in Nat /\ buf \in [1 .. want -> Int]
      /\ addr - 1 = offset - o_offset /\ addr + size <= want + 1
  BY <1>0, RequestIs
<1>3. /\ buf_now \in [1 .. want -> Int] /\ \A k \in 1 .. addr - 1 : buf_now[k] = buf[k]
  BY <1>0, HeldNow
<1>4. block_size \in Nat \ {0} /\ cur_block \in Nat /\ block_size * cur_block \in Nat
      /\ cur_block * block_size = block_size * cur_block
  BY <1>0, CurrentBlock, CisoAssumption
<1>5. ASSUME NEW i \in 0 .. block_size - 1
      PROVE  dec_buf[i] \in Int /\ (Told(cur_block) => dec_buf[i] = block_size * cur_block + i)
  BY <1>0, Decompressed
<1>6. buf' = [k \in 1 .. want |->
                IF k \in addr .. addr + n - 1 THEN dec_buf[p + k - addr] ELSE buf_now[k]]
  <2>1. DOMAIN buf = 1 .. want
    BY <1>2
  <2>. QED
    BY <1>1, <2>1 DEF Turn
<1>7. ASSUME NEW k \in addr .. addr + n - 1
      PROVE  /\ k \in 1 .. want /\ dec_buf[p + k - addr] \in Int
             /\ Told((o_offset + k - 1) \div block_size) =>
                  dec_buf[p + k - addr] = o_offset + k - 1
  <2>1. k \in 1 .. want /\ p + k - addr \in 0 .. block_size - 1
    BY <1>1, <1>2, <1>4
  <2>2. PICK i \in 0 .. block_size - 1, m \in Nat : i = p + k - addr /\ m = block_size * cur_block
    BY <1>4, <2>1
  <2>3. dec_buf[i] \in Int /\ (Told(cur_block) => dec_buf[i] = m + i)
    BY <1>5, <2>2
  <2>4. m + i = o_offset + k - 1
    <3>1. /\ m \in Nat /\ i = p + k - addr /\ p \in Int /\ k \in Int /\ offset = m + p
          /\ addr \in Nat /\ offset \in Nat /\ o_offset \in Nat /\ addr - 1 = offset - o_offset
      BY <1>1, <1>2, <2>2
    <3>. QED
      BY ONLY <3>1
  <2>5. (o_offset + k - 1) \div block_size = cur_block
    <3>1. PICK q \in Nat, o \in Nat : q = cur_block /\ o = o_offset + k - 1 /\ o = block_size * q + i
      <4>1. m + i \in Nat
        OBVIOUS
      <4>. QED
        BY <1>4, <2>2, <2>4, <4>1
    <3>2. o \div block_size = q
      BY <1>4, <3>1, DivIs
    <3>. QED
      BY <3>1, <3>2
  <2>. QED
    BY <2>1, <2>2, <2>3, <2>4, <2>5
<1>8. ASSUME NEW k \in 1 .. want PROVE buf'[k] \in Int
  <2>1. CASE k \in addr .. addr + n - 1
    BY <1>2, <1>6, <1>7, <2>1
  <2>2. CASE ~(k \in addr .. addr + n - 1)
    BY <1>3, <1>6, <2>2
  <2>. QED
    BY <2>1, <2>2
<1>9. ASSUME NEW k \in 1 .. addr + n - 1, Told((o_offset + k - 1) \div block_size)
      PROVE  buf'[k] = o_offset + k - 1
  <2>1. k \in 1 .. want
    BY <1>1, <1>2
  <2>2. CASE k \in addr .. addr + n - 1
    BY <1>6, <1>7, <1>9, <2>1, <2>2
  <2>3. CASE ~(k \in addr .. addr + n - 1)
    <3>1. k \in 1 .. addr - 1
      BY <1>2, <2>3
    <3>2. buf[k] = o_offset + k - 1
      BY <1>9, <3>1 DEF IInv, Front
    <3>3. buf'[k] = buf_now[k]
      BY <1>6, <2>1, <2>3
    <3>. QED
      BY <1>3, <3>1, <3>2, <3>3
  <2>. QED
    BY <2>2, <2>3
<1>10. ASSUME NEW k \in 1 .. want, k >= addr + n PROVE buf'[k] = buf_now[k]
  <2>1. ~(k \in addr .. addr + n - 1)
    BY <1>2, <1>10
  <2>. QED
    BY <1>6, <2>1
<1>. QED
  BY <1>1, <1>6, <1>8, <1>9, <1>10

(* What is known of the blocks of an image does not change. *)
LEMMA ToldStays ==
  ASSUME file' = file
  PROVE  \A k : (Known(k)' <=> Known(k)) /\ (Told(k)' <=> Told(k))
<1>1. Begin' = Begin /\ total_blocks' = total_blocks /\ header' = header /\ (dax' <=> dax)
  BY DEF Begin, total_blocks, header, dax
<1>2. ASSUME NEW k PROVE Known(k)' <=> Known(k)
  BY <1>1 DEF Known
<1>3. ASSUME NEW k PROVE SrcLens(k)' = SrcLens(k)
  BY <1>1 DEF SrcLens, SizeOf
<1>4. ASSUME NEW k, NEW src_len PROVE Copies(k, src_len)' <=> Copies(k, src_len)
  BY DEF Copies
<1>5. ASSUME NEW k PROVE Told(k)' <=> Told(k)
  BY <1>1, <1>2, <1>3, <1>4 DEF Told
<1>. QED
  BY <1>2, <1>5

LEMMA TurnStep == ASSUME IInv, Turn PROVE IInv'
<1>0. pc = "reading" /\ size > 0 /\ file \in Image
  BY DEF Turn, IInv
<1>1. PICK n \in Nat \ {0}, p \in 0 .. block_size - 1 :
        /\ n = Bytes /\ p = pos /\ offset = block_size * cur_block + p
        /\ n <= size /\ n <= block_size - p /\ (n < size => n = block_size - p)
  BY <1>0, BytesIs
<1>2. /\ addr \in Nat \ {0} /\ size \in Nat /\ offset \in Nat /\ want \in Nat
      /\ o_offset \in Nat /\ c_buf \in Nat /\ o_end \in Int
      /\ addr - 1 = offset - o_offset /\ addr - 1 + size = Length
      /\ o_offset <= file.uncompressed_size
  <2>1. o_offset <= file.uncompressed_size
    BY <1>0 DEF IInv, CallInv
  <2>. QED
    BY <1>0, <2>1, RequestIs
<1>3. /\ pc' = pc /\ file' = file /\ o_end' = o_end /\ want' = want /\ o_offset' = o_offset
      /\ idx_start_block' = start_now /\ idx_cache' = cache_now
      /\ size' = size - n /\ addr' = addr + n /\ offset' = offset + n
      /\ c_buf' = IF c_now # 0 THEN c_now + n_read ELSE c_now
  BY <1>1 DEF Turn
<1>4. Begin' = Begin /\ Length' = Length
  BY <1>3 DEF Begin, Length
<1>5. \A k \in Nat : Index(k)' = Index(k)
  BY <1>3, <1>4 DEF Index, Table, dax
<1>6. IndexInv'
  <2>1. start_now \in Nat /\ cache_now = Index(start_now)
    BY <1>0, CurrentBlock, InWindow
  <2>2. PICK k \in Nat : k = start_now
    BY <2>1
  <2>3. idx_start_block' = k /\ idx_cache' = Index(k)'
    BY <1>3, <1>5, <2>1, <2>2
  <2>. HIDE DEF Index
  <2>. QED
    BY <1>0, <1>3, <2>3 DEF IndexInv
<1>7. size' \in Nat /\ addr' \in Nat \ {0} /\ offset' \in Nat /\ addr' - 1 = offset' - o_offset
      /\ addr' - 1 + size' = Length
  <2>1. Length \in Int
    BY <1>2
  <2>. QED
    BY <1>1, <1>2, <1>3, <2>1
<1>8. CallInv'
  <2>1. c_buf' \in Nat
    BY <1>0, <1>3, HeldNow, ReadCount
  <2>2. buf' \in [1 .. want -> Int]
    BY TurnWrites
  <2>. QED
    BY <1>0, <1>2, <1>3, <1>4, <1>7, <2>1, <2>2 DEF CallInv
<1>9. Front'
  <2>1. \A k \in 1 .. addr + n - 1 :
          Told((o_offset + k - 1) \div block_size) => buf'[k] = o_offset + k - 1
    BY <1>1, TurnWrites
  <2>2. ASSUME NEW k \in 1 .. addr' - 1, Told((o_offset + k - 1) \div block_size)'
        PROVE  buf'[k] = o_offset' + k - 1
    <3>1. k \in 1 .. addr + n - 1
      BY <1>2, <1>3
    <3>2. Told((o_offset + k - 1) \div block_size)
      BY <1>3, <2>2, ToldStays
    <3>. QED
      BY <1>3, <2>1, <3>1, <3>2
  <2>. QED
    BY <2>2 DEF Front
<1>10. ASSUME size' > 0
       PROVE  cur_block' = cur_block + 1 /\ cur_block + 1 < Blocks
  <2>1. PICK b \in Nat \ {0}, q \in Nat, o \in Nat :
          /\ b = block_size /\ q = cur_block /\ o = offset' /\ Blocks \in Nat
    <3>1. block_size \in Nat \ {0} /\ Blocks \in Nat
      BY CisoAssumption
    <3>2. cur_block \in Nat
      BY <1>0, <3>1, CurrentBlock
    <3>. QED
      BY <1>7, <3>1, <3>2
  <2>2. n = b - p /\ b * (q + 1) = b * q + b /\ b * q \in Nat
    BY <1>1, <1>2, <1>3, <1>10, <2>1
  <2>3. o = b * (q + 1) + 0
    <3>1. PICK m \in Nat : m = b * q
      BY <2>2
    <3>2. offset = m + p /\ o = offset + n /\ b * (q + 1) = m + b
      BY <1>1, <1>3, <2>1, <2>2, <3>1
    <3>3. o = m + b
      BY <1>2, <2>2, <3>2
    <3>. QED
      BY <2>1, <3>2, <3>3
  <2>4. o \div b = q + 1
    <3>1. 0 \in 0 .. b - 1 /\ q + 1 \in Nat
      OBVIOUS
    <3>. QED
      BY <2>3, <3>1, DivIs
  <2>5. cur_block' = q + 1
    BY <2>1, <2>4 DEF cur_block
  <2>6. o < Blocks * b
    <3>1. Length <= file.uncompressed_size - o_offset /\ file.uncompressed_size \in Nat
      BY <1>0, <1>2, ImageIs DEF Length, Least
    <3>2. PICK u \in Nat, m \in Nat, l \in Int :
            /\ u = file.uncompressed_size /\ m = Blocks * b /\ l = Length /\ u <= m
      BY <1>0, <1>2, <2>1, <3>1, ImageIs
    <3>3. l <= u - o_offset /\ addr' - 1 + size' = l /\ addr' - 1 = o - o_offset
      BY <1>7, <2>1, <3>1, <3>2
    <3>4. o < m
      <4>1. PICK x \in Nat, z \in Nat : x = addr' /\ z = size'
        BY <1>7
      <4>2. /\ z > 0 /\ l <= u - o_offset /\ x - 1 + z = l /\ x - 1 = o - o_offset
            /\ o_offset \in Nat /\ u <= m
        BY <1>2, <1>10, <3>2, <3>3, <4>1
      <4>. QED
        BY <4>2
    <3>. QED
      BY <3>2, <3>4
  <2>7. q + 1 \in 0 .. Blocks - 1
    BY <2>1, <2>4, <2>6, DivBounded
  <2>. QED
    BY <2>1, <2>5, <2>7
<1>11. Window'
  <2>. SUFFICES ASSUME size' > 0 PROVE idx_start_block' \in 0 .. cur_block'
    BY DEF Window
  <2>1. start_now \in 0 .. cur_block /\ cur_block \in Nat
    BY <1>0, InWindow, CurrentBlock
  <2>. QED
    BY <1>3, <1>10, <2>1
<1>12. ReadAheadInv'
  <2>. SUFFICES ASSUME size' > 0, c_buf' # 0, Known(cur_block)'
                PROVE  HeldAt(buf', c_buf', addr', want', Begin'[cur_block'], Begin'[Blocks])
    BY DEF ReadAheadInv
  <2>1. PICK k \in 0 .. Blocks - 1 : k = cur_block /\ cur_block' = k + 1 /\ k + 1 < Blocks
    BY <1>0, <1>10, CurrentBlock
  <2>0. Known(k + 1) /\ Known(k)
    <3>1. Known(k + 1)
      BY <1>3, <2>1 DEF Known, dax, total_blocks
    <3>2. total_blocks \in Int
      <4>1. file.uncompressed_size \in Nat /\ block_size \in Nat \ {0}
        BY <1>0, ImageIs, CisoAssumption
      <4>. QED
        BY <4>1, DivMod DEF total_blocks
    <3>. QED
      BY <3>1, <3>2 DEF Known
  <2>2. PICK c \in Nat, s \in Nat, B \in Nat :
          /\ c = c_now /\ s = b_size /\ B = Begin[k] /\ Begin[k + 1] = B + s
    <3>1. b_size = file.sizes[k] /\ c_now \in Nat
      BY <1>0, <2>0, <2>1, BlockIs, HeldNow
    <3>2. k \in 0 .. Blocks
      BY CisoAssumption
    <3>3. /\ Begin[k] \in Nat /\ file.sizes[k] \in 1 .. com_size
          /\ Begin[k + 1] = Begin[k] + file.sizes[k]
      BY <1>0, <3>2, Places
    <3>4. file.sizes[k] \in Nat
      BY <3>3, CisoAssumption
    <3>. QED
      BY <3>1, <3>3, <3>4
  <2>3. c # 0 /\ c_buf' = c + s
    BY <1>0, <1>3, <2>0, <2>1, <2>2, ReadCount
  <2>4. HeldAt(buf_now, c, addr, want, B, Begin[Blocks])
    BY <1>0, <2>0, <2>1, <2>2, <2>3, HeldNow
  <2>5. \A i \in 1 .. want : i >= addr + n => buf'[i] = buf_now[i]
    BY <1>1, TurnWrites
  <2>6. HeldAt(buf', c + s, addr + n, want, B + s, Begin[Blocks])
    <3>1. ASSUME NEW i \in 1 .. want, i >= addr + n, i >= c + s,
                 (B + s) + i - (c + s) \in 1 .. Begin[Blocks] - 1
          PROVE  buf'[i] = -((B + s) + i - (c + s))
      <4>1. (B + s) + i - (c + s) = B + i - c /\ i >= addr /\ i >= c
        BY <1>2, <3>1
      <4>2. buf_now[i] = -(B + i - c)
        BY <2>4, <3>1, <4>1 DEF HeldAt
      <4>. QED
        BY <2>5, <3>1, <4>1, <4>2
    <3>. QED
      BY <3>1 DEF HeldAt
  <2>7. Begin'[cur_block'] = B + s /\ Begin'[Blocks] = Begin[Blocks]
    BY <1>4, <2>1, <2>2
  <2>. QED
    BY <1>3, <2>3, <2>6, <2>7
<1>. QED
  BY <1>0, <1>3, <1>6, <1>8, <1>9, <1>11, <1>12 DEF IInv

-----------------------------------------------------------------------------
(* The beginning of a read. *)
LEMMA ReadAheadHolds ==
  ASSUME file \in Image, file' = file, NEW w \in Nat, want' = w,
         NEW n \in Nat, n <= w, NEW first \in Nat, NEW last \in Nat, first <= last,
         NEW start \in 0 .. first, first - start <= idx_cache_num - 1,
         n > 0 => first < Blocks,
         NEW cache, cache = Index(start), ReadAhead(n, first, last, start, cache)
  PROVE  /\ buf' \in [1 .. w -> Int] /\ c_buf' \in Nat /\ o_end' \in Int
         /\ c_buf' # 0 => HeldAt(buf', c_buf', 1, w, Begin[first], Begin[Blocks])
<1>1. /\ idx_cache_num \in Nat /\ block_size \in Nat \ {0} /\ W \in Nat /\ Blocks \in Nat
  BY CisoAssumption
<1>2. ASSUME NEW k \in Nat, k >= start, k - start <= idx_cache_num - 1
      PROVE  cache[k - start] = Table(k)
  <2>1. k - start \in 0 .. idx_cache_num - 1 /\ start + (k - start) = k
    BY <1>1, <1>2
  <2>2. Index(start)[k - start] = Table(start + (k - start))
    BY <2>1 DEF Index
  <2>. QED
    BY <2>1, <2>2
<1>. DEFINE end == IF last - start < idx_cache_num - 1 THEN cache[last - start] ELSE Table(last)
            o_start == cache[first - start]
            all == Minus(end, o_start)
            cs == IF n < all THEN n - block_size ELSE all
            many == n > 2 * block_size
            empty == [k \in 1 .. w |-> Blank]
<1>3. /\ o_end' = end
      /\ c_buf' = IF many THEN top_addr' - cs ELSE 0
      /\ buf' = IF many THEN ReadInto(empty, c_buf', cs, o_start) ELSE empty
  <2>1. o_end' = end
    BY DEF ReadAhead
  <2>2. c_buf' = IF many THEN top_addr' - cs ELSE 0
    BY Zenon DEF ReadAhead
  <2>3. buf' = IF many THEN ReadInto(empty, c_buf', cs, o_start) ELSE empty
    <3>1. empty = [k \in 1 .. want' |-> Blank]
      OBVIOUS
    <3>. QED
      BY <3>1, Zenon DEF ReadAhead
  <2>. QED
    BY <2>1, <2>2, <2>3
<1>4. end = Table(last) /\ o_start = Table(first)
  <2>1. last - start < idx_cache_num - 1 => cache[last - start] = Table(last)
    BY <1>1, <1>2
  <2>2. o_start = Table(first)
    BY <1>2
  <2>. QED
    BY <2>1, <2>2
<1>5. end \in Int /\ o_start \in Int
  BY <1>4, Places
<1>6. all \in Nat
  <2>. HIDE DEF end, o_start
  <2>1. PICK x \in Int, y \in Int : x = end /\ y = o_start
    BY <1>5
  <2>2. Minus(x, y) \in 0 .. W - 1
    BY ModWidth
  <2>3. all = Minus(x, y)
    BY <2>1
  <2>. HIDE DEF all
  <2>. QED
    BY <1>1, <2>2, <2>3
<1>. HIDE DEF end, o_start, all
<1>7. empty \in [1 .. w -> Int]
  BY <1>1 DEF Blank
<1>8. CASE ~many
  BY <1>3, <1>5, <1>7, <1>8
<1>9. CASE many
  <2>1. PICK m \in Nat, c \in Nat \ {0} : m = cs /\ c = w + 1 - cs /\ c + m = w + 1
    <3>1. cs \in Nat /\ cs <= n
      BY <1>1, <1>6, <1>9
    <3>2. PICK m \in Nat : m = cs /\ m <= n
      BY <3>1
    <3>3. w + 1 - m \in Nat \ {0} /\ w + 1 - m + m = w + 1
      BY <3>2
    <3>. QED
      BY <3>2, <3>3
  <2>2. first \in 0 .. Blocks /\ first < Blocks
    BY <1>1, <1>9
  <2>3. PICK f \in Nat : f = Begin[first] /\ f = o_start
    <3>1. Begin[first] \in Nat
      BY <2>2, Places
    <3>. QED
      BY <1>4, <2>2, <3>1 DEF Table
  <2>. HIDE DEF cs, empty, many
  <2>4. c_buf' = c /\ buf' = ReadInto(empty, c, m, f)
    <3>1. c_buf' = w + 1 - m
      BY <1>3, <1>9, <2>1 DEF top_addr
    <3>2. c_buf' = c
      BY <2>1, <3>1
    <3>. HIDE DEF ReadInto
    <3>. QED
      BY <1>3, <1>9, <2>1, <2>3, <3>2
  <2>5. /\ ReadInto(empty, c, m, f) \in [1 .. w -> Int]
        /\ HeldAt(ReadInto(empty, c, m, f), c, 1, w, f, Begin[Blocks])
    BY <1>7, <2>1, ReadIntoHolds
  <2>. QED
    BY <1>3, <1>5, <2>1, <2>3, <2>4, <2>5
<1>. QED
  BY <1>8, <1>9

LEMMA ReadCallStep ==
  ASSUME IInv, NEW o \in 0 .. Blocks * block_size, NEW w \in Wants, ReadCall(o, w)
  PROVE  IInv'
<1>. DEFINE u == file.uncompressed_size
            n == IF o + w > u THEN u - o ELSE w
            first == o \div block_size
            last == (o + n) \div block_size
            refresh == \/ idx_start_block < 0 \/ first < idx_start_block
                       \/ first - idx_start_block + 1 >= idx_cache_num - 1
<1>1. /\ pc = "open" /\ pc' = "reading" /\ o <= u
      /\ idx_start_block' = IF refresh THEN first ELSE idx_start_block
      /\ idx_cache' = IF refresh THEN Index(first) ELSE idx_cache
      /\ addr' = 1 /\ size' = n /\ offset' = o /\ o_offset' = o /\ want' = w
      /\ ReadAhead(n, first, last, idx_start_block', idx_cache')
      /\ file' = file
  BY DEF ReadCall
<1>2. /\ file \in Image /\ block_size \in Nat \ {0} /\ Blocks \in Nat /\ Blocks * block_size \in Nat
      /\ w \in Nat /\ o \in Nat /\ idx_cache_num \in Nat /\ idx_cache_num > 2
      /\ u \in Nat /\ u <= Blocks * block_size
  BY CisoAssumption, ImageIs DEF IInv
<1>3. n \in Nat /\ n <= w /\ o + n <= u /\ n = Least(w, u - o)
  BY <1>1, <1>2 DEF Least
<1>4. first \in Nat /\ last \in Nat /\ first <= last
  <2>1. o + n \in Nat /\ o <= o + n
    BY <1>2, <1>3
  <2>2. first \in Nat
    BY <1>2, DivMod
  <2>. HIDE DEF n
  <2>3. PICK p \in Nat : p = o + n /\ o <= p
    BY <2>1
  <2>4. p \div block_size \in Nat /\ o \div block_size <= p \div block_size
    BY <1>2, <2>3, DivMod, DivMonotone
  <2>. QED
    BY <2>2, <2>3, <2>4
<1>5. n > 0 => first < Blocks
  <2>. SUFFICES ASSUME n > 0 PROVE first < Blocks
    OBVIOUS
  <2>1. o < Blocks * block_size
    BY <1>2, <1>3
  <2>. QED
    BY <1>2, <2>1, DivBounded
<1>. HIDE DEF n, first, last
<1>6. PICK s \in 0 .. first : /\ s = idx_start_block' /\ first - s <= idx_cache_num - 1
                             /\ idx_cache' = Index(s)
  <2>1. CASE refresh
    <3>. HIDE DEF refresh
    <3>. QED
      BY <1>1, <1>2, <1>4, <2>1
  <2>2. CASE ~refresh
    <3>1. idx_start_block \in Int /\ idx_start_block >= 0 /\ idx_cache = Index(idx_start_block)
      BY <2>2 DEF IInv, IndexInv
    <3>2. idx_start_block \in 0 .. first /\ first - idx_start_block <= idx_cache_num - 1
      BY <1>2, <1>4, <2>2, <3>1
    <3>. HIDE DEF refresh
    <3>. QED
      BY <1>1, <2>2, <3>1, <3>2
  <2>. QED
    BY <2>1, <2>2
<1>. HIDE DEF refresh
<1>7. /\ buf' \in [1 .. w -> Int] /\ c_buf' \in Nat /\ o_end' \in Int
      /\ c_buf' # 0 => HeldAt(buf', c_buf', 1, w, Begin[first], Begin[Blocks])
  <2>1. ReadAhead(n, first, last, s, idx_cache')
    BY <1>1, <1>6
  <2>. QED
    BY <1>1, <1>2, <1>3, <1>4, <1>5, <1>6, <2>1, ReadAheadHolds
<1>8. Begin' = Begin /\ cur_block' = first
  BY <1>1 DEF Begin, cur_block, first
<1>9. Index(s)' = Index(s)
  BY <1>1, <1>8 DEF Index, Table, dax
<1>10. IndexInv'
  <2>. HIDE DEF Index
  <2>. QED
    BY <1>1, <1>6, <1>9 DEF IndexInv
<1>11. CallInv'
  <2>1. Length' = n
    BY <1>1, <1>3 DEF Length
  <2>. QED
    BY <1>1, <1>2, <1>3, <1>7, <2>1 DEF CallInv
<1>12. Window'
  BY <1>6, <1>8 DEF Window
<1>13. ReadAheadInv'
  BY <1>1, <1>7, <1>8 DEF ReadAheadInv
<1>14. Front'
  BY <1>1 DEF Front
<1>. QED
  BY <1>1, <1>2, <1>10, <1>11, <1>12, <1>13, <1>14 DEF IInv

-----------------------------------------------------------------------------
LEMMA InitInv == Init => IInv
<1>. SUFFICES ASSUME Init PROVE IInv
  OBVIOUS
<1>. QED
  BY DEF Init, IInv, IndexInv, CallInv, Window, ReadAheadInv, Front

(* The steps outside a read. *)
LEMMA QuietStep ==
  ASSUME IInv, Open \/ Close \/ ReadBeyond \/ ReadReturn \/ Use PROVE IInv'
<1>0. Open \/ Close \/ ReadBeyond \/ ReadReturn \/ Use
  OBVIOUS
<1>1. file \in Image /\ file.uncompressed_size \in Nat
  BY ImageIs DEF IInv
<1>2. CASE Open
  <2>1. /\ pc = "closed" /\ pc' = "open" /\ file' \in Image /\ idx_start_block' = idx_start_block
        /\ addr' = addr /\ size' = size /\ offset' = offset /\ want' = want
        /\ o_offset' = o_offset /\ buf' = buf
    BY <1>2 DEF Open, index, call
  <2>2. idx_start_block \in Int /\ idx_start_block < 0
    BY <2>1 DEF IInv, IndexInv
  <2>3. IndexInv'
    BY <2>1, <2>2 DEF IndexInv
  <2>4. CallInv'
    BY <2>1 DEF IInv, CallInv
  <2>5. Window' /\ ReadAheadInv'
    BY <2>1 DEF Window, ReadAheadInv
  <2>6. Front'
    <3>1. addr' = 1
      BY <2>1 DEF IInv, CallInv
    <3>. QED
      BY <3>1 DEF Front
  <2>. QED
    BY <2>1, <2>3, <2>4, <2>5, <2>6 DEF IInv
<1>3. ASSUME file' = file PROVE \A k \in Int : Index(k)' = Index(k)
  BY <1>3 DEF Index, Table, Begin, dax
<1>4. CASE Close
  <2>1. /\ pc = "open" /\ pc' = "closed" /\ file' = file /\ idx_start_block' = -1
        /\ addr' = addr /\ size' = size /\ offset' = offset /\ want' = want
        /\ o_offset' = o_offset /\ buf' = buf
    BY <1>4 DEF Close, call
  <2>2. IndexInv'
    BY <2>1 DEF IndexInv
  <2>3. CallInv'
    BY <2>1 DEF IInv, CallInv
  <2>4. Window' /\ ReadAheadInv'
    BY <2>1 DEF Window, ReadAheadInv
  <2>5. Front'
    <3>1. addr' = 1
      BY <2>1 DEF IInv, CallInv
    <3>. QED
      BY <3>1 DEF Front
  <2>. QED
    BY <1>1, <2>1, <2>2, <2>3, <2>4, <2>5 DEF IInv
<1>5. CASE ReadBeyond \/ ReadReturn \/ Use
  <2>1. /\ file' = file /\ idx_start_block' = idx_start_block /\ idx_cache' = idx_cache
        /\ pc' \in {"returned", "open"}
    BY <1>5 DEF ReadBeyond, ReadReturn, Use, index
  <2>2. IndexInv'
    <3>1. idx_start_block \in Int /\ (idx_start_block >= 0 => idx_cache = Index(idx_start_block))
      BY DEF IInv, IndexInv
    <3>2. PICK k \in Int : k = idx_start_block
      BY <3>1
    <3>3. Index(k)' = Index(k)
      BY <1>3, <2>1
    <3>. HIDE DEF Index
    <3>. QED
      BY <2>1, <3>1, <3>2, <3>3 DEF IndexInv
  <2>3. Window' /\ ReadAheadInv'
    BY <2>1 DEF Window, ReadAheadInv
  <2>4. CallInv' /\ Front'
    <3>1. CASE ReadBeyond
      <4>1. /\ pc = "open" /\ pc' = "returned" /\ o_offset' = file.uncompressed_size + 1
            /\ offset' = o_offset' /\ addr' = addr /\ size' = size /\ want' = want /\ buf' = buf
        BY <3>1 DEF ReadBeyond
      <4>2. addr = 1 /\ size \in Nat /\ want \in Nat
        BY <4>1 DEF IInv, CallInv
      <4>3. CallInv'
        BY <1>1, <2>1, <4>1, <4>2 DEF CallInv
      <4>. QED
        BY <4>1, <4>2, <4>3 DEF Front
    <3>2. CASE ReadReturn
      <4>1. /\ pc = "reading" /\ size = 0 /\ pc' = "returned" /\ addr' = addr /\ size' = size
            /\ offset' = offset /\ want' = want /\ o_offset' = o_offset /\ buf' = buf
        BY <3>2 DEF ReadReturn, call
      <4>2. /\ addr \in Nat \ {0} /\ offset \in Nat /\ want \in Nat /\ o_offset \in Nat
            /\ addr - 1 = offset - o_offset /\ addr - 1 + size = Length
            /\ o_offset <= file.uncompressed_size
        BY <4>1 DEF IInv, CallInv
      <4>3. Length' = Length
        BY <2>1, <4>1 DEF Length
      <4>4. offset - o_offset = Length
        BY <4>1, <4>2
      <4>5. CallInv'
        <5>1. /\ addr' \in Nat \ {0} /\ size' \in Nat /\ offset' \in Nat /\ want' \in Nat
              /\ o_offset' \in Nat /\ addr' - 1 = offset' - o_offset' /\ pc' = "returned"
          BY <4>1, <4>2
        <5>2. ~(o_offset > file.uncompressed_size)
          BY <1>1, <4>2
        <5>3. offset' - o_offset' =
                IF o_offset' > file'.uncompressed_size THEN 0 ELSE Length'
          BY <2>1, <4>1, <4>3, <4>4, <5>2
        <5>. QED
          BY <5>1, <5>3 DEF CallInv
      <4>6. Front'
        <5>1. ASSUME NEW k \in 1 .. addr - 1, Told((o_offset + k - 1) \div block_size)'
              PROVE  buf[k] = o_offset + k - 1
          <6>1. Told((o_offset + k - 1) \div block_size)
            BY <2>1, <4>1, <5>1, ToldStays
          <6>. QED
            BY <6>1 DEF IInv, Front
        <5>. QED
          BY <4>1, <5>1 DEF Front
      <4>. QED
        BY <4>5, <4>6
    <3>3. CASE Use
      BY <3>3 DEF Use, CallInv, Front
    <3>. QED
      BY <1>5, <3>1, <3>2, <3>3
  <2>. QED
    BY <1>1, <2>1, <2>2, <2>3, <2>4 DEF IInv
<1>. QED
  BY <1>0, <1>2, <1>4, <1>5

(* Only a copy of a block whose size the code cannot know may run over. *)
LEMMA Fits ==
  ASSUME IInv, pc = "reading", size > 0, Known(cur_block) PROVE ~TooLong
<1>1. b_size = SizeOf(cur_block) /\ b_size \in 1 .. com_size /\ cur_block \in 0 .. Blocks - 1
  BY BlockIs, CurrentBlock
<1>2. file \in Image /\ com_size \in Nat /\ block_size \in Nat
  BY CisoAssumption DEF IInv
<1>3. CASE file.format = "jiso"
  <2>1. ~dax
    BY <1>3 DEF dax, DaxFormats
  <2>2. b_size <= block_size
    BY <1>1, <1>2, <1>3, <2>1, ImageIs DEF SizeOf
  <2>. QED
    BY <1>1, <1>2, <1>3, <2>2 DEF TooLong, Com
<1>4. CASE file.format # "jiso"
  BY <1>1, <1>2, <1>4 DEF TooLong, Com
<1>. QED
  BY <1>3, <1>4

LEMMA OverrunStep == ASSUME IInv, Overrun PROVE IInv'
<1>1. /\ pc = "reading" /\ size > 0 /\ TooLong /\ pc' = "corrupt" /\ file' = file
      /\ idx_start_block' = idx_start_block /\ idx_cache' = idx_cache /\ addr' = addr
      /\ size' = size /\ offset' = offset /\ want' = want /\ o_offset' = o_offset /\ buf' = buf
  BY DEF Overrun, index, call
<1>2. ~Known(cur_block)
  BY <1>1, Fits
<1>3. ~Known(cur_block)'
  <2>1. cur_block' = cur_block
    BY <1>1 DEF cur_block
  <2>. QED
    BY <1>1, <1>2, <2>1 DEF Known, dax, total_blocks
<1>4. IndexInv'
  <2>1. idx_start_block \in Int /\ (idx_start_block >= 0 => idx_cache = Index(idx_start_block))
    BY DEF IInv, IndexInv
  <2>2. Index(idx_start_block)' = Index(idx_start_block)
    BY <1>1 DEF Index, Table, Begin, dax
  <2>. HIDE DEF Index
  <2>. QED
    BY <1>1, <2>1, <2>2 DEF IndexInv
<1>5. CallInv'
  BY <1>1 DEF IInv, CallInv
<1>6. Window' /\ ReadAheadInv'
  BY <1>1 DEF Window, ReadAheadInv
<1>7. Front'
  <2>1. ASSUME NEW k \in 1 .. addr - 1, Told((o_offset + k - 1) \div block_size)'
        PROVE  buf[k] = o_offset + k - 1
    <3>1. Told((o_offset + k - 1) \div block_size)
      BY <1>1, <2>1, ToldStays
    <3>. QED
      BY <3>1 DEF IInv, Front
  <2>. QED
    BY <1>1, <2>1 DEF Front
<1>. QED
  BY <1>1, <1>3, <1>4, <1>5, <1>6, <1>7 DEF IInv

LEMMA InvNext == IInv /\ [Next]_vars => IInv'
<1>. SUFFICES ASSUME IInv, [Next]_vars PROVE IInv'
  OBVIOUS
<1>1. CASE UNCHANGED vars
  <2>1. /\ pc' = pc /\ file' = file /\ idx_start_block' = idx_start_block
        /\ idx_cache' = idx_cache /\ addr' = addr /\ size' = size /\ offset' = offset
        /\ c_buf' = c_buf /\ o_end' = o_end /\ want' = want /\ o_offset' = o_offset /\ buf' = buf
    BY <1>1 DEF vars, index, call
  <2>2. cur_block' = cur_block /\ Begin' = Begin /\ Length' = Length
    BY <2>1 DEF cur_block, Begin, Length
  <2>3. IndexInv'
    <3>1. Index(idx_start_block)' = Index(idx_start_block)
      BY <2>1, <2>2 DEF Index, Table, dax
    <3>. HIDE DEF Index
    <3>. QED
      BY <2>1, <3>1 DEF IInv, IndexInv
  <2>4. CallInv'
    BY <2>1, <2>2 DEF IInv, CallInv
  <2>5. Window'
    BY <2>1, <2>2 DEF IInv, Window
  <2>6. Known(cur_block)' <=> Known(cur_block)
    BY <2>1, <2>2 DEF Known, dax, total_blocks
  <2>7. ReadAheadInv'
    BY <2>1, <2>2, <2>6 DEF IInv, ReadAheadInv, HeldAt
  <2>8. Front'
    <3>1. ASSUME NEW k \in 1 .. addr - 1, Told((o_offset + k - 1) \div block_size)'
          PROVE  buf[k] = o_offset + k - 1
      <4>1. Told((o_offset + k - 1) \div block_size)
        BY <2>1, <3>1, ToldStays
      <4>. QED
        BY <4>1 DEF IInv, Front
    <3>. QED
      BY <2>1, <3>1 DEF Front
  <2>. QED
    BY <2>1, <2>3, <2>4, <2>5, <2>6, <2>7, <2>8 DEF IInv
<1>2. CASE Open \/ Close \/ ReadBeyond \/ ReadReturn \/ Use
  BY <1>2, QuietStep
<1>3. CASE Turn \/ Overrun
  BY <1>3, TurnStep, OverrunStep
<1>4. ASSUME NEW o \in 0 .. Blocks * block_size, NEW w \in Wants, ReadCall(o, w) PROVE IInv'
  BY <1>4, ReadCallStep
<1>5. CASE OpenFails \/ Corrupt
  BY <1>1, <1>5 DEF OpenFails, Corrupt
<1>. QED
  BY <1>1, <1>2, <1>3, <1>4, <1>5 DEF Next

LEMMA Always == Spec => []IInv
BY InitInv, InvNext, PTL DEF Spec

(* Whatever is read, in whatever order, through whatever windows and from  *)
(* whatever images, ciso_read delivers the image, but for the blocks that  *)
(* the decompressors cannot tell: reading compressed data ahead into the   *)
(* buffer that it fills never spoils what it has delivered, nor a block    *)
(* that is still to be decompressed.                                       *)
THEOREM ReadsDeliver == Spec => []Delivered
<1>1. IInv => Delivered
  <2>. SUFFICES ASSUME IInv PROVE Delivered
    OBVIOUS
  <2>1. \A k \in 1 .. addr - 1 :
          Told((o_offset + k - 1) \div block_size) => buf[k] = o_offset + k - 1
    BY DEF IInv, Front
  <2>2. want \in Int /\ file.uncompressed_size - o_offset \in Int
    BY ImageIs DEF IInv, CallInv
  <2>3. Length = Min({want, file.uncompressed_size - o_offset})
    <3>1. PICK a \in Int, b \in Int : a = want /\ b = file.uncompressed_size - o_offset
      BY <2>2
    <3>2. Min({a, b}) = Least(a, b)
      BY MinOfTwo
    <3>. QED
      BY <3>1, <3>2 DEF Length
  <2>4. pc = "returned" => offset - o_offset =
          IF o_offset > file.uncompressed_size THEN 0 ELSE Length
    BY DEF IInv, CallInv
  <2>. QED
    BY <2>1, <2>3, <2>4 DEF Delivered
<1>. QED
  BY <1>1, Always, PTL

(* The two offsets that a turn of the loop takes are in idx_cache and are  *)
(* those of the image, and what they describe fits into block_buf, for     *)
(* windows of any length and also for the last block of a DAX file, unless *)
(* that block is cut short: only there may a copy run over block_buf.      *)
THEOREM BlocksFit == Spec => []BlockFits
<1>1. IInv => BlockFits
  <2>. SUFFICES ASSUME IInv PROVE BlockFits
    OBVIOUS
  <2>1. pc = "reading" /\ size > 0 => InIndex /\ (Known(cur_block) => ~TooLong)
    BY InWindow, Fits
  <2>2. pc = "corrupt" => ~Known(cur_block)
    BY DEF IInv
  <2>. QED
    BY <2>1, <2>2 DEF BlockFits
<1>. QED
  BY <1>1, Always, PTL
=============================================================================
