------------------------------ MODULE CwdProofs ------------------------------
(***************************************************************************)
(* Proofs about Cwd, for paths, directories and buffers of any length.     *)
(***************************************************************************)
EXTENDS Cwd, SequenceTheorems, WellFoundedInduction, TLAPS

(* A path begins with a drive. *)
HasDrive(d) == \E k \in 1 .. Len(d) : d[k] = ":" /\ \A j \in 1 .. k - 1 : d[j] = "a"

(* The search for ".." looks at two slashes, or before the path. *)
Between == pc = "parents" => first \in 1 .. next /\ first <= Len(out)

IInv == TypeOK /\ Between /\ BufferFits

-----------------------------------------------------------------------------
(* Prefixes, concatenations and suffixes of strings. *)
LEMMA Sub ==
  ASSUME NEW s \in Seq(AnyChar), NEW m \in Nat, NEW k \in Nat, m >= 1, k <= Len(s)
  PROVE  /\ SubSeq(s, m, k) \in Seq(AnyChar)
         /\ m <= k => Len(SubSeq(s, m, k)) = k - m + 1
         /\ m > k => Len(SubSeq(s, m, k)) = 0
         /\ \A j \in Nat : j >= 1 /\ j <= k - m + 1 => SubSeq(s, m, k)[j] = s[m + j - 1]
<1>1. Len(s) \in Nat /\ \A j \in 1 .. Len(s) : s[j] \in AnyChar
  BY LenProperties, ElementOfSeq
<1>2. \A j \in m .. k : s[j] \in AnyChar
  BY <1>1
<1>3. /\ SubSeq(s, m, k) \in Seq(AnyChar)
      /\ Len(SubSeq(s, m, k)) = IF m <= k THEN k - m + 1 ELSE 0
      /\ \A j \in 1 .. k - m + 1 : SubSeq(s, m, k)[j] = s[m + j - 1]
  <2>1. m \in Int /\ k \in Int
    OBVIOUS
  <2>. QED
    BY ONLY <1>2, <2>1, SubSeqProperties
<1>. HIDE DEF AnyChar
<1>. QED
  BY <1>3

(* A set of numbers that is not empty has a least one. *)
LEMMA LeastNumber ==
  ASSUME NEW S \in SUBSET Nat, S # {}
  PROVE  Min(S) \in S /\ \A y \in S : Min(S) <= y
<1>. DEFINE R == OpToRel(<, Nat)
<1>1. IsWellFoundedOn(R, Nat)
  BY NatLessThanWellFounded
<1>2. \A x \in Nat, y \in Nat : y < x => <<y, x>> \in R
  BY DEF OpToRel
<1>. HIDE DEF R
<1>3. PICK x \in S : \A y \in S : ~ (<<y, x>> \in R)
  BY <1>1, WFMin
<1>4. ASSUME NEW y \in S PROVE x =< y
  <2>1. x \in Nat /\ y \in Nat
    OBVIOUS
  <2>2. ~(y < x)
    BY <1>2, <1>3, <2>1
  <2>. QED
    BY ONLY <2>1, <2>2
<1>. QED
  BY <1>4 DEF Min

(* Cutting n characters behind position k out of the buffer. *)
LEMMA CutShortens ==
  ASSUME out \in Seq(AnyChar), NEW k \in Nat, NEW m \in Nat, k >= 1, k + m <= Len(out)
  PROVE  /\ Cut(k, m) \in Seq(AnyChar) /\ Len(Cut(k, m)) = Len(out) - m
<1>. DEFINE a == SubSeq(out, 1, k)
            b == SubSeq(out, k + m + 1, Len(out))
<1>1. Len(out) \in Nat /\ k <= Len(out) /\ k + m + 1 \in Nat /\ k + m + 1 >= 1
  BY LenProperties
<1>2. a \in Seq(AnyChar) /\ Len(a) = k
  BY <1>1, Sub
<1>3. b \in Seq(AnyChar) /\ Len(b) = Len(out) - (k + m)
  BY <1>1, Sub
<1>4. Cut(k, m) = a \o b
  BY DEF Cut
<1>. HIDE DEF a, b
<1>5. a \o b \in Seq(AnyChar) /\ Len(a \o b) = Len(a) + Len(b)
  BY <1>2, <1>3, ConcatProperties
<1>. QED
  BY <1>1, <1>2, <1>3, <1>4, <1>5

(* get_drive splits a path in two. *)
LEMMA Split ==
  ASSUME NEW d \in Seq(AnyChar)
  PROVE  /\ get_drive(d) \in Seq(AnyChar) /\ Rest(d) \in Seq(AnyChar)
         /\ Len(get_drive(d)) + Len(Rest(d)) = Len(d)
         /\ HasDrive(d) => HasDrive(get_drive(d))
         /\ get_drive(d) # <<>> => HasDrive(d)
<1>. DEFINE colons == {k \in 1 .. Len(d) : d[k] = ":" /\ \A j \in 1 .. k - 1 : d[j] = "a"}
            c == CHOOSE k \in colons : TRUE
<1>0. Len(d) \in Nat
  BY LenProperties
<1>1. CASE colons = {}
  <2>1. get_drive(d) = <<>> /\ ~HasDrive(d)
    BY <1>1 DEF get_drive, HasDrive
  <2>2. Len(get_drive(d)) = 0 /\ get_drive(d) \in Seq(AnyChar)
    BY <2>1, EmptySeq
  <2>3. Rest(d) = SubSeq(d, 1, Len(d))
    BY <2>2 DEF Rest
  <2>4. Rest(d) = d
    BY <2>3, SubSeqFull
  <2>. QED
    BY <1>0, <2>1, <2>2, <2>4
<1>2. CASE colons # {}
  <2>1. c \in colons
    BY <1>2
  <2>2. get_drive(d) = SubSeq(d, 1, c)
    BY <1>2 DEF get_drive
  <2>3. c \in 1 .. Len(d) /\ d[c] = ":" /\ \A j \in 1 .. c - 1 : d[j] = "a"
    BY <2>1
  <2>4. HasDrive(d)
    BY <2>3 DEF HasDrive
  <2>. HIDE DEF c, colons
  <2>5. c \in Nat /\ c >= 1 /\ c <= Len(d) /\ c + 1 \in Nat
    BY <1>0, <2>3
  <2>6. /\ SubSeq(d, 1, c) \in Seq(AnyChar) /\ Len(SubSeq(d, 1, c)) = c
        /\ \A j \in Nat : j >= 1 /\ j <= c => SubSeq(d, 1, c)[j] = d[j]
    <3>1. /\ SubSeq(d, 1, c) \in Seq(AnyChar)
          /\ 1 <= c => Len(SubSeq(d, 1, c)) = c - 1 + 1
          /\ \A j \in Nat : j >= 1 /\ j <= c - 1 + 1 => SubSeq(d, 1, c)[j] = d[1 + j - 1]
      BY <2>5, Sub
    <3>2. c - 1 + 1 = c /\ \A j \in Nat : 1 + j - 1 = j
      BY <2>5
    <3>. HIDE DEF AnyChar
    <3>. QED
      BY ONLY <2>5, <3>1, <3>2
  <2>7. HasDrive(get_drive(d))
    BY <2>2, <2>3, <2>5, <2>6 DEF HasDrive
  <2>8. Rest(d) = SubSeq(d, c + 1, Len(d))
    BY <2>2, <2>6 DEF Rest
  <2>9. Rest(d) \in Seq(AnyChar) /\ Len(Rest(d)) = Len(d) - c
    BY <1>0, <2>5, <2>8, Sub
  <2>. QED
    BY <1>0, <2>2, <2>4, <2>5, <2>6, <2>7, <2>9
<1>. QED
  BY <1>1, <1>2

(* What follows a drive does not matter. *)
LEMMA DrivePrefix ==
  ASSUME NEW d \in Seq(AnyChar), NEW r \in Seq(AnyChar), HasDrive(d)
  PROVE  HasDrive(d \o r)
<1>1. /\ Len(d) \in Nat /\ Len(r) \in Nat /\ Len(d \o r) = Len(d) + Len(r)
      /\ \A j \in 1 .. Len(d) + Len(r) : (d \o r)[j] = IF j <= Len(d) THEN d[j] ELSE r[j - Len(d)]
  BY ConcatProperties, LenProperties
<1>2. PICK k \in 1 .. Len(d) : d[k] = ":" /\ \A j \in 1 .. k - 1 : d[j] = "a"
  BY DEF HasDrive
<1>3. k \in 1 .. Len(d \o r) /\ (d \o r)[k] = ":"
  BY <1>1, <1>2
<1>4. \A j \in 1 .. k - 1 : (d \o r)[j] = "a"
  BY <1>1, <1>2
<1>. QED
  BY <1>3, <1>4 DEF HasDrive

(* The path that is resolved. *)
LEMMA JoinType ==
  ASSUME IInv, NEW path \in Seq(AnyChar)
  PROVE  Join(path) \in Seq(AnyChar)
<1>1. cwd \in Seq(AnyChar) /\ get_drive(cwd) \in Seq(AnyChar)
  BY Split DEF IInv, TypeOK
<1>2. <<"/">> \in Seq(AnyChar)
  BY DEF AnyChar
<1>3. /\ get_drive(cwd) \o path \in Seq(AnyChar) /\ cwd \o path \in Seq(AnyChar)
      /\ cwd \o <<"/">> \in Seq(AnyChar)
  BY <1>1, <1>2, ConcatProperties
<1>4. cwd \o <<"/">> \o path \in Seq(AnyChar)
  BY <1>3, ConcatProperties
<1>. QED
  BY <1>3, <1>4 DEF Join

(* A path a program passes is a string; the empty one is a path. *)
LEMMA PathsAreStrings == Paths \subseteq Seq(AnyChar) /\ <<>> \in Paths
<1>1. Paths = UNION {[1 .. m -> Chars] : m \in 0 .. MaxPath}
  BY DEF Paths, BoundedSeq, SeqOf
<1>2. Paths \subseteq Seq(AnyChar)
  <2>. SUFFICES ASSUME NEW p \in Paths PROVE p \in Seq(AnyChar)
    OBVIOUS
  <2>1. PICK m \in 0 .. MaxPath : p \in [1 .. m -> Chars]
    BY <1>1
  <2>2. m \in Nat /\ Chars \subseteq AnyChar
    BY <2>1, CwdAssumption
  <2>. HIDE DEF AnyChar
  <2>3. p \in [1 .. m -> AnyChar]
    BY <2>1, <2>2
  <2>. QED
    BY <2>2, <2>3, SeqDef
<1>3. <<>> \in [1 .. 0 -> Chars]
  OBVIOUS
<1>. QED
  BY <1>1, <1>2, <1>3, CwdAssumption

-----------------------------------------------------------------------------
LEMMA InitInv == Init => IInv
<1>. SUFFICES ASSUME Init PROVE IInv
  OBVIOUS
<1>1. cwd \in Seq(AnyChar) /\ Len(cwd) <= 5 /\ Len(cwd) \in Nat
  <2>1. CASE cwd = <<"a", ":">>
    BY <2>1 DEF AnyChar
  <2>2. CASE cwd = <<"a", ":", "/", "a", "a">>
    BY <2>2 DEF AnyChar
  <2>3. CASE cwd = <<>>
    BY <2>3, EmptySeq
  <2>. QED
    BY <2>1, <2>2, <2>3 DEF Init
<1>2. <<>> \in Seq(AnyChar) /\ Len(<<>>) = 0 /\ <<>> \in Paths
  BY EmptySeq, PathsAreStrings
<1>3. TypeOK
  BY <1>1, <1>2 DEF Init, TypeOK
<1>4. BufferFits
  BY <1>1, <1>2, CwdAssumption DEF Init, BufferFits
<1>. QED
  BY <1>1, <1>3, <1>4 DEF Init, IInv, Between

LEMMA ChdirStep == ASSUME IInv, Chdir PROVE IInv'
<1>1. PICK path \in Paths : Begin(path) \/ TooLong(path) \/ StrayWrite(path)
  BY DEF Chdir
<1>2. CASE TooLong(path)
  BY <1>2 DEF TooLong, vars, IInv, TypeOK, Between, BufferFits
<1>3. CASE StrayWrite(path)
  BY <1>3 DEF StrayWrite, IInv, TypeOK, Between, BufferFits
<1>4. CASE Begin(path)
  <2>. DEFINE s == Join(path)
  <2>1. s \in Seq(AnyChar)
    BY JoinType, PathsAreStrings
  <2>2. /\ drive' = get_drive(s) /\ out' = Append(Rest(s), "/") /\ asked' = path
        /\ pc' = "slashes" /\ i' = 1 /\ UNCHANGED <<cwd, first, next>>
        /\ Len(Append(s, "/")) < MaxLen
    BY <1>4 DEF Begin, Fits
  <2>. HIDE DEF s
  <2>3. /\ get_drive(s) \in Seq(AnyChar) /\ Rest(s) \in Seq(AnyChar)
        /\ Len(get_drive(s)) + Len(Rest(s)) = Len(s)
    BY <2>1, Split
  <2>4. /\ "/" \in AnyChar /\ out' \in Seq(AnyChar) /\ Len(out') = Len(Rest(s)) + 1
        /\ Len(Append(s, "/")) = Len(s) + 1
    BY <2>1, <2>2, <2>3, AppendProperties DEF AnyChar
  <2>5. Len(s) \in Nat /\ Len(Rest(s)) \in Nat /\ Len(get_drive(s)) \in Nat
    BY <2>1, <2>3, LenProperties
  <2>6. TypeOK'
    BY <2>2, <2>3, <2>4, <2>5 DEF IInv, TypeOK
  <2>7. BufferFits'
    BY <2>2, <2>3, <2>4, <2>5, CwdAssumption DEF IInv, BufferFits
  <2>. QED
    BY <2>2, <2>6, <2>7 DEF IInv, Between
<1>. QED
  BY <1>1, <1>2, <1>3, <1>4

(* What a loop that edits the buffer has to keep: it only gets shorter. *)
LEMMA Shorter ==
  ASSUME IInv, pc # "idle", pc' \in {"slashes", "dots", "parents", "trailing", "resolved"},
         out' \in Seq(AnyChar), Len(out') <= Len(out),
         pc' \in {"slashes", "dots"} => i' \in 1 .. Len(out'),
         first' \in Nat, next' \in Nat,
         pc' = "parents" => first' \in 1 .. next' /\ first' <= Len(out'),
         UNCHANGED <<cwd, drive, asked>>
  PROVE  IInv'
<1>1. TypeOK'
  BY DEF IInv, TypeOK
<1>2. BufferFits'
  <2>1. Len(out') \in Nat /\ Len(out) \in Nat /\ Len(drive) \in Nat
    BY LenProperties DEF IInv, TypeOK
  <2>. QED
    BY <2>1, CwdAssumption DEF IInv, BufferFits
<1>. QED
  BY <1>1, <1>2 DEF IInv, Between

LEMMA SlashesStep == ASSUME IInv, Slashes PROVE IInv'
<1>1. /\ pc = "slashes" /\ out \in Seq(AnyChar) /\ Len(out) \in Nat /\ i \in 1 .. Len(out)
      /\ first \in Nat /\ next \in Nat
      /\ UNCHANGED <<cwd, drive, asked, first, next>>
  BY LenProperties DEF Slashes, IInv, TypeOK
<1>2. CASE At(<<"/", "/">>, i) /\ out' = Cut(i, 1) /\ UNCHANGED <<i, pc>>
  <2>1. i + 1 <= Len(out)
    BY <1>1, <1>2 DEF At
  <2>2. out' \in Seq(AnyChar) /\ Len(out') = Len(out) - 1
    <3>1. PICK k \in Nat : k = i
      BY <1>1
    <3>. QED
      BY <1>1, <1>2, <2>1, <3>1, CutShortens
  <2>. QED
    BY <1>1, <1>2, <2>1, <2>2, Shorter
<1>3. CASE i < Len(out) /\ i' = i + 1 /\ UNCHANGED <<out, pc>>
  BY <1>1, <1>3, Shorter
<1>4. CASE i' = 1 /\ pc' = "dots" /\ UNCHANGED out
  BY <1>1, <1>4, Shorter
<1>. QED
  BY <1>2, <1>3, <1>4 DEF Slashes

LEMMA DotsStep == ASSUME IInv, Dots PROVE IInv'
<1>1. /\ pc = "dots" /\ out \in Seq(AnyChar) /\ Len(out) \in Nat /\ i \in 1 .. Len(out)
      /\ first \in Nat /\ next \in Nat /\ UNCHANGED <<cwd, drive, asked>>
  BY LenProperties DEF Dots, IInv, TypeOK
<1>2. CASE At(<<"/", ".", "/">>, i) /\ out' = Cut(i, 2) /\ UNCHANGED <<i, pc, first, next>>
  <2>1. i + 2 <= Len(out)
    BY <1>1, <1>2 DEF At
  <2>2. out' \in Seq(AnyChar) /\ Len(out') = Len(out) - 2
    <3>1. PICK k \in Nat : k = i
      BY <1>1
    <3>. QED
      BY <1>1, <1>2, <2>1, <3>1, CutShortens
  <2>. QED
    BY <1>1, <1>2, <2>1, <2>2, Shorter
<1>3. CASE i + 2 <= Len(out) /\ i' = i + 1 /\ UNCHANGED <<out, pc, first, next>>
  BY <1>1, <1>3, Shorter
<1>4. CASE pc' = "parents" /\ first' = 1 /\ next' = 1 /\ UNCHANGED <<out, i>>
  BY <1>1, <1>4, Shorter
<1>. QED
  BY <1>2, <1>3, <1>4 DEF Dots

LEMMA ParentsStep == ASSUME IInv, Parents PROVE IInv'
<1>1. /\ pc = "parents" /\ out \in Seq(AnyChar) /\ Len(out) \in Nat
      /\ first \in Nat /\ next \in Nat /\ first >= 1 /\ first <= next /\ first <= Len(out)
      /\ UNCHANGED <<cwd, drive, asked, i>>
  BY LenProperties DEF Parents, IInv, TypeOK, Between
<1>2. CASE At(<<".", ".", "/">>, next + 1) /\ Up
  <2>1. next + 3 <= Len(out)
    BY <1>1, <1>2 DEF At
  <2>2. PICK k \in Nat, m \in Nat : k = first /\ m = next + 3 - first
    BY <1>1
  <2>3. k >= 1 /\ k + m <= Len(out) /\ m <= Len(out) - 1
    BY <1>1, <2>1, <2>2
  <2>4. out' = Cut(k, m) /\ first' = 1 /\ next' = 1 /\ pc' = pc
    BY <1>2, <2>2 DEF Up
  <2>5. out' \in Seq(AnyChar) /\ Len(out') = Len(out) - m
    BY <1>1, <2>3, <2>4, CutShortens
  <2>. QED
    BY <1>1, <2>3, <2>4, <2>5, Shorter
<1>3. CASE Advance
  <2>. DEFINE slashes == {k \in next + 1 .. Len(out) : out[k] = "/"}
  <2>1. first' = next /\ out' = out
    BY <1>3 DEF Advance
  <2>2. CASE slashes = {}
    <3>1. next' = Len(out) + 1 /\ pc' = "trailing"
      BY <1>3, <2>2 DEF Advance
    <3>. QED
      BY <1>1, <2>1, <3>1, Shorter
  <2>3. CASE slashes # {}
    <3>1. next' = Min(slashes) /\ pc' = pc
      BY <1>3, <2>3 DEF Advance
    <3>2. Min(slashes) \in slashes
      <4>1. slashes \in SUBSET Nat
        BY <1>1
      <4>. HIDE DEF slashes
      <4>. QED
        BY <2>3, <4>1, LeastNumber
    <3>. QED
      BY <1>1, <2>1, <3>1, <3>2, Shorter
  <2>. QED
    BY <2>2, <2>3
<1>. QED
  BY <1>2, <1>3 DEF Parents

LEMMA TrailingStep == ASSUME IInv, Trailing PROVE IInv'
<1>1. /\ pc = "trailing" /\ pc' = "resolved" /\ out \in Seq(AnyChar) /\ Len(out) \in Nat
      /\ first' \in Nat /\ next' \in Nat /\ UNCHANGED <<cwd, drive, asked>>
  BY LenProperties DEF Trailing, IInv, TypeOK
<1>2. CASE out' = out
  BY <1>1, <1>2, Shorter
<1>3. CASE Len(out) > 0 /\ out' = SubSeq(out, 1, Len(out) - 1)
  <2>1. out' \in Seq(AnyChar) /\ Len(out') <= Len(out)
    <3>1. PICK k \in Nat : k = Len(out) - 1
      <4>1. Len(out) - 1 \in Nat
        BY <1>1, <1>3
      <4>. QED
        BY <4>1, Zenon
    <3>2. SubSeq(out, 1, k) \in Seq(AnyChar) /\ (1 <= k => Len(SubSeq(out, 1, k)) = k)
          /\ (1 > k => Len(SubSeq(out, 1, k)) = 0)
      BY <1>1, <1>3, <3>1, Sub
    <3>. QED
      BY <1>1, <1>3, <3>1, <3>2
  <2>. QED
    BY <1>1, <2>1, Shorter
<1>. QED
  BY <1>2, <1>3 DEF Trailing, Front

LEMMA EnterStep == ASSUME IInv, Enter PROVE IInv'
<1>1. /\ pc = "resolved" /\ drive \in Seq(AnyChar) /\ out \in Seq(AnyChar)
      /\ drive' = <<>> /\ out' = <<>> /\ asked' = <<>> /\ pc' = "idle"
      /\ i' = 1 /\ first' = 1 /\ next' = 1
  BY DEF Enter, IInv, TypeOK
<1>2. drive \o out \in Seq(AnyChar) /\ Len(drive \o out) = Len(drive) + Len(out)
  BY <1>1, ConcatProperties
<1>3. cwd' \in Seq(AnyChar) /\ Len(cwd') < MaxLen
  BY <1>2 DEF Enter, IInv, TypeOK, BufferFits
<1>4. <<>> \in Seq(AnyChar) /\ Len(<<>>) = 0 /\ <<>> \in Paths
  BY EmptySeq, PathsAreStrings
<1>5. TypeOK'
  BY <1>1, <1>3, <1>4 DEF TypeOK
<1>6. BufferFits'
  BY <1>1, <1>3, <1>4, CwdAssumption DEF BufferFits
<1>. QED
  BY <1>1, <1>3, <1>5, <1>6 DEF IInv, Between

LEMMA InvNext == IInv /\ [Next]_vars => IInv'
<1>. SUFFICES ASSUME IInv, [Next]_vars PROVE IInv'
  OBVIOUS
<1>1. CASE UNCHANGED vars
  BY <1>1 DEF vars, IInv, TypeOK, Between, BufferFits
<1>. QED
  BY <1>1, ChdirStep, SlashesStep, DotsStep, ParentsStep, TrailingStep, EnterStep
     DEF Next, Loop, Corrupt

LEMMA Always == Spec => []IInv
BY InitInv, InvNext, PTL DEF Spec

(* The index of the loops that look for "//" and "/./" is always that of a *)
(* character of the string, whatever path a program passes.                *)
THEOREM TypeCorrect == FairSpec => []TypeOK
<1>1. IInv => TypeOK
  BY DEF IInv
<1>. QED
  BY <1>1, Always, PTL DEF FairSpec

(* No string in the buffers of MAXNAMLEN characters is too long for them,  *)
(* however long the path: __path_absolute refuses what does not fit, and   *)
(* every edit shortens.                                                    *)
THEOREM BuffersFit == FairSpec => []BufferFits
<1>1. IInv => BufferFits
  BY DEF IInv
<1>. QED
  BY <1>1, Always, PTL DEF FairSpec

-----------------------------------------------------------------------------
(* Induction over the numbers, for a set of them. *)
LEMMA Induct ==
  ASSUME NEW S, 0 \in S, \A k \in Nat : k \in S => k + 1 \in S
  PROVE  Nat \subseteq S
<1>. DEFINE R == OpToRel(<, Nat)
            T == Nat \ S
<1>1. IsWellFoundedOn(R, Nat)
  BY NatLessThanWellFounded
<1>2. \A x \in Nat, y \in Nat : y < x => <<y, x>> \in R
  BY DEF OpToRel
<1>3. SUFFICES ASSUME T # {} PROVE FALSE
  OBVIOUS
<1>4. T \subseteq Nat
  OBVIOUS
<1>5. PICK x \in T : \A y \in T : ~ (<<y, x>> \in R)
  <2>. HIDE DEF R, T
  <2>. QED
    BY <1>1, <1>3, <1>4, WFMin
<1>6. x \in Nat /\ x # 0 /\ x \notin S
  OBVIOUS
<1>7. x - 1 \in Nat /\ x - 1 < x /\ x - 1 + 1 = x
  BY <1>6
<1>8. x - 1 \in S
  <2>1. <<x - 1, x>> \in R
    BY <1>2, <1>6, <1>7
  <2>. HIDE DEF R
  <2>. QED
    BY <1>5, <1>7, <2>1
<1>9. x \in S
  BY <1>7, <1>8
<1>. QED
  BY <1>6, <1>9

(* What a recursive function over 0 .. n computes, when its n steps are    *)
(* those of F: the function exists, and there is only one.                 *)
Runs(r, n, F, base) ==
  r = [k \in 0 .. n |-> IF k = 0 THEN base ELSE F[<<k, r[k - 1]>>]]

LEMMA Recursion ==
  ASSUME NEW n \in Nat, NEW T, NEW base \in T, NEW F \in [(1 .. n) \X T -> T]
  PROVE  \E r \in [0 .. n -> T] : Runs(r, n, F, base)
<1>. DEFINE S == {m \in Nat : m <= n => \E r \in [0 .. m -> T] : Runs(r, m, F, base)}
<1>1. 0 \in S
  <2>. DEFINE r == [k \in 0 .. 0 |-> base]
  <2>1. r \in [0 .. 0 -> T]
    OBVIOUS
  <2>2. Runs(r, 0, F, base)
    BY DEF Runs
  <2>. QED
    BY <2>1, <2>2
<1>2. ASSUME NEW m \in Nat, m \in S PROVE m + 1 \in S
  <2>. SUFFICES ASSUME m + 1 <= n PROVE \E r \in [0 .. m + 1 -> T] : Runs(r, m + 1, F, base)
    OBVIOUS
  <2>1. PICK r \in [0 .. m -> T] : Runs(r, m, F, base)
    BY <1>2
  <2>2. F[<<m + 1, r[m]>>] \in T
    <3>1. r[m] \in T /\ m + 1 \in 1 .. n
      BY <2>1
    <3>. QED
      BY <3>1
  <2>. DEFINE q == [k \in 0 .. m + 1 |-> IF k = m + 1 THEN F[<<m + 1, r[m]>>] ELSE r[k]]
  <2>3. q \in [0 .. m + 1 -> T]
    BY <2>1, <2>2
  <2>4. ASSUME NEW k \in 0 .. m + 1 PROVE q[k] = IF k = 0 THEN base ELSE F[<<k, q[k - 1]>>]
    <3>1. CASE k = m + 1
      <4>1. q[m + 1] = F[<<m + 1, r[m]>>] /\ q[m] = r[m] /\ m + 1 - 1 = m /\ m + 1 # 0
        OBVIOUS
      <4>. QED
        BY <3>1, <4>1
    <3>2. CASE k # m + 1
      <4>1. k \in 0 .. m /\ q[k] = r[k] /\ (k # 0 => k - 1 \in 0 .. m + 1 /\ q[k - 1] = r[k - 1])
        BY <3>2
      <4>2. r[k] = IF k = 0 THEN base ELSE F[<<k, r[k - 1]>>]
        BY <2>1, <4>1 DEF Runs
      <4>. QED
        BY <4>1, <4>2
    <3>. QED
      BY <3>1, <3>2
  <2>5. Runs(q, m + 1, F, base)
    BY <2>4 DEF Runs
  <2>. QED
    BY <2>3, <2>5
<1>3. n \in S
  <2>. HIDE DEF S
  <2>. QED
    BY <1>1, <1>2, Induct
<1>. QED
  BY <1>3

-----------------------------------------------------------------------------
(* The reader of a path is in a state of Reader. *)
Reader == [stack : Seq(Seq(AnyChar)), cur : Seq(AnyChar)]
Fresh(stack) == [stack |-> stack, cur |-> <<>>]

LEMMA FrontOfSeq ==
  ASSUME NEW S, NEW s \in Seq(S), s # <<>>
  PROVE  Front(s) \in Seq(S) /\ Len(Front(s)) = Len(s) - 1
         /\ \A k \in 1 .. Len(s) - 1 : Front(s)[k] = s[k]
<1>1. Len(s) \in Nat \ {0}
  BY EmptySeq
<1>2. \A k \in 1 .. Len(s) : s[k] \in S
  BY ElementOfSeq
<1>3. \A k \in 1 .. Len(s) - 1 : s[k] \in S
  BY <1>1, <1>2
<1>4. PICK n \in Int : n = Len(s) - 1
  BY <1>1
<1>5. /\ SubSeq(s, 1, n) \in Seq(S)
      /\ Len(SubSeq(s, 1, n)) = IF 1 <= n THEN n - 1 + 1 ELSE 0
      /\ \A k \in 1 .. n - 1 + 1 : SubSeq(s, 1, n)[k] = s[1 + k - 1]
  BY <1>3, <1>4, SubSeqProperties
<1>6. Front(s) = SubSeq(s, 1, n)
  BY <1>4 DEF Front
<1>. QED
  BY <1>1, <1>4, <1>5, <1>6

LEMMA ReadType ==
  ASSUME NEW acc \in Reader, NEW c \in AnyChar
  PROVE  Read(acc, c) \in Reader
<1>1. /\ acc.stack \in Seq(Seq(AnyChar)) /\ acc.cur \in Seq(AnyChar)
      /\ acc = [stack |-> acc.stack, cur |-> acc.cur]
  BY DEF Reader
<1>2. Push(acc.stack, acc.cur) \in Seq(Seq(AnyChar))
  BY <1>1, FrontOfSeq, AppendProperties DEF Push
<1>3. Append(acc.cur, c) \in Seq(AnyChar) /\ <<>> \in Seq(AnyChar)
  BY <1>1, AppendProperties, EmptySeq
<1>. HIDE DEF AnyChar
<1>4. CASE c = "/"
  BY <1>2, <1>3, <1>4 DEF Read, Reader
<1>5. CASE c # "/"
  BY <1>1, <1>3, <1>5 DEF Read, Reader
<1>. QED
  BY <1>4, <1>5

(* Scan is the fold of Read over the characters. *)
Reads(r, acc, s) ==
  r = [k \in 0 .. Len(s) |-> IF k = 0 THEN acc ELSE Read(r[k - 1], s[k])]

LEMMA ScanRun ==
  ASSUME NEW acc \in Reader, NEW s \in Seq(AnyChar)
  PROVE  \E r \in [0 .. Len(s) -> Reader] : Reads(r, acc, s)
<1>. DEFINE n == Len(s)
            F == [p \in (1 .. n) \X Reader |-> Read(p[2], s[p[1]])]
<1>1. n \in Nat /\ \A k \in 1 .. n : s[k] \in AnyChar
  BY LenProperties, ElementOfSeq
<1>2. F \in [(1 .. n) \X Reader -> Reader]
  BY <1>1, ReadType
<1>3. PICK r \in [0 .. n -> Reader] : Runs(r, n, F, acc)
  <2>. HIDE DEF F, n
  <2>. QED
    BY <1>1, <1>2, Recursion
<1>4. ASSUME NEW k \in 0 .. n, k # 0 PROVE F[<<k, r[k - 1]>>] = Read(r[k - 1], s[k])
  <2>1. k \in 1 .. n /\ k - 1 \in 0 .. n
    BY <1>1, <1>4
  <2>2. r[k - 1] \in Reader
    BY <2>1
  <2>. QED
    BY <2>1, <2>2
<1>5. Reads(r, acc, s)
  BY <1>3, <1>4 DEF Runs, Reads
<1>. QED
  BY <1>5

LEMMA ScanIs ==
  ASSUME NEW acc, NEW s \in Seq(AnyChar), NEW r, Reads(r, acc, s)
  PROVE  Scan(acc, s) = r[Len(s)]
<1>. DEFINE g == CHOOSE q : Reads(q, acc, s)
            S == {k \in Nat : k <= Len(s) => g[k] = r[k]}
<1>1. Reads(g, acc, s)
  OBVIOUS
<1>2. Scan(acc, s) = g[Len(s)]
  BY DEF Scan, Reads
<1>3. Len(s) \in Nat
  BY LenProperties
<1>. HIDE DEF g
<1>4. 0 \in S
  BY <1>1, <1>3 DEF Reads
<1>5. ASSUME NEW k \in Nat, k \in S PROVE k + 1 \in S
  <2>. SUFFICES ASSUME k + 1 <= Len(s) PROVE g[k + 1] = r[k + 1]
    OBVIOUS
  <2>1. g[k] = r[k] /\ k + 1 \in 0 .. Len(s) /\ k + 1 # 0 /\ k + 1 - 1 = k
    BY <1>3, <1>5
  <2>2. g[k + 1] = Read(g[k], s[k + 1]) /\ r[k + 1] = Read(r[k], s[k + 1])
    BY <1>1, <2>1 DEF Reads
  <2>. QED
    BY <2>1, <2>2
<1>6. Len(s) \in S
  <2>. HIDE DEF S
  <2>. QED
    BY <1>3, <1>4, <1>5, Induct
<1>. QED
  BY <1>2, <1>6

LEMMA ScanEmpty == ASSUME NEW acc \in Reader PROVE Scan(acc, <<>>) = acc
<1>1. <<>> \in Seq(AnyChar) /\ Len(<<>>) = 0
  BY EmptySeq
<1>2. PICK r \in [0 .. 0 -> Reader] : Reads(r, acc, <<>>)
  BY <1>1, ScanRun
<1>. QED
  BY <1>1, <1>2, ScanIs DEF Reads

LEMMA ScanAppend ==
  ASSUME NEW acc \in Reader, NEW s \in Seq(AnyChar), NEW c \in AnyChar
  PROVE  /\ Scan(acc, s) \in Reader
         /\ Scan(acc, Append(s, c)) = Read(Scan(acc, s), c)
<1>. DEFINE t == Append(s, c)
            n == Len(s)
<1>1. /\ n \in Nat /\ t \in Seq(AnyChar) /\ Len(t) = n + 1 /\ t[n + 1] = c
      /\ \A k \in 1 .. n : t[k] = s[k]
  BY LenProperties, AppendProperties
<1>2. PICK r \in [0 .. n + 1 -> Reader] : Reads(r, acc, t)
  <2>. HIDE DEF t, n
  <2>. QED
    BY <1>1, ScanRun
<1>. DEFINE q == [k \in 0 .. n |-> r[k]]
<1>3. ASSUME NEW k \in 0 .. n PROVE q[k] = IF k = 0 THEN acc ELSE Read(q[k - 1], s[k])
  <2>1. /\ k \in 0 .. n + 1 /\ q[k] = r[k]
        /\ k # 0 => k \in 1 .. n /\ k - 1 \in 0 .. n /\ q[k - 1] = r[k - 1]
    BY <1>1
  <2>2. r[k] = IF k = 0 THEN acc ELSE Read(r[k - 1], t[k])
    <3>. HIDE DEF q, t, n
    <3>. QED
      BY <1>1, <1>2, <2>1 DEF Reads
  <2>. HIDE DEF q, t, n
  <2>. QED
    BY <1>1, <2>1, <2>2
<1>4. Reads(q, acc, s)
  BY <1>3 DEF Reads
<1>5. Scan(acc, s) = r[n] /\ Scan(acc, t) = r[n + 1]
  <2>1. Scan(acc, s) = q[n]
    BY <1>4, ScanIs
  <2>2. q[n] = r[n]
    BY <1>1
  <2>. HIDE DEF t, n
  <2>3. Scan(acc, t) = r[n + 1]
    BY <1>1, <1>2, ScanIs
  <2>. QED
    BY <2>1, <2>2, <2>3
<1>6. r[n + 1] = Read(r[n], c) /\ r[n] \in Reader
  <2>. HIDE DEF t, n
  <2>1. n + 1 \in 0 .. n + 1 /\ n \in 0 .. n + 1 /\ n + 1 # 0 /\ n + 1 - 1 = n
    BY <1>1
  <2>. QED
    BY <1>1, <1>2, <2>1 DEF Reads
<1>. QED
  BY <1>5, <1>6

-----------------------------------------------------------------------------
LEMMA ConcatAppend ==
  ASSUME NEW S, NEW s \in Seq(S), NEW t \in Seq(S), NEW c \in S
  PROVE  s \o Append(t, c) = Append(s \o t, c) /\ s \o t \in Seq(S)
<1>1. s \o t \in Seq(S) /\ <<c>> \in Seq(S)
  BY ConcatProperties
<1>2. s \o Append(t, c) = s \o (t \o <<c>>)
  BY AppendIsConcat
<1>3. Append(s \o t, c) = (s \o t) \o <<c>>
  BY <1>1, AppendIsConcat
<1>. QED
  BY <1>1, <1>2, <1>3, ConcatAssociative

LEMMA ScanConcat ==
  ASSUME NEW acc \in Reader, NEW s \in Seq(AnyChar), NEW t \in Seq(AnyChar)
  PROVE  Scan(acc, s \o t) = Scan(Scan(acc, s), t) /\ Scan(acc, s) \in Reader
<1>. HIDE DEF AnyChar, Reader
<1>0. Scan(acc, s) \in Reader
  BY ScanAppend, "/" \in AnyChar DEF AnyChar
<1>. DEFINE S == {n \in Nat : \A u \in Seq(AnyChar) :
                    Len(u) = n => Scan(acc, s \o u) = Scan(Scan(acc, s), u)}
<1>1. 0 \in S
  <2>. SUFFICES ASSUME NEW u \in Seq(AnyChar), Len(u) = 0
                PROVE  Scan(acc, s \o u) = Scan(Scan(acc, s), u)
    OBVIOUS
  <2>1. u = <<>>
    BY EmptySeq
  <2>. QED
    BY <1>0, <2>1, ScanEmpty, ConcatEmptySeq
<1>2. ASSUME NEW n \in Nat, n \in S PROVE n + 1 \in S
  <2>. SUFFICES ASSUME NEW u \in Seq(AnyChar), Len(u) = n + 1
                PROVE  Scan(acc, s \o u) = Scan(Scan(acc, s), u)
    OBVIOUS
  <2>1. u # <<>>
    BY EmptySeq
  <2>2. PICK v \in Seq(AnyChar), c \in AnyChar : u = Append(v, c)
    BY <2>1, SequenceEmptyOrAppend
  <2>3. Len(v) = n
    <3>1. Len(u) = Len(v) + 1 /\ Len(v) \in Nat
      BY <2>2, AppendProperties, LenProperties
    <3>. QED
      BY <3>1
  <2>4. Scan(acc, s \o v) = Scan(Scan(acc, s), v)
    BY <1>2, <2>3
  <2>5. s \o u = Append(s \o v, c) /\ s \o v \in Seq(AnyChar)
    BY <2>2, ConcatAppend
  <2>6. Scan(acc, s \o u) = Read(Scan(acc, s \o v), c)
    <3>1. PICK w \in Seq(AnyChar) : w = s \o v
      BY <2>5
    <3>2. Scan(acc, Append(w, c)) = Read(Scan(acc, w), c)
      BY ScanAppend
    <3>. QED
      BY <2>5, <3>1, <3>2
  <2>7. Scan(Scan(acc, s), u) = Read(Scan(Scan(acc, s), v), c)
    BY <1>0, <2>2, ScanAppend
  <2>. QED
    BY <2>4, <2>6, <2>7
<1>3. Len(t) \in Nat /\ Len(t) \in S
  <2>1. Len(t) \in Nat
    BY LenProperties
  <2>. HIDE DEF S
  <2>. QED
    BY <1>1, <1>2, <2>1, Induct
<1>. QED
  BY <1>0, <1>3

NoSlash(s) == \A k \in 1 .. Len(s) : s[k] # "/"

LEMMA FreshType == ASSUME NEW st \in Seq(Seq(AnyChar)) PROVE Fresh(st) \in Reader
<1>. HIDE DEF AnyChar
<1>. QED
  BY EmptySeq DEF Fresh, Reader

(* A component is read as it stands. *)
LEMMA ReadName ==
  ASSUME NEW st \in Seq(Seq(AnyChar)), NEW x \in Seq(AnyChar), NoSlash(x)
  PROVE  Scan(Fresh(st), x) = [stack |-> st, cur |-> x]
<1>. HIDE DEF AnyChar
<1>. DEFINE S == {n \in Nat : \A u \in Seq(AnyChar) :
                    Len(u) = n /\ NoSlash(u) => Scan(Fresh(st), u) = [stack |-> st, cur |-> u]}
<1>1. 0 \in S
  <2>. SUFFICES ASSUME NEW u \in Seq(AnyChar), Len(u) = 0
                PROVE  Scan(Fresh(st), u) = [stack |-> st, cur |-> u]
    OBVIOUS
  <2>1. u = <<>>
    BY EmptySeq
  <2>. QED
    BY <2>1, ScanEmpty, FreshType DEF Fresh
<1>2. ASSUME NEW n \in Nat, n \in S PROVE n + 1 \in S
  <2>. SUFFICES ASSUME NEW u \in Seq(AnyChar), Len(u) = n + 1, NoSlash(u)
                PROVE  Scan(Fresh(st), u) = [stack |-> st, cur |-> u]
    OBVIOUS
  <2>1. u # <<>>
    BY EmptySeq
  <2>2. PICK v \in Seq(AnyChar), c \in AnyChar : u = Append(v, c)
    BY <2>1, SequenceEmptyOrAppend
  <2>3. /\ Len(v) = n /\ c # "/" /\ NoSlash(v)
    <3>1. /\ Len(u) = Len(v) + 1 /\ Len(v) \in Nat /\ u[Len(v) + 1] = c
          /\ \A k \in 1 .. Len(v) : u[k] = v[k]
      BY <2>2, AppendProperties, LenProperties
    <3>. QED
      BY <3>1 DEF NoSlash
  <2>4. Scan(Fresh(st), v) = [stack |-> st, cur |-> v]
    BY <1>2, <2>3
  <2>5. Scan(Fresh(st), u) = Read([stack |-> st, cur |-> v], c)
    BY <2>2, <2>4, ScanAppend, FreshType
  <2>. QED
    BY <2>2, <2>3, <2>5 DEF Read
<1>3. Len(x) \in Nat /\ Len(x) \in S
  <2>1. Len(x) \in Nat
    BY LenProperties
  <2>. HIDE DEF S
  <2>. QED
    BY <1>1, <1>2, <2>1, Induct
<1>. QED
  BY <1>3

(* A slash ends a component. *)
LEMMA ScanSlash ==
  ASSUME NEW acc \in Reader, NEW s \in Seq(AnyChar)
  PROVE  /\ Scan(acc, Append(s, "/")) = Fresh(Push(Scan(acc, s).stack, Scan(acc, s).cur))
         /\ Push(Scan(acc, s).stack, Scan(acc, s).cur) \in Seq(Seq(AnyChar))
         /\ Scan(acc, s) \in Reader
<1>1. "/" \in AnyChar
  BY DEF AnyChar
<1>2. Scan(acc, Append(s, "/")) = Read(Scan(acc, s), "/") /\ Scan(acc, s) \in Reader
  BY <1>1, ScanAppend
<1>3. Read(Scan(acc, s), "/") \in Reader
  BY <1>1, <1>2, ReadType
<1>4. Read(Scan(acc, s), "/") = Fresh(Push(Scan(acc, s).stack, Scan(acc, s).cur))
  BY DEF Read, Fresh
<1>. HIDE DEF AnyChar
<1>. QED
  BY <1>2, <1>3, <1>4 DEF Reader, Fresh

(* An empty component, ".", and a name followed by "..", denote nothing. *)
LEMMA NothingRead ==
  ASSUME NEW st \in Seq(Seq(AnyChar))
  PROVE  /\ Scan(Fresh(st), <<"/">>) = Fresh(st)
         /\ Scan(Fresh(st), <<".", "/">>) = Fresh(st)
         /\ Scan(Fresh(<<>>), <<".", ".", "/">>) = Fresh(<<>>)
         /\ \A x \in Seq(AnyChar) :
              NoSlash(x) /\ x \notin {<<>>, <<".">>, <<".", ".">>} =>
                /\ Push(st, x) = Append(st, x) /\ Append(st, x) \in Seq(Seq(AnyChar))
                /\ Scan(Fresh(st), Append(x, "/") \o <<".", ".", "/">>) = Fresh(st)
<1>1. /\ <<>> \in Seq(AnyChar) /\ <<".">> \in Seq(AnyChar) /\ <<".", ".">> \in Seq(AnyChar)
      /\ <<>> \in Seq(Seq(AnyChar))
      /\ NoSlash(<<>>) /\ NoSlash(<<".">>) /\ NoSlash(<<".", ".">>)
      /\ <<".", ".", "/">> \in Seq(AnyChar)
  BY DEF AnyChar, NoSlash
<1>2. /\ Append(<<>>, "/") = <<"/">> /\ Append(<<".">>, "/") = <<".", "/">>
      /\ Append(<<".", ".">>, "/") = <<".", ".", "/">>
  <2>1. Append(<<>>, "/") = <<"/">>
    OBVIOUS
  <2>2. Append(<<".">>, "/") = <<".", "/">>
    <3>1. PICK a \in Seq(AnyChar), b \in Seq(AnyChar) : a = Append(<<".">>, "/") /\ b = <<".", "/">>
      <4>1. <<".", "/">> \in Seq(AnyChar)
        BY DEF AnyChar
      <4>2. Append(<<".">>, "/") \in Seq(AnyChar)
        BY <1>1, AppendProperties DEF AnyChar
      <4>. QED
        BY <4>1, <4>2, Zenon
    <3>2. Len(a) = 2 /\ a[1] = "." /\ a[2] = "/"
      BY <1>1, <3>1, AppendProperties DEF AnyChar
    <3>3. Len(b) = 2 /\ b[1] = "." /\ b[2] = "/"
      BY <3>1
    <3>4. \A k \in 1 .. Len(a) : a[k] = b[k]
      BY <3>2, <3>3
    <3>5. a = b
      BY <3>2, <3>3, <3>4, SeqEqual
    <3>. QED
      BY <3>1, <3>5
  <2>3. Append(<<".", ".">>, "/") = <<".", ".", "/">>
    <3>1. PICK a \in Seq(AnyChar), b \in Seq(AnyChar) : a = Append(<<".", ".">>, "/") /\ b = <<".", ".", "/">>
      BY <1>1, AppendProperties DEF AnyChar
    <3>2. Len(a) = 3 /\ a[1] = "." /\ a[2] = "." /\ a[3] = "/"
      BY <1>1, <3>1, AppendProperties DEF AnyChar
    <3>3. Len(b) = 3 /\ b[1] = "." /\ b[2] = "." /\ b[3] = "/"
      BY <3>1
    <3>4. \A k \in 1 .. Len(a) : a[k] = b[k]
      BY <3>2, <3>3
    <3>5. a = b
      BY <3>2, <3>3, <3>4, SeqEqual
    <3>. QED
      BY <3>1, <3>5
  <2>. QED
    BY <2>1, <2>2, <2>3
<1>3. ASSUME NEW t \in Seq(Seq(AnyChar)), NEW y \in Seq(AnyChar), NoSlash(y)
      PROVE  Scan(Fresh(t), Append(y, "/")) = Fresh(Push(t, y))
  BY <1>3, FreshType, ReadName, ScanSlash
<1>4. Push(st, <<>>) = st /\ Push(st, <<".">>) = st /\ Push(<<>>, <<".", ".">>) = <<>>
  BY DEF Push
<1>5. ASSUME NEW x \in Seq(AnyChar), NoSlash(x), x \notin {<<>>, <<".">>, <<".", ".">>}
      PROVE  /\ Push(st, x) = Append(st, x) /\ Append(st, x) \in Seq(Seq(AnyChar))
             /\ Scan(Fresh(st), Append(x, "/") \o <<".", ".", "/">>) = Fresh(st)
  <2>1. Push(st, x) = Append(st, x)
    BY <1>5 DEF Push
  <2>2. Push(Append(st, x), <<".", ".">>) = st
    <3>1. /\ Append(st, x) # <<>> /\ Append(st, x) \in Seq(Seq(AnyChar)) /\ Len(st) \in Nat
          /\ Len(Append(st, x)) = Len(st) + 1 /\ \A k \in 1 .. Len(st) : Append(st, x)[k] = st[k]
      BY AppendProperties, LenProperties
    <3>. DEFINE f == Front(Append(st, x))
    <3>2. f \in Seq(Seq(AnyChar)) /\ Len(f) = Len(st) /\ \A k \in 1 .. Len(st) : f[k] = st[k]
      <4>1. PICK t \in Seq(Seq(AnyChar)) : t = Append(st, x)
        BY <3>1
      <4>2. Front(t) \in Seq(Seq(AnyChar)) /\ Len(Front(t)) = Len(t) - 1
            /\ \A k \in 1 .. Len(t) - 1 : Front(t)[k] = t[k]
        BY <3>1, <4>1, FrontOfSeq
      <4>. QED
        BY <3>1, <4>1, <4>2
    <3>3. f = st
      <4>. HIDE DEF f
      <4>. QED
        BY <3>2, SeqEqual
    <3>4. <<".", ".">> # <<>> /\ <<".", ".">> # <<".">>
      <4>1. Len(<<".", ".">>) = 2 /\ Len(<<".">>) = 1 /\ Len(<<>>) = 0
        OBVIOUS
      <4>. QED
        BY <4>1
    <3>. QED
      BY <3>1, <3>3, <3>4 DEF Push
  <2>3. Append(st, x) \in Seq(Seq(AnyChar)) /\ Append(x, "/") \in Seq(AnyChar)
    BY AppendProperties DEF AnyChar
  <2>4. Scan(Fresh(st), Append(x, "/") \o <<".", ".", "/">>)
          = Scan(Fresh(Append(st, x)), <<".", ".", "/">>)
    <3>1. PICK a \in Seq(AnyChar), b \in Seq(AnyChar) : a = Append(x, "/") /\ b = <<".", ".", "/">>
      BY <1>1, <2>3
    <3>2. Scan(Fresh(st), a \o b) = Scan(Scan(Fresh(st), a), b)
      BY ScanConcat, FreshType
    <3>. QED
      BY <1>3, <1>5, <2>1, <3>1, <3>2
  <2>. QED
    BY <1>1, <1>2, <1>3, <2>1, <2>2, <2>3, <2>4
<1>. QED
  BY <1>1, <1>2, <1>3, <1>4, <1>5

-----------------------------------------------------------------------------
(* Written is the fold of the concatenation. *)
Add(text, name) == text \o <<"/">> \o name
Writes(r, st) ==
  r = [k \in 0 .. Len(st) |-> IF k = 0 THEN <<>> ELSE Add(r[k - 1], st[k])]

LEMMA WrittenRun ==
  ASSUME NEW st \in Seq(Seq(AnyChar))
  PROVE  \E r \in [0 .. Len(st) -> Seq(AnyChar)] : Writes(r, st)
<1>. DEFINE n == Len(st)
            T == Seq(AnyChar)
            F == [p \in (1 .. n) \X T |-> Add(p[2], st[p[1]])]
<1>1. n \in Nat /\ \A k \in 1 .. n : st[k] \in T
  BY LenProperties, ElementOfSeq
<1>2. <<>> \in T /\ <<"/">> \in T
  BY EmptySeq DEF AnyChar
<1>3. \A a \in T, b \in T : Add(a, b) \in T
  <2>. HIDE DEF AnyChar
  <2>. QED
    BY <1>2, ConcatProperties DEF Add
<1>. HIDE DEF T
<1>4. F \in [(1 .. n) \X T -> T]
  BY <1>1, <1>3
<1>5. PICK r \in [0 .. n -> T] : Runs(r, n, F, <<>>)
  <2>. HIDE DEF F, n
  <2>. QED
    BY <1>1, <1>2, <1>4, Recursion
<1>6. ASSUME NEW k \in 0 .. n, k # 0 PROVE F[<<k, r[k - 1]>>] = Add(r[k - 1], st[k])
  <2>1. k \in 1 .. n /\ k - 1 \in 0 .. n
    BY <1>1, <1>6
  <2>2. r[k - 1] \in T
    BY <2>1
  <2>. QED
    BY <2>1, <2>2
<1>7. Writes(r, st)
  BY <1>5, <1>6 DEF Runs, Writes
<1>. QED
  BY <1>7 DEF T

LEMMA WrittenIs ==
  ASSUME NEW st \in Seq(Seq(AnyChar)), NEW r, Writes(r, st)
  PROVE  Written(st) = r[Len(st)]
<1>. DEFINE g == CHOOSE q : Writes(q, st)
            S == {k \in Nat : k <= Len(st) => g[k] = r[k]}
<1>1. Writes(g, st)
  OBVIOUS
<1>2. Written(st) = g[Len(st)]
  BY DEF Written, Writes, Add
<1>3. Len(st) \in Nat
  BY LenProperties
<1>. HIDE DEF g
<1>4. 0 \in S
  BY <1>1, <1>3 DEF Writes
<1>5. ASSUME NEW k \in Nat, k \in S PROVE k + 1 \in S
  <2>. SUFFICES ASSUME k + 1 <= Len(st) PROVE g[k + 1] = r[k + 1]
    OBVIOUS
  <2>1. g[k] = r[k] /\ k + 1 \in 0 .. Len(st) /\ k + 1 # 0 /\ k + 1 - 1 = k
    BY <1>3, <1>5
  <2>2. g[k + 1] = Add(g[k], st[k + 1]) /\ r[k + 1] = Add(r[k], st[k + 1])
    BY <1>1, <2>1 DEF Writes
  <2>. QED
    BY <2>1, <2>2
<1>6. Len(st) \in S
  <2>. HIDE DEF S
  <2>. QED
    BY <1>3, <1>4, <1>5, Induct
<1>. QED
  BY <1>2, <1>6

LEMMA WrittenEmpty == Written(<<>>) = <<>>
<1>1. <<>> \in Seq(Seq(AnyChar)) /\ Len(<<>>) = 0
  BY EmptySeq
<1>2. PICK r \in [0 .. 0 -> Seq(AnyChar)] : Writes(r, <<>>)
  BY <1>1, WrittenRun
<1>. QED
  BY <1>1, <1>2, WrittenIs DEF Writes

LEMMA WrittenAppend ==
  ASSUME NEW st \in Seq(Seq(AnyChar)), NEW c \in Seq(AnyChar)
  PROVE  Written(Append(st, c)) = Add(Written(st), c) /\ Written(st) \in Seq(AnyChar)
<1>. DEFINE t == Append(st, c)
            n == Len(st)
<1>1. /\ n \in Nat /\ t \in Seq(Seq(AnyChar)) /\ Len(t) = n + 1 /\ t[n + 1] = c
      /\ \A k \in 1 .. n : t[k] = st[k]
  BY LenProperties, AppendProperties
<1>2. PICK r \in [0 .. n + 1 -> Seq(AnyChar)] : Writes(r, t)
  <2>. HIDE DEF t, n
  <2>. QED
    BY <1>1, WrittenRun
<1>. DEFINE q == [k \in 0 .. n |-> r[k]]
<1>3. ASSUME NEW k \in 0 .. n PROVE q[k] = IF k = 0 THEN <<>> ELSE Add(q[k - 1], st[k])
  <2>1. /\ k \in 0 .. n + 1 /\ q[k] = r[k]
        /\ k # 0 => k \in 1 .. n /\ k - 1 \in 0 .. n /\ q[k - 1] = r[k - 1]
    BY <1>1
  <2>2. r[k] = IF k = 0 THEN <<>> ELSE Add(r[k - 1], t[k])
    <3>. HIDE DEF q, t, n
    <3>. QED
      BY <1>1, <1>2, <2>1 DEF Writes
  <2>. HIDE DEF q, t, n
  <2>. QED
    BY <1>1, <2>1, <2>2
<1>4. Writes(q, st)
  BY <1>3 DEF Writes
<1>5. Written(st) = r[n] /\ Written(t) = r[n + 1]
  <2>1. Written(st) = q[n]
    BY <1>4, WrittenIs
  <2>2. q[n] = r[n]
    BY <1>1
  <2>. HIDE DEF t, n
  <2>3. Written(t) = r[n + 1]
    BY <1>1, <1>2, WrittenIs
  <2>. QED
    BY <2>1, <2>2, <2>3
<1>6. r[n + 1] = Add(r[n], c) /\ r[n] \in Seq(AnyChar)
  <2>. HIDE DEF t, n
  <2>1. n + 1 \in 0 .. n + 1 /\ n \in 0 .. n + 1 /\ n + 1 # 0 /\ n + 1 - 1 = n
    BY <1>1
  <2>2. r[n + 1] = Add(r[n + 1 - 1], t[n + 1])
    BY <1>1, <1>2, <2>1 DEF Writes
  <2>3. r[n] \in Seq(AnyChar)
    BY <1>2, <2>1
  <2>. QED
    BY <1>1, <2>1, <2>2, <2>3
<1>. QED
  BY <1>5, <1>6

-----------------------------------------------------------------------------
(* What the three loops remove, up to position n of a path. *)
NoDouble(t, n) == \A k \in 1 .. n : k + 1 <= Len(t) => ~(t[k] = "/" /\ t[k + 1] = "/")
NoDot(t, n) ==
  \A k \in 1 .. n : k + 2 <= Len(t) => ~(t[k] = "/" /\ t[k + 1] = "." /\ t[k + 2] = "/")
NoUp(t, n) ==
  \A k \in 1 .. n : k + 3 <= Len(t) =>
    ~(t[k] = "/" /\ t[k + 1] = "." /\ t[k + 2] = "." /\ t[k + 3] = "/")

(* A path between two slashes. *)
Slashed(t) == t \in Seq(AnyChar) /\ Len(t) >= 1 /\ t[1] = "/" /\ t[Len(t)] = "/"
Clean(t) == Slashed(t) /\ NoDouble(t, Len(t)) /\ NoDot(t, Len(t)) /\ NoUp(t, Len(t))

(* What is between two slashes in a clean path is a name. *)
LEMMA Component ==
  ASSUME NEW t \in Seq(AnyChar), NEW j \in Nat, NEW k \in Nat,
         1 <= j, j <= k, k + 1 <= Len(t), t[j] = "/", t[k + 1] = "/",
         \A m \in j + 1 .. k : t[m] # "/",
         NoDouble(t, j), NoDot(t, j), NoUp(t, j)
  PROVE  /\ SubSeq(t, j + 1, k) \in Seq(AnyChar)
         /\ NoSlash(SubSeq(t, j + 1, k)) /\ j < k
         /\ SubSeq(t, j + 1, k) \notin {<<>>, <<".">>, <<".", ".">>}
<1>. DEFINE x == SubSeq(t, j + 1, k)
<1>0. Len(t) \in Nat
  BY LenProperties
<1>1. j < k
  BY <1>0 DEF NoDouble
<1>2. /\ x \in Seq(AnyChar) /\ Len(x) = k - j
      /\ \A m \in Nat : m >= 1 /\ m <= k - j => x[m] = t[j + m]
  <2>1. j + 1 \in Nat /\ j + 1 >= 1 /\ k <= Len(t)
    BY <1>0
  <2>2. /\ x \in Seq(AnyChar) /\ Len(x) = k - (j + 1) + 1
        /\ \A m \in Nat : m >= 1 /\ m <= k - (j + 1) + 1 => x[m] = t[j + 1 + m - 1]
    BY <1>1, <2>1, Sub
  <2>. HIDE DEF x
  <2>. QED
    BY <1>1, <2>2
<1>. HIDE DEF x
<1>3. NoSlash(x)
  <2>1. ASSUME NEW m \in 1 .. Len(x) PROVE x[m] # "/"
    <3>1. m \in Nat /\ x[m] = t[j + m] /\ j + m \in j + 1 .. k
      BY <1>0, <1>1, <1>2
    <3>. QED
      BY <3>1
  <2>. QED
    BY <2>1 DEF NoSlash
<1>4. x # <<>>
  BY <1>1, <1>2
<1>5. x # <<".">>
  <2>. SUFFICES ASSUME x = <<".">> PROVE FALSE
    OBVIOUS
  <2>1. k - j = 1 /\ x[1] = "."
    BY <1>2
  <2>2. k + 1 = j + 2 /\ t[j + 1] = "."
    BY <1>2, <2>1
  <2>. QED
    BY <1>0, <2>2 DEF NoDot
<1>6. x # <<".", ".">>
  <2>. SUFFICES ASSUME x = <<".", ".">> PROVE FALSE
    OBVIOUS
  <2>1. k - j = 2 /\ x[1] = "." /\ x[2] = "."
    BY <1>2
  <2>2. k + 1 = j + 3 /\ t[j + 1] = "." /\ t[j + 2] = "."
    BY <1>2, <2>1
  <2>. QED
    BY <1>0, <2>2 DEF NoUp
<1>. QED
  BY <1>1, <1>2, <1>3, <1>4, <1>5, <1>6 DEF x

-----------------------------------------------------------------------------
LEMMA SubAppend ==
  ASSUME NEW t \in Seq(AnyChar), NEW m \in Nat, NEW n \in Nat,
         1 <= m, m <= n + 1, n + 1 <= Len(t)
  PROVE  /\ SubSeq(t, m, n) \in Seq(AnyChar) /\ t[n + 1] \in AnyChar
         /\ SubSeq(t, m, n + 1) = Append(SubSeq(t, m, n), t[n + 1])
<1>. HIDE DEF AnyChar
<1>1. Len(t) \in Nat
  BY LenProperties
<1>2. m \in 1 .. Len(t) /\ n + 1 \in m .. Len(t) /\ n + 1 \in 1 .. Len(t)
  BY <1>1
<1>3. SubSeq(t, m, n) \in Seq(AnyChar) /\ t[n + 1] \in AnyChar
  BY <1>1, <1>2, Sub, ElementOfSeq
<1>4. SubSeq(t, m, n + 1) = SubSeq(t, m, n + 1 - 1) \o <<t[n + 1]>>
  BY <1>2, SubSeqRecursiveSecond
<1>5. n + 1 - 1 = n
  OBVIOUS
<1>6. SubSeq(t, m, n) \o <<t[n + 1]>> = Append(SubSeq(t, m, n), t[n + 1])
  BY <1>3, AppendIsConcat
<1>. QED
  BY <1>3, <1>4, <1>5, <1>6

LEMMA Rejoin ==
  ASSUME NEW t \in Seq(AnyChar), NEW j \in Nat, NEW k \in Nat,
         1 <= j, j <= k, k <= Len(t), t[j] = "/"
  PROVE  Add(SubSeq(t, 1, j - 1), SubSeq(t, j + 1, k)) = SubSeq(t, 1, k)
<1>. HIDE DEF AnyChar
<1>1. Len(t) \in Nat
  BY LenProperties
<1>2. SubSeq(t, 1, j) = SubSeq(t, 1, j - 1) \o <<"/">>
  <2>1. 1 \in 1 .. Len(t) /\ j \in 1 .. Len(t)
    BY <1>1
  <2>. QED
    BY <2>1, SubSeqRecursiveSecond
<1>3. SubSeq(t, 1, j) \o SubSeq(t, j + 1, k) = SubSeq(t, 1, k)
  <2>1. 1 \in 1 .. Len(t) + 1 /\ j \in 1 - 1 .. Len(t) /\ k \in j .. Len(t)
    BY <1>1
  <2>. QED
    BY <2>1, ConcatAdjacentSubSeq
<1>. QED
  BY <1>2, <1>3 DEF Add

(* A clean path is what it denotes, written out. *)
Spelled(t, k) ==
  \E j \in 1 .. k, st \in Seq(Seq(AnyChar)) :
    /\ t[j] = "/" /\ \A m \in j + 1 .. k : t[m] # "/"
    /\ Scan(Fresh(<<>>), SubSeq(t, 1, k)) = [stack |-> st, cur |-> SubSeq(t, j + 1, k)]
    /\ Written(st) = SubSeq(t, 1, j - 1)

LEMMA SpelledStep ==
  ASSUME NEW t, Clean(t), NEW k \in Nat, 1 <= k, k + 1 <= Len(t), Spelled(t, k)
  PROVE  Spelled(t, k + 1)
<1>0. t \in Seq(AnyChar) /\ Len(t) \in Nat
  BY LenProperties DEF Clean, Slashed
<1>1. PICK j \in 1 .. k, st \in Seq(Seq(AnyChar)) :
        /\ t[j] = "/" /\ \A m \in j + 1 .. k : t[m] # "/"
        /\ Scan(Fresh(<<>>), SubSeq(t, 1, k)) = [stack |-> st, cur |-> SubSeq(t, j + 1, k)]
        /\ Written(st) = SubSeq(t, 1, j - 1)
  BY DEF Spelled
<1>2. j \in Nat /\ 1 <= j /\ j <= k /\ k <= Len(t) /\ j + 1 \in Nat /\ 1 <= j + 1 /\ j + 1 <= k + 1
  BY <1>0, <1>1
<1>. DEFINE x == SubSeq(t, j + 1, k)
            p == SubSeq(t, 1, k)
<1>3. x \in Seq(AnyChar) /\ SubSeq(t, j + 1, k + 1) = Append(x, t[k + 1])
  BY <1>0, <1>2, SubAppend
<1>4. p \in Seq(AnyChar) /\ t[k + 1] \in AnyChar /\ SubSeq(t, 1, k + 1) = Append(p, t[k + 1])
  BY <1>0, SubAppend
<1>. HIDE DEF AnyChar, x, p
<1>5. Fresh(<<>>) \in Reader
  BY FreshType, EmptySeq
<1>6. Scan(Fresh(<<>>), SubSeq(t, 1, k + 1)) = Read([stack |-> st, cur |-> x], t[k + 1])
  <2>1. Scan(Fresh(<<>>), p) = [stack |-> st, cur |-> x]
    BY <1>1 DEF x, p
  <2>. QED
    BY <1>4, <1>5, <2>1, ScanAppend
<1>7. CASE t[k + 1] # "/"
  <2>1. Read([stack |-> st, cur |-> x], t[k + 1]) = [stack |-> st, cur |-> SubSeq(t, j + 1, k + 1)]
    BY <1>3, <1>7 DEF Read
  <2>2. \A m \in j + 1 .. k + 1 : t[m] # "/"
    BY <1>1, <1>7
  <2>3. j \in 1 .. k + 1
    BY <1>2
  <2>. QED
    BY <1>1, <1>6, <2>1, <2>2, <2>3 DEF Spelled
<1>8. CASE t[k + 1] = "/"
  <2>1. NoSlash(x) /\ x \notin {<<>>, <<".">>, <<".", ".">>}
    <3>1. NoDouble(t, j) /\ NoDot(t, j) /\ NoUp(t, j)
      BY <1>0, <1>2 DEF Clean, NoDouble, NoDot, NoUp
    <3>. QED
      BY <1>0, <1>1, <1>2, <1>8, <3>1, Component DEF x
  <2>2. Push(st, x) = Append(st, x) /\ Append(st, x) \in Seq(Seq(AnyChar))
    BY <1>3, <2>1, NothingRead
  <2>3. SubSeq(t, k + 1 + 1, k + 1) = <<>>
    BY SubSeqEmpty
  <2>4. Read([stack |-> st, cur |-> x], t[k + 1])
          = [stack |-> Append(st, x), cur |-> SubSeq(t, k + 1 + 1, k + 1)]
    BY <1>8, <2>2, <2>3 DEF Read
  <2>5. Written(Append(st, x)) = SubSeq(t, 1, k + 1 - 1)
    <3>1. Written(Append(st, x)) = Add(SubSeq(t, 1, j - 1), x)
      BY <1>1, <1>3, WrittenAppend
    <3>2. Add(SubSeq(t, 1, j - 1), x) = SubSeq(t, 1, k)
      BY <1>0, <1>1, <1>2, Rejoin DEF x
    <3>3. k + 1 - 1 = k
      OBVIOUS
    <3>. QED
      BY <3>1, <3>2, <3>3
  <2>6. \A m \in k + 1 + 1 .. k + 1 : t[m] # "/"
    OBVIOUS
  <2>7. k + 1 \in 1 .. k + 1
    OBVIOUS
  <2>8. PICK new \in Seq(Seq(AnyChar)), h \in 1 .. k + 1 : new = Append(st, x) /\ h = k + 1
    BY <2>2, <2>7
  <2>9. /\ t[h] = "/" /\ \A m \in h + 1 .. k + 1 : t[m] # "/"
        /\ Scan(Fresh(<<>>), SubSeq(t, 1, k + 1)) = [stack |-> new, cur |-> SubSeq(t, h + 1, k + 1)]
        /\ Written(new) = SubSeq(t, 1, h - 1)
    BY <1>6, <1>8, <2>4, <2>5, <2>6, <2>8
  <2>. QED
    BY <2>9, Zenon DEF Spelled
<1>. QED
  BY <1>7, <1>8

LEMMA CleanWritten ==
  ASSUME NEW s \in Seq(AnyChar), Clean(Append(s, "/"))
  PROVE  Written(Denotes(<<>>, s)) = s
<1>. DEFINE t == Append(s, "/")
            n == Len(t)
<1>1. /\ t \in Seq(AnyChar) /\ n = Len(s) + 1 /\ n \in Nat /\ t[n] = "/" /\ Clean(t)
      /\ t[1] = "/"
  <2>1. "/" \in AnyChar /\ Len(s) \in Nat
    BY LenProperties DEF AnyChar
  <2>. QED
    BY <2>1, AppendProperties DEF Clean, Slashed
<1>2. Denotes(<<>>, s) = Scan(Fresh(<<>>), t).stack
  BY DEF Denotes, Fresh
<1>3. SubSeq(t, 1, n - 1) = s /\ SubSeq(t, 1, n) = t
  <2>1. SubSeq(t, 1, n) = t
    BY <1>1, SubSeqFull
  <2>2. SubSeq(t, 1, n) = Append(SubSeq(t, 1, Len(s)), "/") /\ SubSeq(t, 1, Len(s)) \in Seq(AnyChar)
    <3>1. Len(s) \in Nat
      BY LenProperties
    <3>. HIDE DEF t
    <3>. QED
      BY <1>1, <3>1, SubAppend
  <2>3. SubSeq(t, 1, Len(s)) = s
    <3>1. "/" \in AnyChar
      BY DEF AnyChar
    <3>. QED
      BY <2>1, <2>2, <3>1, AppendInjective
  <2>4. n - 1 = Len(s)
    <3>1. Len(s) \in Nat
      BY LenProperties
    <3>. QED
      BY <1>1, <3>1
  <2>. QED
    BY <2>1, <2>3, <2>4
<1>. HIDE DEF t, n
<1>. DEFINE S == {k \in Nat : k + 1 <= n => Spelled(t, k + 1)}
<1>4. 0 \in S
  <2>1. SubSeq(t, 1, 1) = <<"/">>
    <3>1. Len(t) = n /\ Len(s) \in Nat
      BY LenProperties DEF n
    <3>2. SubSeq(t, 1, 0 + 1) = Append(SubSeq(t, 1, 0), t[0 + 1])
      BY <1>1, <3>1, SubAppend
    <3>3. SubSeq(t, 1, 0) = <<>>
      BY SubSeqEmpty
    <3>4. 0 + 1 = 1 /\ Append(<<>>, "/") = <<"/">>
      OBVIOUS
    <3>. QED
      BY <1>1, <3>2, <3>3, <3>4, Zenon
  <2>2. Scan(Fresh(<<>>), SubSeq(t, 1, 1)) = [stack |-> <<>>, cur |-> SubSeq(t, 1 + 1, 1)]
    <3>1. SubSeq(t, 1 + 1, 1) = <<>>
      BY SubSeqEmpty
    <3>. QED
      BY <2>1, <3>1, NothingRead, EmptySeq DEF Fresh
  <2>3. Written(<<>>) = SubSeq(t, 1, 1 - 1)
    <3>1. SubSeq(t, 1, 1 - 1) = <<>>
      BY SubSeqEmpty
    <3>. QED
      BY <3>1, WrittenEmpty
  <2>4. Spelled(t, 1)
    <3>1. <<>> \in Seq(Seq(AnyChar)) /\ 1 \in 1 .. 1 /\ \A m \in 1 + 1 .. 1 : t[m] # "/"
      BY EmptySeq
    <3>. QED
      BY <1>1, <2>2, <2>3, <3>1 DEF Spelled
  <2>. QED
    BY <2>4
<1>5. ASSUME NEW k \in Nat, k \in S PROVE k + 1 \in S
  BY <1>1, <1>5, SpelledStep DEF n
<1>6. Spelled(t, n)
  <2>1. n - 1 \in Nat /\ n - 1 + 1 = n
    <3>1. Len(s) \in Nat
      BY LenProperties
    <3>. QED
      BY <1>1, <3>1
  <2>2. n - 1 \in S
    <3>. HIDE DEF S
    <3>. QED
      BY <1>4, <1>5, <2>1, Induct
  <2>. QED
    BY <1>1, <2>1, <2>2
<1>7. PICK j \in 1 .. n, st \in Seq(Seq(AnyChar)) :
        /\ t[j] = "/" /\ \A m \in j + 1 .. n : t[m] # "/"
        /\ Scan(Fresh(<<>>), SubSeq(t, 1, n)) = [stack |-> st, cur |-> SubSeq(t, j + 1, n)]
        /\ Written(st) = SubSeq(t, 1, j - 1)
  BY <1>6 DEF Spelled
<1>8. j = n
  BY <1>1, <1>7
<1>9. Scan(Fresh(<<>>), t).stack = st
  <2>1. \A y : [stack |-> st, cur |-> y].stack = st
    OBVIOUS
  <2>. QED
    BY <1>3, <1>7, <2>1, Zenon
<1>. QED
  BY <1>2, <1>3, <1>7, <1>8, <1>9, Zenon

-----------------------------------------------------------------------------
(* The path that is asked for: with a drive of its own, and what it        *)
(* denotes.                                                                *)
From(path) ==
  IF HasOwnDrive(path) \/ (Absolute(path) /\ get_drive(cwd) # <<>>)
    THEN <<>> ELSE Denotes(<<>>, Rest(cwd))
Named == HasOwnDrive(asked)
Goal == Denotes(From(asked), IF Named THEN Rest(asked) ELSE asked)

(* No edit changes what the path in the buffer denotes. *)
Meaning ==
  pc \notin {"idle", "corrupt"} =>
    /\ drive = get_drive(IF Named THEN asked ELSE cwd)
    /\ Denotes(<<>>, out) = Goal

(* How far the loops have come. *)
Edited ==
  /\ pc \in {"slashes", "dots", "parents"} => Slashed(out)
  /\ pc = "slashes" => NoDouble(out, i - 1)
  /\ pc \in {"dots", "parents"} => NoDouble(out, Len(out))
  /\ pc = "dots" => NoDot(out, i - 1)
  /\ pc = "parents" =>
       /\ NoDot(out, Len(out)) /\ NoUp(out, next - 1)
       /\ first \in 1 .. next /\ next <= Len(out) /\ out[first] = "/" /\ out[next] = "/"
       /\ \A m \in first + 1 .. next - 1 : out[m] # "/"
       /\ first = next => first = 1
  /\ pc = "trailing" => Clean(out)
  /\ pc = "resolved" => out \in Seq(AnyChar) /\ Clean(Append(out, "/"))

Home == Clean(Append(Rest(cwd), "/"))

RInv == IInv /\ Meaning /\ Edited /\ Home

-----------------------------------------------------------------------------
(* A drive ends at the first colon. *)
LEMMA DriveEnds ==
  ASSUME NEW d \in Seq(AnyChar), NEW k \in 1 .. Len(d), d[k] = ":",
         \A j \in 1 .. k - 1 : d[j] = "a"
  PROVE  get_drive(d) = SubSeq(d, 1, k) /\ Len(get_drive(d)) = k
<1>. DEFINE colons == {m \in 1 .. Len(d) : d[m] = ":" /\ \A j \in 1 .. m - 1 : d[j] = "a"}
<1>0. Len(d) \in Nat
  BY LenProperties
<1>1. k \in colons
  OBVIOUS
<1>2. \A m \in colons : m = k
  <2>. SUFFICES ASSUME NEW m \in colons PROVE m = k
    OBVIOUS
  <2>1. m \in Nat /\ k \in Nat /\ m >= 1 /\ k >= 1
    BY <1>0
  <2>2. ~(m < k)
    BY <2>1
  <2>3. ~(k < m)
    BY <2>1
  <2>. QED
    BY <2>1, <2>2, <2>3
<1>3. (CHOOSE m \in colons : TRUE) = k
  <2>. HIDE DEF colons
  <2>. QED
    BY <1>1, <1>2
<1>4. get_drive(d) = SubSeq(d, 1, CHOOSE m \in colons : TRUE)
  BY <1>1 DEF get_drive
<1>5. get_drive(d) = SubSeq(d, 1, k)
  <2>. HIDE DEF colons
  <2>. QED
    BY <1>3, <1>4
<1>6. Len(SubSeq(d, 1, k)) = k
  <2>1. k \in Nat /\ 1 <= k /\ k <= Len(d)
    BY <1>0
  <2>2. Len(SubSeq(d, 1, k)) = k - 1 + 1
    BY <2>1, Sub
  <2>. QED
    BY <2>1, <2>2
<1>. QED
  BY <1>5, <1>6

(* What follows a drive does not change it. *)
LEMMA DriveStays ==
  ASSUME NEW d \in Seq(AnyChar), NEW r \in Seq(AnyChar), HasDrive(d)
  PROVE  get_drive(d \o r) = get_drive(d) /\ Rest(d \o r) = Rest(d) \o r
<1>. DEFINE s == d \o r
<1>1. /\ Len(d) \in Nat /\ Len(r) \in Nat /\ Len(s) = Len(d) + Len(r) /\ s \in Seq(AnyChar)
      /\ \A j \in 1 .. Len(d) + Len(r) : s[j] = IF j <= Len(d) THEN d[j] ELSE r[j - Len(d)]
  BY ConcatProperties, LenProperties
<1>2. PICK k \in 1 .. Len(d) : d[k] = ":" /\ \A j \in 1 .. k - 1 : d[j] = "a"
  BY DEF HasDrive
<1>. HIDE DEF s, AnyChar
<1>3. k \in 1 .. Len(s) /\ s[k] = ":" /\ \A j \in 1 .. k - 1 : s[j] = "a"
  BY <1>1, <1>2
<1>4. get_drive(d) = SubSeq(d, 1, k) /\ Len(get_drive(d)) = k
  BY <1>2, DriveEnds
<1>5. get_drive(s) = SubSeq(s, 1, k) /\ Len(get_drive(s)) = k
  BY <1>1, <1>3, DriveEnds
<1>6. SubSeq(s, 1, k) = SubSeq(d, 1, k)
  <2>1. 1 \in 1 .. Len(d) /\ k \in 1 .. Len(d)
    BY <1>1, <1>2
  <2>. QED
    BY <2>1, SubSeqOfConcat1 DEF s
<1>7. Rest(s) = SubSeq(s, k + 1, Len(s)) /\ Rest(d) = SubSeq(d, k + 1, Len(d))
  BY <1>4, <1>5 DEF Rest
<1>8. Rest(s) = Rest(d) \o r
  <2>. DEFINE a == Rest(s)
              e == Rest(d)
              b == e \o r
  <2>1. k \in Nat /\ k + 1 \in Nat /\ k + 1 >= 1 /\ k >= 1 /\ k <= Len(d)
    BY <1>1, <1>2
  <2>2. /\ a \in Seq(AnyChar) /\ Len(a) = Len(s) - k
        /\ \A j \in Nat : j >= 1 /\ j <= Len(s) - k => a[j] = s[k + j]
    <3>1. /\ a \in Seq(AnyChar)
          /\ k + 1 <= Len(s) => Len(a) = Len(s) - (k + 1) + 1
          /\ k + 1 > Len(s) => Len(a) = 0
          /\ \A j \in Nat : j >= 1 /\ j <= Len(s) - (k + 1) + 1 => a[j] = s[k + 1 + j - 1]
      BY <1>1, <1>7, <2>1, Sub
    <3>. HIDE DEF a
    <3>. QED
      BY <1>1, <2>1, <3>1
  <2>3. /\ e \in Seq(AnyChar) /\ Len(e) = Len(d) - k
        /\ \A j \in Nat : j >= 1 /\ j <= Len(d) - k => e[j] = d[k + j]
    <3>1. /\ e \in Seq(AnyChar)
          /\ k + 1 <= Len(d) => Len(e) = Len(d) - (k + 1) + 1
          /\ k + 1 > Len(d) => Len(e) = 0
          /\ \A j \in Nat : j >= 1 /\ j <= Len(d) - (k + 1) + 1 => e[j] = d[k + 1 + j - 1]
      BY <1>1, <1>7, <2>1, Sub
    <3>. HIDE DEF e
    <3>. QED
      BY <1>1, <2>1, <3>1
  <2>. HIDE DEF a, e
  <2>4. /\ b \in Seq(AnyChar) /\ Len(b) = Len(e) + Len(r)
        /\ \A j \in 1 .. Len(e) + Len(r) : b[j] = IF j <= Len(e) THEN e[j] ELSE r[j - Len(e)]
    BY <2>3, ConcatProperties
  <2>. HIDE DEF b
  <2>5. ASSUME NEW j \in 1 .. Len(a) PROVE a[j] = b[j]
    <3>1. j \in Nat /\ a[j] = s[k + j] /\ k + j \in 1 .. Len(s)
      BY <1>1, <2>1, <2>2
    <3>2. CASE j <= Len(e)
      <4>1. s[k + j] = d[k + j] /\ b[j] = e[j] /\ e[j] = d[k + j]
        BY <1>1, <2>1, <2>2, <2>3, <2>4, <3>1, <3>2
      <4>. QED
        BY <3>1, <4>1
    <3>3. CASE j > Len(e)
      <4>1. s[k + j] = r[k + j - Len(d)] /\ b[j] = r[j - Len(e)] /\ k + j - Len(d) = j - Len(e)
        BY <1>1, <2>1, <2>2, <2>3, <2>4, <3>1, <3>3
      <4>. QED
        BY <3>1, <4>1
    <3>. QED
      BY <2>3, <3>1, <3>2, <3>3
  <2>6. Len(a) = Len(b)
    <3>1. /\ Len(a) = Len(s) - k /\ Len(s) = Len(d) + Len(r)
          /\ Len(b) = Len(e) + Len(r) /\ Len(e) = Len(d) - k
          /\ Len(d) \in Nat /\ Len(r) \in Nat /\ k \in Nat
      BY <1>1, <2>1, <2>2, <2>3, <2>4
    <3>. QED
      BY ONLY <3>1
  <2>7. a = b
    BY <2>2, <2>4, <2>5, <2>6, SeqEqual
  <2>. QED
    BY <2>7 DEF a, b, e
<1>. QED
  BY <1>4, <1>5, <1>6, <1>8 DEF s

(* A drive is its own drive, and nothing follows it. *)
LEMMA DriveOfDrive ==
  ASSUME NEW d \in Seq(AnyChar), HasDrive(d)
  PROVE  /\ get_drive(get_drive(d)) = get_drive(d) /\ Rest(get_drive(d)) = <<>>
         /\ get_drive(d) # <<>>
<1>. DEFINE e == get_drive(d)
<1>0. Len(d) \in Nat
  BY LenProperties
<1>1. PICK k \in 1 .. Len(d) : d[k] = ":" /\ \A j \in 1 .. k - 1 : d[j] = "a"
  BY DEF HasDrive
<1>. HIDE DEF AnyChar
<1>2. e = SubSeq(d, 1, k) /\ Len(e) = k
  BY <1>1, DriveEnds
<1>3. k \in Nat /\ 1 <= k /\ k <= Len(d)
  BY <1>0, <1>1
<1>4. e \in Seq(AnyChar) /\ \A j \in Nat : j >= 1 /\ j <= k => e[j] = d[j]
  <2>1. /\ e \in Seq(AnyChar)
        /\ \A j \in Nat : j >= 1 /\ j <= k - 1 + 1 => e[j] = d[1 + j - 1]
    BY <1>2, <1>3, Sub
  <2>. HIDE DEF e
  <2>. QED
    BY <1>3, <2>1
<1>. HIDE DEF e
<1>5. k \in 1 .. Len(e) /\ e[k] = ":" /\ \A j \in 1 .. k - 1 : e[j] = "a"
  BY <1>1, <1>2, <1>3, <1>4
<1>6. get_drive(e) = SubSeq(e, 1, k)
  BY <1>4, <1>5, DriveEnds
<1>7. get_drive(e) = e
  BY <1>2, <1>4, <1>6, SubSeqFull
<1>8. Rest(e) = <<>>
  <2>1. Rest(e) = SubSeq(e, Len(e) + 1, Len(e))
    BY <1>7 DEF Rest
  <2>. QED
    BY <1>2, <1>3, <2>1, SubSeqEmpty
<1>9. e # <<>>
  BY <1>2, <1>3
<1>. QED
  BY <1>7, <1>8, <1>9 DEF e

-----------------------------------------------------------------------------
(* Cutting m characters between two equal ones, k and k + m. *)
LEMMA CutBetween ==
  ASSUME out \in Seq(AnyChar), NEW k \in Nat, NEW m \in Nat, k >= 1, k + m <= Len(out),
         out[k] = out[k + m]
  PROVE  /\ Cut(k, m) \in Seq(AnyChar) /\ Len(Cut(k, m)) = Len(out) - m /\ Len(out) \in Nat
         /\ \A j \in Nat : j >= 1 /\ j <= k => Cut(k, m)[j] = out[j]
         /\ \A j \in Nat : j >= k /\ j + m <= Len(out) => Cut(k, m)[j] = out[j + m]
<1>. DEFINE a == SubSeq(out, 1, k)
            b == SubSeq(out, k + m + 1, Len(out))
<1>0. Len(out) \in Nat /\ k <= Len(out) /\ k + m + 1 \in Nat /\ k + m + 1 >= 1
  BY LenProperties
<1>1. a \in Seq(AnyChar) /\ Len(a) = k /\ \A j \in Nat : j >= 1 /\ j <= k => a[j] = out[j]
  <2>1. /\ a \in Seq(AnyChar) /\ Len(a) = k - 1 + 1
        /\ \A j \in Nat : j >= 1 /\ j <= k - 1 + 1 => a[j] = out[1 + j - 1]
    BY <1>0, Sub
  <2>. HIDE DEF a, AnyChar
  <2>. QED
    BY <2>1
<1>2. /\ b \in Seq(AnyChar) /\ Len(b) = Len(out) - (k + m)
      /\ \A j \in Nat : j >= 1 /\ j <= Len(out) - (k + m) => b[j] = out[k + m + j]
  <2>1. /\ b \in Seq(AnyChar)
        /\ k + m + 1 <= Len(out) => Len(b) = Len(out) - (k + m + 1) + 1
        /\ k + m + 1 > Len(out) => Len(b) = 0
        /\ \A j \in Nat : j >= 1 /\ j <= Len(out) - (k + m + 1) + 1 => b[j] = out[k + m + 1 + j - 1]
    BY <1>0, Sub
  <2>. HIDE DEF b, AnyChar
  <2>. QED
    BY <1>0, <2>1
<1>3. Cut(k, m) = a \o b
  BY DEF Cut
<1>. HIDE DEF a, b, AnyChar
<1>4. /\ a \o b \in Seq(AnyChar) /\ Len(a \o b) = Len(a) + Len(b)
      /\ \A j \in 1 .. Len(a) + Len(b) : (a \o b)[j] = IF j <= Len(a) THEN a[j] ELSE b[j - Len(a)]
  <2>1. a \in Seq(AnyChar) /\ b \in Seq(AnyChar)
    BY <1>1, <1>2
  <2>. QED
    BY ONLY <2>1, ConcatProperties
<1>. DEFINE c == Cut(k, m)
<1>5. /\ c \in Seq(AnyChar) /\ Len(c) = Len(out) - m
      /\ \A j \in 1 .. Len(out) - m : c[j] = IF j <= k THEN a[j] ELSE b[j - k]
  <2>1. Len(a) + Len(b) = Len(out) - m
    BY <1>0, <1>1, <1>2
  <2>. QED
    BY <1>1, <1>3, <1>4, <2>1
<1>. HIDE DEF c
<1>6. ASSUME NEW j \in Nat, j >= 1, j <= k PROVE c[j] = out[j]
  BY <1>0, <1>1, <1>5, <1>6
<1>7. ASSUME NEW j \in Nat, j >= k, j + m <= Len(out) PROVE c[j] = out[j + m]
  <2>1. CASE j = k
    BY <1>6, <2>1
  <2>2. CASE j > k
    <3>1. c[j] = b[j - k] /\ j - k \in Nat /\ j - k >= 1 /\ j - k <= Len(out) - (k + m)
      BY <1>0, <1>5, <1>7, <2>2
    <3>2. b[j - k] = out[k + m + (j - k)] /\ k + m + (j - k) = j + m
      BY <1>2, <3>1
    <3>. QED
      BY <3>1, <3>2
  <2>. QED
    BY <1>7, <2>1, <2>2
<1>. QED
  BY <1>0, <1>5, <1>6, <1>7 DEF c

(* A path up to a slash is a list of components. *)
LEMMA PrefixFresh ==
  ASSUME NEW t \in Seq(AnyChar), NEW k \in Nat, 1 <= k, k <= Len(t), t[k] = "/"
  PROVE  \E st \in Seq(Seq(AnyChar)) : /\ Scan(Fresh(<<>>), SubSeq(t, 1, k)) = Fresh(st)
                                       /\ k = 1 => st = <<>>
<1>. HIDE DEF AnyChar
<1>1. PICK n \in Nat : n + 1 = k
  <2>1. k - 1 \in Nat /\ k - 1 + 1 = k
    OBVIOUS
  <2>. QED
    BY <2>1
<1>2. SubSeq(t, 1, n) \in Seq(AnyChar) /\ SubSeq(t, 1, k) = Append(SubSeq(t, 1, n), "/")
  BY <1>1, SubAppend
<1>3. Fresh(<<>>) \in Reader /\ <<>> \in Seq(Seq(AnyChar))
  BY FreshType, EmptySeq
<1>4. CASE k = 1
  <2>1. n = 0
    BY <1>1, <1>4
  <2>2. SubSeq(t, 1, n) = <<>>
    BY <2>1, SubSeqEmpty
  <2>3. Append(<<>>, "/") = <<"/">>
    OBVIOUS
  <2>4. SubSeq(t, 1, k) = <<"/">>
    BY <1>2, <2>2, <2>3
  <2>. QED
    BY <1>3, <2>4, NothingRead
<1>5. CASE k # 1
  BY <1>2, <1>3, <1>5, ScanSlash
<1>. QED
  BY <1>4, <1>5

(* Cutting what is read as nothing does not change what a path denotes. *)
LEMMA CutMeaning ==
  ASSUME out \in Seq(AnyChar), NEW k \in Nat, NEW m \in Nat, k >= 1, k + m <= Len(out),
         NEW st \in Seq(Seq(AnyChar)),
         Scan(Fresh(<<>>), SubSeq(out, 1, k)) = Fresh(st),
         Scan(Fresh(st), SubSeq(out, k + 1, k + m)) = Fresh(st)
  PROVE  Denotes(<<>>, Cut(k, m)) = Denotes(<<>>, out)
<1>. HIDE DEF AnyChar
<1>. DEFINE P == SubSeq(out, 1, k)
            M == SubSeq(out, k + 1, k + m)
            Q == SubSeq(out, k + m + 1, Len(out))
<1>0. Len(out) \in Nat /\ k <= Len(out) /\ k + m + 1 \in Nat /\ k + m + 1 >= 1 /\ k + 1 \in Nat
      /\ k + 1 >= 1 /\ k + m \in Nat
  BY LenProperties
<1>1. P \in Seq(AnyChar) /\ M \in Seq(AnyChar) /\ Q \in Seq(AnyChar)
  BY <1>0, Sub
<1>2. (P \o M) \o Q = out
  <2>1. P \o M = SubSeq(out, 1, k + m)
    <3>1. 1 \in 1 .. Len(out) + 1 /\ k \in 1 - 1 .. Len(out) /\ k + m \in k .. Len(out)
      BY <1>0
    <3>. QED
      BY <3>1, ConcatAdjacentSubSeq
  <2>2. SubSeq(out, 1, k + m) \o Q = SubSeq(out, 1, Len(out))
    <3>1. 1 \in 1 .. Len(out) + 1 /\ k + m \in 1 - 1 .. Len(out) /\ Len(out) \in k + m .. Len(out)
      BY <1>0
    <3>. QED
      BY <3>1, ConcatAdjacentSubSeq
  <2>. QED
    BY <2>1, <2>2, SubSeqFull
<1>3. Cut(k, m) = P \o Q
  BY DEF Cut
<1>. DEFINE R == Append(Q, "/")
<1>4. R \in Seq(AnyChar) /\ "/" \in AnyChar
  BY <1>1, AppendProperties DEF AnyChar
<1>. HIDE DEF P, M, Q
<1>5. P \o M \in Seq(AnyChar)
  BY <1>1, ConcatProperties
<1>6. Append(Cut(k, m), "/") = P \o R /\ Append(out, "/") = (P \o M) \o R
  <2>1. P \o Append(Q, "/") = Append(P \o Q, "/")
    BY <1>1, <1>4, ConcatAppend
  <2>2. PICK PM \in Seq(AnyChar) : PM = P \o M
    BY <1>5
  <2>3. PM \o Append(Q, "/") = Append(PM \o Q, "/")
    <3>1. PM \in Seq(AnyChar)
      OBVIOUS
    <3>. QED
      BY ONLY <1>1, <1>4, <3>1, ConcatAppend
  <2>. QED
    BY <1>2, <1>3, <2>1, <2>2, <2>3
<1>. HIDE DEF R
<1>7. Fresh(<<>>) \in Reader
  BY FreshType, EmptySeq
<1>8. Scan(Fresh(<<>>), P) = Fresh(st) /\ Scan(Fresh(st), M) = Fresh(st)
  BY DEF P, M
<1>9. Scan(Fresh(<<>>), P \o R) = Scan(Fresh(st), R)
  BY <1>1, <1>4, <1>7, <1>8, ScanConcat
<1>10. Scan(Fresh(<<>>), P \o M) = Fresh(st)
  BY <1>1, <1>7, <1>8, ScanConcat
<1>11. Scan(Fresh(<<>>), (P \o M) \o R) = Scan(Fresh(st), R)
  <2>1. PICK PM \in Seq(AnyChar) : PM = P \o M
    BY <1>5
  <2>2. Scan(Fresh(<<>>), PM \o R) = Scan(Scan(Fresh(<<>>), PM), R)
    BY <1>4, <1>7, ScanConcat
  <2>. QED
    BY <1>10, <2>1, <2>2
<1>. QED
  BY <1>6, <1>9, <1>11 DEF Denotes, Fresh

(* A slash at the end says nothing. *)
LEMMA DenotesSlash ==
  ASSUME NEW s \in Seq(AnyChar), NEW st \in Seq(Seq(AnyChar))
  PROVE  /\ Denotes(st, Append(s, "/")) = Denotes(st, s)
         /\ Scan(Fresh(st), Append(s, "/")) = Fresh(Denotes(st, s))
         /\ Denotes(st, s) \in Seq(Seq(AnyChar))
<1>1. Append(s, "/") \in Seq(AnyChar) /\ Fresh(st) \in Reader
  BY AppendProperties, FreshType DEF AnyChar
<1>2. PICK t \in Seq(AnyChar) : t = Append(s, "/")
  BY <1>1
<1>. DEFINE new == Push(Scan(Fresh(st), s).stack, Scan(Fresh(st), s).cur)
<1>3. Scan(Fresh(st), t) = Fresh(new) /\ new \in Seq(Seq(AnyChar))
  BY <1>1, <1>2, ScanSlash
<1>. HIDE DEF new
<1>4. Denotes(st, s) = new
  BY <1>2, <1>3 DEF Denotes, Fresh
<1>5. Scan(Fresh(st), Append(t, "/")) = Fresh(Push(new, <<>>))
  BY <1>1, <1>3, ScanSlash DEF Fresh
<1>6. Push(new, <<>>) = new
  BY DEF Push
<1>7. Denotes(st, t) = new
  BY <1>5, <1>6 DEF Denotes, Fresh
<1>. QED
  BY <1>2, <1>3, <1>4, <1>7

-----------------------------------------------------------------------------
(* Which characters At looks at. *)
LEMMA AtTwo ==
  ASSUME out \in Seq(AnyChar), NEW k \in Nat, k >= 1, NEW a \in AnyChar, NEW b \in AnyChar
  PROVE  At(<<a, b>>, k) <=> k + 1 <= Len(out) /\ out[k] = a /\ out[k + 1] = b
<1>. HIDE DEF AnyChar
<1>. DEFINE str == <<a, b>>
<1>0. Len(out) \in Nat /\ Len(str) = 2 /\ k + 2 - 1 = k + 1 /\ str \in Seq(AnyChar)
      /\ str[1] = a /\ str[2] = b
  BY LenProperties
<1>1. At(str, k) <=> k + 1 <= Len(out) /\ SubSeq(out, k, k + 1) = str
  BY <1>0 DEF At
<1>2. ASSUME k + 1 <= Len(out)
      PROVE  SubSeq(out, k, k + 1) = str <=> out[k] = a /\ out[k + 1] = b
  <2>1. PICK x \in Seq(AnyChar) : x = SubSeq(out, k, k + 1)
    <3>1. k + 1 \in Nat
      OBVIOUS
    <3>. QED
      BY <1>2, <3>1, Sub
  <2>2. Len(x) = 2 /\ x[1] = out[k] /\ x[2] = out[k + 1]
    <3>1. /\ Len(x) = k + 1 - k + 1
          /\ \A j \in Nat : j >= 1 /\ j <= k + 1 - k + 1 => x[j] = out[k + j - 1]
      BY <1>2, <2>1, Sub
    <3>2. k + 1 - k + 1 = 2 /\ k + 1 - 1 = k /\ k + 2 - 1 = k + 1
      OBVIOUS
    <3>. QED
      BY <3>1, <3>2
  <2>3. ASSUME out[k] = a, out[k + 1] = b PROVE x = str
    <3>1. \A j \in 1 .. Len(x) : x[j] = str[j]
      BY <1>0, <2>2, <2>3
    <3>. HIDE DEF str
    <3>. QED
      BY <1>0, <2>2, <3>1, SeqEqual
  <2>. HIDE DEF str
  <2>. QED
    BY <1>0, <2>1, <2>2, <2>3
<1>. QED
  BY <1>1, <1>2

LEMMA AtThree ==
  ASSUME out \in Seq(AnyChar), NEW k \in Nat, k >= 1,
         NEW a \in AnyChar, NEW b \in AnyChar, NEW c \in AnyChar
  PROVE  /\ At(<<a, b, c>>, k) <=> k + 2 <= Len(out) /\ out[k] = a /\ out[k + 1] = b /\ out[k + 2] = c
         /\ At(<<a, b, c>>, k) => SubSeq(out, k, k + 2) = <<a, b, c>>
<1>. HIDE DEF AnyChar
<1>. DEFINE str == <<a, b, c>>
<1>0. Len(out) \in Nat /\ Len(str) = 3 /\ k + 3 - 1 = k + 2 /\ str \in Seq(AnyChar)
      /\ str[1] = a /\ str[2] = b /\ str[3] = c
  BY LenProperties
<1>1. At(str, k) <=> k + 2 <= Len(out) /\ SubSeq(out, k, k + 2) = str
  BY <1>0 DEF At
<1>2. ASSUME k + 2 <= Len(out)
      PROVE  SubSeq(out, k, k + 2) = str <=> out[k] = a /\ out[k + 1] = b /\ out[k + 2] = c
  <2>1. PICK x \in Seq(AnyChar) : x = SubSeq(out, k, k + 2)
    <3>1. k + 2 \in Nat
      OBVIOUS
    <3>. QED
      BY <1>2, <3>1, Sub
  <2>2. Len(x) = 3 /\ x[1] = out[k] /\ x[2] = out[k + 1] /\ x[3] = out[k + 2]
    <3>1. /\ Len(x) = k + 2 - k + 1
          /\ \A j \in Nat : j >= 1 /\ j <= k + 2 - k + 1 => x[j] = out[k + j - 1]
      BY <1>2, <2>1, Sub
    <3>2. k + 2 - k + 1 = 3 /\ k + 1 - 1 = k /\ k + 2 - 1 = k + 1 /\ k + 3 - 1 = k + 2
      OBVIOUS
    <3>. QED
      BY <3>1, <3>2
  <2>3. ASSUME out[k] = a, out[k + 1] = b, out[k + 2] = c PROVE x = str
    <3>1. \A j \in 1 .. Len(x) : x[j] = str[j]
      BY <1>0, <2>2, <2>3
    <3>. HIDE DEF str
    <3>. QED
      BY <1>0, <2>2, <3>1, SeqEqual
  <2>. HIDE DEF str
  <2>. QED
    BY <1>0, <2>1, <2>2, <2>3
<1>. QED
  BY <1>1, <1>2

LEMMA SlashedAppend ==
  ASSUME NEW r \in Seq(AnyChar), r = <<>> \/ Absolute(r)
  PROVE  Slashed(Append(r, "/"))
<1>1. "/" \in AnyChar /\ Len(r) \in Nat /\ (r = <<>> => Len(r) = 0)
  BY LenProperties, EmptySeq DEF AnyChar
<1>2. PICK t \in Seq(AnyChar) : t = Append(r, "/")
  BY <1>1, AppendProperties
<1>3. Len(t) = Len(r) + 1 /\ t[Len(r) + 1] = "/" /\ \A k \in 1 .. Len(r) : t[k] = r[k]
  BY <1>1, <1>2, AppendProperties
<1>. HIDE DEF AnyChar
<1>4. t[1] = "/"
  BY <1>1, <1>3 DEF Absolute
<1>5. Slashed(t)
  BY <1>1, <1>3, <1>4 DEF Slashed
<1>. QED
  BY <1>2, <1>5

(* Without a colon behind letters a path is all rest; so is one that is    *)
(* empty or starts with a slash.                                           *)
LEMMA NoDrive ==
  ASSUME NEW d \in Seq(AnyChar)
  PROVE  /\ ~HasDrive(d) => get_drive(d) = <<>> /\ Rest(d) = d
         /\ d = <<>> \/ Absolute(d) => ~HasDrive(d)
         /\ get_drive(d) # <<>> <=> HasDrive(d)
<1>0. Len(d) \in Nat /\ (d = <<>> => Len(d) = 0)
  BY LenProperties, EmptySeq
<1>1. ASSUME ~HasDrive(d) PROVE get_drive(d) = <<>> /\ Rest(d) = d
  <2>1. get_drive(d) = <<>>
    BY <1>1, Split
  <2>2. Rest(d) = SubSeq(d, 1, Len(d))
    BY <2>1, EmptySeq DEF Rest
  <2>. QED
    BY <2>1, <2>2, SubSeqFull
<1>2. ASSUME d = <<>> \/ Absolute(d) PROVE ~HasDrive(d)
  <2>. SUFFICES ASSUME NEW k \in 1 .. Len(d), d[k] = ":", \A j \in 1 .. k - 1 : d[j] = "a"
                PROVE  FALSE
    BY DEF HasDrive
  <2>1. d[1] = "/" /\ k \in Nat /\ k >= 1
    BY <1>0, <1>2 DEF Absolute
  <2>2. k # 1
    BY <2>1
  <2>3. 1 \in 1 .. k - 1
    BY <2>1, <2>2
  <2>. QED
    BY <2>1, <2>3
<1>3. get_drive(d) # <<>> <=> HasDrive(d)
  BY Split, DriveOfDrive
<1>. QED
  BY <1>1, <1>2, <1>3

(* A slash in front of a path is read as the end of nothing. *)
LEMMA LeadingSlash ==
  ASSUME NEW st \in Seq(Seq(AnyChar)), NEW u \in Seq(AnyChar)
  PROVE  Scan(Fresh(st), <<"/">> \o u) = Scan(Fresh(st), u)
<1>1. /\ <<"/">> \in Seq(AnyChar) /\ <<>> \in Seq(AnyChar) /\ Append(<<>>, "/") = <<"/">>
      /\ Fresh(st) \in Reader
  BY FreshType, EmptySeq DEF AnyChar
<1>. HIDE DEF AnyChar, Reader
<1>2. Scan(Fresh(st), <<>>) = Fresh(st)
  BY <1>1, ScanEmpty
<1>3. Scan(Fresh(st), <<"/">>) = Fresh(Push(st, <<>>))
  <2>1. Fresh(st).stack = st /\ Fresh(st).cur = <<>>
    BY DEF Fresh
  <2>2. Scan(Fresh(st), Append(<<>>, "/"))
          = Fresh(Push(Scan(Fresh(st), <<>>).stack, Scan(Fresh(st), <<>>).cur))
    BY <1>1, ScanSlash
  <2>. QED
    BY <1>1, <1>2, <2>1, <2>2
<1>4. Push(st, <<>>) = st
  BY DEF Push
<1>5. Scan(Fresh(st), <<"/">> \o u) = Scan(Scan(Fresh(st), <<"/">>), u)
  BY <1>1, ScanConcat
<1>. QED
  BY <1>3, <1>4, <1>5

(* An absolute path appended to a directory is walked from there. *)
LEMMA AbsoluteBehind ==
  ASSUME NEW r \in Seq(AnyChar), NEW path \in Seq(AnyChar), Absolute(path)
  PROVE  Denotes(<<>>, r \o path) = Denotes(Denotes(<<>>, r), path)
<1>0. <<"/">> \in Seq(AnyChar) /\ "/" \in AnyChar /\ Len(path) \in Nat
  BY LenProperties DEF AnyChar
<1>. HIDE DEF AnyChar
<1>1. PICK p \in Seq(AnyChar) : p = Append(path, "/")
  BY <1>0, AppendProperties
<1>2. /\ Len(p) = Len(path) + 1 /\ Len(p) >= 2 /\ p[1] = "/" /\ Len(p) \in Nat
  <2>1. Len(path) >= 1 /\ path[1] = "/"
    BY <1>0 DEF Absolute
  <2>2. Len(p) = Len(path) + 1 /\ \A k \in 1 .. Len(path) : p[k] = path[k]
    BY <1>0, <1>1, AppendProperties
  <2>. QED
    BY <1>0, <2>1, <2>2
<1>3. PICK u \in Seq(AnyChar) : p = <<"/">> \o u
  <2>0. SubSeq(p, 2, Len(p)) \in Seq(AnyChar)
    <3>1. 2 \in Nat /\ 2 >= 1 /\ Len(p) <= Len(p)
      BY <1>2
    <3>. QED
      BY <1>2, <3>1, Sub
  <2>1. PICK u \in Seq(AnyChar) : u = SubSeq(p, 2, Len(p))
    BY <2>0
  <2>2. Len(u) = Len(p) - 1 /\ \A j \in Nat : j >= 1 /\ j <= Len(p) - 1 => u[j] = p[j + 1]
    <3>1. /\ Len(u) = Len(p) - 2 + 1
          /\ \A j \in Nat : j >= 1 /\ j <= Len(p) - 2 + 1 => u[j] = p[2 + j - 1]
      BY <1>2, <2>1, Sub
    <3>2. Len(p) - 2 + 1 = Len(p) - 1 /\ \A j \in Nat : 2 + j - 1 = j + 1
      BY <1>2
    <3>. QED
      BY <3>1, <3>2
  <2>3. PICK w \in Seq(AnyChar) : w = <<"/">> \o u
    BY <1>0, ConcatProperties
  <2>4. /\ Len(w) = 1 + Len(u)
        /\ \A j \in 1 .. 1 + Len(u) : w[j] = IF j <= 1 THEN <<"/">>[j] ELSE u[j - 1]
    <3>1. Len(<<"/">>) = 1
      OBVIOUS
    <3>. QED
      BY <1>0, <2>3, <3>1, ConcatProperties
  <2>5. ASSUME NEW j \in 1 .. Len(p) PROVE w[j] = p[j]
    <3>1. CASE j = 1
      BY <1>2, <2>2, <2>4, <3>1
    <3>2. CASE j # 1
      <4>1. j - 1 \in Nat /\ j - 1 >= 1 /\ j - 1 <= Len(p) - 1 /\ j \in 1 .. 1 + Len(u) /\ j > 1
        BY <1>2, <2>2, <3>2
      <4>2. w[j] = u[j - 1] /\ u[j - 1] = p[j - 1 + 1] /\ j - 1 + 1 = j
        BY <2>2, <2>4, <4>1
      <4>. QED
        BY <4>2
    <3>. QED
      BY <3>1, <3>2
  <2>6. Len(w) = Len(p)
    BY <1>2, <2>2, <2>4
  <2>7. w = p
    BY <2>5, <2>6, SeqEqual
  <2>. QED
    BY <2>3, <2>7
<1>4. PICK D \in Seq(Seq(AnyChar)) : D = Denotes(<<>>, r)
  BY DenotesSlash, EmptySeq
<1>5. PICK a \in Seq(AnyChar) : a = Append(r, "/") /\ a = r \o <<"/">>
  BY <1>0, AppendProperties, AppendIsConcat
<1>6. Scan(Fresh(<<>>), a) = Fresh(D)
  BY <1>4, <1>5, DenotesSlash, EmptySeq
<1>7. r \o p = a \o u
  <2>1. (r \o <<"/">>) \o u = r \o (<<"/">> \o u)
    BY <1>0, ConcatAssociative
  <2>. QED
    BY <1>3, <1>5, <2>1
<1>8. Append(r \o path, "/") = r \o p
  <2>1. r \o Append(path, "/") = Append(r \o path, "/")
    BY <1>0, ConcatAppend
  <2>. QED
    BY <1>1, <2>1
<1>9. Scan(Fresh(<<>>), a \o u) = Scan(Fresh(D), u)
  <2>1. Fresh(<<>>) \in Reader
    BY FreshType, EmptySeq
  <2>2. Scan(Fresh(<<>>), a \o u) = Scan(Scan(Fresh(<<>>), a), u)
    BY <2>1, ScanConcat
  <2>. QED
    BY <1>6, <2>2
<1>10. Scan(Fresh(D), p) = Scan(Fresh(D), u)
  BY <1>3, LeadingSlash
<1>. QED
  BY <1>1, <1>4, <1>7, <1>8, <1>9, <1>10 DEF Denotes, Fresh

(* The three forms of a path, completed, denote what the path does from    *)
(* the working directory.                                                  *)
LEMMA JoinMeaning ==
  ASSUME IInv, Home, NEW path \in Seq(AnyChar)
  PROVE  LET s == Join(path)
             named == HasOwnDrive(path)
         IN  /\ Rest(s) \in Seq(AnyChar) /\ Slashed(Append(Rest(s), "/"))
             /\ get_drive(s) = get_drive(IF named THEN path ELSE cwd)
             /\ Denotes(<<>>, Rest(s)) = Denotes(From(path), IF named THEN Rest(path) ELSE path)
<1>. DEFINE named == HasOwnDrive(path)
            r == Rest(cwd)
            a == Append(r, "/")
<1>0. cwd \in Seq(AnyChar) /\ <<"/">> \in Seq(AnyChar) /\ "/" \in AnyChar
  BY DEF IInv, TypeOK, AnyChar
<1>. HIDE DEF AnyChar
<1>1. CASE named
  <2>1. Join(path) = path /\ Rest(path) \in Seq(AnyChar) /\ Absolute(Rest(path))
    BY <1>1, Split DEF Join, HasOwnDrive
  <2>2. From(path) = <<>>
    BY <1>1 DEF From
  <2>. QED
    BY <1>1, <2>1, <2>2, SlashedAppend
<1>2. CASE ~named /\ Absolute(path) /\ HasDrive(cwd)
  <2>. DEFINE d == get_drive(cwd)
  <2>1. Join(path) = d \o path /\ From(path) = <<>>
    BY <1>0, <1>2, NoDrive DEF Join, From
  <2>2. d \in Seq(AnyChar) /\ HasDrive(d) /\ get_drive(d) = d /\ Rest(d) = <<>>
    BY <1>0, <1>2, Split, DriveOfDrive
  <2>3. get_drive(d \o path) = d /\ Rest(d \o path) = <<>> \o path
    <3>. HIDE DEF d
    <3>. QED
      BY <2>2, DriveStays
  <2>4. <<>> \o path = path
    BY ConcatEmptySeq
  <2>. QED
    BY <1>2, <2>1, <2>3, <2>4, SlashedAppend
<1>3. /\ r \in Seq(AnyChar) /\ a \in Seq(AnyChar) /\ a = r \o <<"/">>
      /\ Slashed(a) /\ Len(r) \in Nat
  BY <1>0, Split, AppendProperties, AppendIsConcat, LenProperties DEF Home, Clean
<1>4. CASE ~named /\ Absolute(path) /\ ~HasDrive(cwd)
  <2>1. get_drive(cwd) = <<>> /\ r = cwd
    BY <1>0, <1>4, NoDrive
  <2>2. Join(path) = cwd \o path /\ From(path) = Denotes(<<>>, cwd)
    BY <1>4, <2>1 DEF Join, From
  <2>. HIDE DEF r, a
  <2>3. PICK q \in Seq(AnyChar) : q = cwd \o path
    BY <1>0, ConcatProperties
  <2>4. Absolute(q)
    <3>1. /\ Len(q) = Len(r) + Len(path) /\ Len(path) \in Nat
          /\ \A j \in 1 .. Len(r) + Len(path) :
               q[j] = IF j <= Len(r) THEN r[j] ELSE path[j - Len(r)]
      BY <1>3, <2>1, <2>3, ConcatProperties, LenProperties
    <3>2. Len(a) = Len(r) + 1 /\ a[1] = "/" /\ \A k \in 1 .. Len(r) : a[k] = r[k]
      BY <1>0, <1>3, AppendProperties DEF a, Slashed
    <3>3. Len(path) >= 1 /\ path[1] = "/"
      BY <1>4, <3>1 DEF Absolute
    <3>4. 1 \in 1 .. Len(r) + Len(path) /\ Len(q) > 0
      BY <1>3, <3>1, <3>3
    <3>5. CASE Len(r) = 0
      <4>1. q[1] = path[1 - 0]
        BY <3>1, <3>4, <3>5
      <4>. QED
        BY <3>3, <3>4, <4>1 DEF Absolute
    <3>6. CASE Len(r) # 0
      <4>1. 1 \in 1 .. Len(r) /\ 1 <= Len(r)
        BY <1>3, <3>6
      <4>. QED
        BY <3>1, <3>2, <3>4, <4>1 DEF Absolute
    <3>. QED
      BY <3>5, <3>6
  <2>5. get_drive(q) = <<>> /\ Rest(q) = q
    BY <2>4, NoDrive
  <2>6. Denotes(<<>>, q) = Denotes(Denotes(<<>>, cwd), path)
    BY <1>0, <1>4, <2>3, AbsoluteBehind
  <2>7. Slashed(Append(q, "/"))
    BY <2>4, SlashedAppend
  <2>. QED
    BY <1>4, <2>1, <2>2, <2>3, <2>5, <2>6, <2>7
<1>5. CASE ~named /\ ~Absolute(path)
  <2>1. Join(path) = (cwd \o <<"/">>) \o path /\ From(path) = Denotes(<<>>, r)
    BY <1>5 DEF Join, From
  <2>2. Absolute(a \o path) /\ a \o path \in Seq(AnyChar)
    <3>. HIDE DEF a
    <3>1. /\ Len(a \o path) = Len(a) + Len(path) /\ Len(a) \in Nat /\ Len(path) \in Nat
          /\ \A j \in 1 .. Len(a) + Len(path) :
               (a \o path)[j] = IF j <= Len(a) THEN a[j] ELSE path[j - Len(a)]
          /\ a \o path \in Seq(AnyChar)
      BY <1>3, ConcatProperties, LenProperties
    <3>2. Len(a) >= 1 /\ a[1] = "/"
      BY <1>3 DEF Slashed
    <3>. QED
      BY <3>1, <3>2 DEF Absolute
  <2>3. get_drive(Join(path)) = get_drive(cwd) /\ Rest(Join(path)) = a \o path
    <3>1. PICK e \in Seq(AnyChar) : e = cwd \o <<"/">>
      BY <1>0, ConcatProperties
    <3>2. CASE HasDrive(cwd)
      <4>1. get_drive(e) = get_drive(cwd) /\ Rest(e) = a
        BY <1>0, <1>3, <3>1, <3>2, DriveStays
      <4>2. HasDrive(e)
        BY <1>0, <3>1, <3>2, DrivePrefix
      <4>3. get_drive(e \o path) = get_drive(e) /\ Rest(e \o path) = Rest(e) \o path
        BY <4>2, DriveStays
      <4>. QED
        BY <2>1, <3>1, <4>1, <4>3
    <3>3. CASE ~HasDrive(cwd)
      <4>1. get_drive(cwd) = <<>> /\ r = cwd
        BY <1>0, <3>3, NoDrive
      <4>2. Join(path) = a \o path
        BY <1>3, <2>1, <4>1
      <4>. HIDE DEF a, r
      <4>3. PICK q \in Seq(AnyChar) : q = a \o path
        BY <2>2
      <4>4. get_drive(q) = <<>> /\ Rest(q) = q
        BY <2>2, <4>3, NoDrive
      <4>. QED
        BY <4>1, <4>2, <4>3, <4>4
    <3>. QED
      BY <3>2, <3>3
  <2>4. Denotes(<<>>, a \o path) = Denotes(Denotes(<<>>, r), path)
    <3>1. Scan(Fresh(<<>>), a) = Fresh(Denotes(<<>>, r))
      BY <1>3, DenotesSlash, EmptySeq
    <3>. HIDE DEF a, r
    <3>2. PICK p \in Seq(AnyChar) : p = Append(path, "/")
      BY <1>0, AppendProperties
    <3>3. Append(a \o path, "/") = a \o p
      <4>1. a \in Seq(AnyChar)
        BY <1>3
      <4>2. a \o Append(path, "/") = Append(a \o path, "/")
        BY <1>0, <4>1, ConcatAppend
      <4>. QED
        BY <3>2, <4>2
    <3>4. Scan(Fresh(<<>>), a \o p) = Scan(Fresh(Denotes(<<>>, r)), p)
      <4>1. a \in Seq(AnyChar) /\ Fresh(<<>>) \in Reader
        BY <1>3, FreshType, EmptySeq
      <4>2. Scan(Fresh(<<>>), a \o p) = Scan(Scan(Fresh(<<>>), a), p)
        BY <4>1, ScanConcat
      <4>. QED
        BY <3>1, <4>2
    <3>. QED
      BY <3>2, <3>3, <3>4 DEF Denotes, Fresh
  <2>. HIDE DEF a, r
  <2>5. Slashed(Append(Rest(Join(path)), "/"))
    <3>1. PICK q \in Seq(AnyChar) : q = a \o path
      BY <2>2
    <3>. QED
      BY <2>2, <2>3, <3>1, SlashedAppend
  <2>. QED
    BY <1>5, <2>1, <2>2, <2>3, <2>4, <2>5
<1>. QED
  BY <1>1, <1>2, <1>4, <1>5

-----------------------------------------------------------------------------
(* What a cut between two slashes keeps. *)
LEMMA CutKeeps ==
  ASSUME Slashed(out), NEW k \in Nat, NEW m \in Nat, k >= 1, k + m <= Len(out),
         out[k] = "/", out[k + m] = "/"
  PROVE  /\ Slashed(Cut(k, m)) /\ Len(Cut(k, m)) = Len(out) - m
         /\ NoDouble(out, k - 1) => NoDouble(Cut(k, m), k - 1)
         /\ NoDot(out, k - 1) => NoDot(Cut(k, m), k - 1)
         /\ NoDouble(out, Len(out)) => NoDouble(Cut(k, m), Len(Cut(k, m)))
         /\ NoDot(out, Len(out)) => NoDot(Cut(k, m), Len(Cut(k, m)))
<1>. DEFINE c == Cut(k, m)
<1>1. /\ c \in Seq(AnyChar) /\ Len(c) = Len(out) - m /\ Len(out) \in Nat
      /\ \A j \in Nat : j >= 1 /\ j <= k => c[j] = out[j]
      /\ \A j \in Nat : j >= k /\ j + m <= Len(out) => c[j] = out[j + m]
  BY CutBetween DEF Slashed
<1>. HIDE DEF c
<1>2. Slashed(c)
  BY <1>1 DEF Slashed
<1>3. c[k] = "/"
  BY <1>1
<1>4. ASSUME NoDouble(out, k - 1) PROVE NoDouble(c, k - 1)
  BY <1>1, <1>4 DEF NoDouble
<1>5. ASSUME NoDot(out, k - 1) PROVE NoDot(c, k - 1)
  <2>. SUFFICES ASSUME NEW j \in 1 .. k - 1, j + 2 <= Len(c), c[j] = "/", c[j + 1] = ".", c[j + 2] = "/"
                PROVE  FALSE
    BY DEF NoDot
  <2>1. j + 1 # k
    BY <1>3
  <2>2. j \in Nat /\ j + 2 <= k
    BY <2>1
  <2>3. out[j] = "/" /\ out[j + 1] = "." /\ out[j + 2] = "/"
    BY <1>1, <2>2
  <2>. QED
    BY <1>5, <2>2, <2>3 DEF NoDot
<1>6. ASSUME NoDouble(out, Len(out)) PROVE NoDouble(c, Len(c))
  <2>. SUFFICES ASSUME NEW j \in 1 .. Len(c), j + 1 <= Len(c), c[j] = "/", c[j + 1] = "/"
                PROVE  FALSE
    BY DEF NoDouble
  <2>0. j \in Nat /\ j >= 1
    BY <1>1
  <2>1. CASE j < k
    <3>1. out[j] = "/" /\ out[j + 1] = "/"
      BY <1>1, <2>0, <2>1
    <3>. QED
      BY <1>1, <1>6, <2>0, <2>1, <3>1 DEF NoDouble
  <2>2. CASE j >= k
    <3>1. out[j + m] = "/" /\ out[j + m + 1] = "/" /\ j + m \in 1 .. Len(out) /\ j + m + 1 <= Len(out)
      <4>1. j + 1 + m = j + m + 1 /\ j + m + 1 <= Len(out)
        BY <1>1, <2>0
      <4>2. c[j] = out[j + m] /\ c[j + 1] = out[j + 1 + m]
        BY <1>1, <2>0, <2>2, <4>1
      <4>. QED
        BY <1>1, <2>0, <4>1, <4>2
    <3>. QED
      BY <1>6, <3>1 DEF NoDouble
  <2>. QED
    BY <2>0, <2>1, <2>2
<1>7. ASSUME NoDot(out, Len(out)) PROVE NoDot(c, Len(c))
  <2>. SUFFICES ASSUME NEW j \in 1 .. Len(c), j + 2 <= Len(c), c[j] = "/", c[j + 1] = ".", c[j + 2] = "/"
                PROVE  FALSE
    BY DEF NoDot
  <2>0. j \in Nat /\ j >= 1 /\ j + 1 # k
    BY <1>1, <1>3
  <2>1. CASE j < k
    <3>1. out[j] = "/" /\ out[j + 1] = "." /\ out[j + 2] = "/"
      BY <1>1, <2>0, <2>1
    <3>. QED
      BY <1>1, <1>7, <2>0, <2>1, <3>1 DEF NoDot
  <2>2. CASE j >= k
    <3>1. /\ out[j + m] = "/" /\ out[j + m + 1] = "." /\ out[j + m + 2] = "/"
          /\ j + m \in 1 .. Len(out) /\ j + m + 2 <= Len(out)
      <4>1. j + 1 + m = j + m + 1 /\ j + 2 + m = j + m + 2 /\ j + m + 2 <= Len(out)
        BY <1>1, <2>0
      <4>2. c[j] = out[j + m] /\ c[j + 1] = out[j + 1 + m] /\ c[j + 2] = out[j + 2 + m]
        BY <1>1, <2>0, <2>2, <4>1
      <4>. QED
        BY <1>1, <2>0, <4>1, <4>2
    <3>. QED
      BY <1>7, <3>1 DEF NoDot
  <2>. QED
    BY <2>0, <2>1, <2>2
<1>. QED
  BY <1>1, <1>2, <1>4, <1>5, <1>6, <1>7 DEF c

(* A step of a loop that does not change what the path denotes. *)
LEMMA SameMeaning ==
  ASSUME RInv, pc \notin {"idle", "corrupt"}, Denotes(<<>>, out') = Denotes(<<>>, out),
         UNCHANGED <<cwd, drive, asked>>
  PROVE  Meaning' /\ Home'
<1>1. Goal' = Goal /\ Named' = Named
  BY DEF Goal, Named, From
<1>. QED
  BY <1>1 DEF RInv, Meaning, Home

LEMMA SlashesResolve == ASSUME RInv, Slashes PROVE RInv'
<1>0. IInv'
  BY SlashesStep DEF RInv
<1>1. /\ pc = "slashes" /\ out \in Seq(AnyChar) /\ Len(out) \in Nat /\ i \in Nat /\ 1 <= i /\ i <= Len(out)
      /\ Slashed(out) /\ NoDouble(out, i - 1)
      /\ UNCHANGED <<cwd, drive, asked, first, next>> /\ "/" \in AnyChar
  BY LenProperties DEF Slashes, RInv, IInv, TypeOK, Edited, AnyChar
<1>. HIDE DEF AnyChar
<1>2. At(<<"/", "/">>, i) <=> i + 1 <= Len(out) /\ out[i] = "/" /\ out[i + 1] = "/"
  BY <1>1, AtTwo
<1>3. CASE At(<<"/", "/">>, i) /\ out' = Cut(i, 1) /\ UNCHANGED <<i, pc>>
  <2>0. PICK k \in Nat : k = i /\ k >= 1 /\ k + 1 <= Len(out) /\ out[k] = "/" /\ out[k + 1] = "/"
    BY <1>1, <1>2, <1>3
  <2>1. Slashed(out') /\ NoDouble(out', i' - 1)
    BY <1>1, <1>3, <2>0, CutKeeps
  <2>2. PICK st \in Seq(Seq(AnyChar)) : Scan(Fresh(<<>>), SubSeq(out, 1, k)) = Fresh(st)
    BY <1>1, <2>0, PrefixFresh
  <2>3. SubSeq(out, k + 1, k + 1) = <<"/">>
    <3>1. SubSeq(out, k + 1, k + 1) = Append(SubSeq(out, k + 1, k), out[k + 1])
      BY <1>1, <2>0, SubAppend
    <3>2. SubSeq(out, k + 1, k) = <<>> /\ Append(<<>>, "/") = <<"/">>
      BY SubSeqEmpty
    <3>. QED
      BY <2>0, <3>1, <3>2
  <2>4. Denotes(<<>>, out') = Denotes(<<>>, out)
    <3>1. Scan(Fresh(st), SubSeq(out, k + 1, k + 1)) = Fresh(st)
      BY <2>3, NothingRead
    <3>. QED
      BY <1>1, <1>3, <2>0, <2>2, <3>1, CutMeaning
  <2>5. Meaning' /\ Home'
    BY <1>1, <2>4, SameMeaning
  <2>. QED
    BY <1>0, <1>1, <1>3, <2>1, <2>5 DEF RInv, Edited
<1>4. CASE i < Len(out) /\ ~At(<<"/", "/">>, i) /\ i' = i + 1 /\ UNCHANGED <<out, pc>>
  <2>1. NoDouble(out', i' - 1)
    BY <1>1, <1>2, <1>4 DEF NoDouble
  <2>2. Meaning' /\ Home'
    BY <1>1, <1>4, SameMeaning
  <2>. QED
    BY <1>0, <1>1, <1>4, <2>1, <2>2 DEF RInv, Edited
<1>5. CASE i >= Len(out) /\ i' = 1 /\ pc' = "dots" /\ UNCHANGED out
  <2>1. NoDouble(out', Len(out'))
    BY <1>1, <1>5 DEF NoDouble
  <2>2. NoDot(out', i' - 1)
    BY <1>5 DEF NoDot
  <2>3. Meaning' /\ Home'
    BY <1>1, <1>5, SameMeaning
  <2>. QED
    BY <1>0, <1>1, <1>5, <2>1, <2>2, <2>3 DEF RInv, Edited
<1>. QED
  BY <1>3, <1>4, <1>5 DEF Slashes

LEMMA DotsResolve == ASSUME RInv, Dots PROVE RInv'
<1>0. IInv'
  BY DotsStep DEF RInv
<1>1. /\ pc = "dots" /\ out \in Seq(AnyChar) /\ Len(out) \in Nat /\ i \in Nat /\ 1 <= i /\ i <= Len(out)
      /\ Slashed(out) /\ NoDouble(out, Len(out)) /\ NoDot(out, i - 1)
      /\ UNCHANGED <<cwd, drive, asked>> /\ "/" \in AnyChar /\ "." \in AnyChar
  BY LenProperties DEF Dots, RInv, IInv, TypeOK, Edited, AnyChar
<1>. HIDE DEF AnyChar
<1>2. At(<<"/", ".", "/">>, i) <=>
        i + 2 <= Len(out) /\ out[i] = "/" /\ out[i + 1] = "." /\ out[i + 2] = "/"
  BY <1>1, AtThree
<1>3. CASE At(<<"/", ".", "/">>, i) /\ out' = Cut(i, 2) /\ UNCHANGED <<i, pc, first, next>>
  <2>0. PICK k \in Nat : k = i /\ k >= 1 /\ k + 2 <= Len(out) /\ out[k] = "/" /\ out[k + 1] = "."
                         /\ out[k + 2] = "/"
    BY <1>1, <1>2, <1>3
  <2>1. Slashed(out') /\ NoDouble(out', Len(out')) /\ NoDot(out', i' - 1)
    BY <1>1, <1>3, <2>0, CutKeeps
  <2>2. PICK st \in Seq(Seq(AnyChar)) : Scan(Fresh(<<>>), SubSeq(out, 1, k)) = Fresh(st)
    BY <1>1, <2>0, PrefixFresh
  <2>3. SubSeq(out, k + 1, k + 2) = <<".", "/">>
    <3>1. At(<<".", "/">>, k + 1)
      BY <1>1, <2>0, AtTwo
    <3>2. k + 1 + Len(<<".", "/">>) - 1 = k + 2
      OBVIOUS
    <3>. QED
      BY <3>1, <3>2 DEF At
  <2>4. Denotes(<<>>, out') = Denotes(<<>>, out)
    <3>1. Scan(Fresh(st), SubSeq(out, k + 1, k + 2)) = Fresh(st)
      BY <2>3, NothingRead
    <3>. QED
      BY <1>1, <1>3, <2>0, <2>2, <3>1, CutMeaning
  <2>5. Meaning' /\ Home'
    BY <1>1, <2>4, SameMeaning
  <2>. QED
    BY <1>0, <1>1, <1>3, <2>1, <2>5 DEF RInv, Edited
<1>4. CASE i + 2 <= Len(out) /\ ~At(<<"/", ".", "/">>, i) /\ i' = i + 1 /\ UNCHANGED <<out, pc, first, next>>
  <2>1. NoDot(out', i' - 1)
    BY <1>1, <1>2, <1>4 DEF NoDot
  <2>2. Meaning' /\ Home'
    BY <1>1, <1>4, SameMeaning
  <2>. QED
    BY <1>0, <1>1, <1>4, <2>1, <2>2 DEF RInv, Edited
<1>5. CASE i + 2 > Len(out) /\ pc' = "parents" /\ first' = 1 /\ next' = 1 /\ UNCHANGED <<out, i>>
  <2>1. NoDot(out', Len(out'))
    BY <1>1, <1>5 DEF NoDot
  <2>2. NoUp(out', next' - 1)
    BY <1>5 DEF NoUp
  <2>3. Meaning' /\ Home'
    BY <1>1, <1>5, SameMeaning
  <2>4. out'[1] = "/" /\ 1 <= Len(out')
    BY <1>1, <1>5 DEF Slashed
  <2>. QED
    BY <1>0, <1>1, <1>5, <2>1, <2>2, <2>3, <2>4 DEF RInv, Edited
<1>. QED
  BY <1>3, <1>4, <1>5 DEF Dots

-----------------------------------------------------------------------------
(* The component between first and next, and the ".." behind it, are read  *)
(* as nothing.                                                             *)
LEMMA UpMeaning ==
  ASSUME RInv, pc = "parents", At(<<".", ".", "/">>, next + 1),
         NEW k \in Nat, k = first, NEW m \in Nat, m = next + 3 - first
  PROVE  /\ k >= 1 /\ k + m <= Len(out) /\ out[k] = "/" /\ out[k + m] = "/"
         /\ Denotes(<<>>, Cut(k, m)) = Denotes(<<>>, out)
<1>1. /\ out \in Seq(AnyChar) /\ Len(out) \in Nat /\ first \in Nat /\ next \in Nat
      /\ 1 <= first /\ first <= next /\ next <= Len(out)
      /\ NoDouble(out, Len(out)) /\ NoDot(out, Len(out)) /\ NoUp(out, next - 1)
      /\ out[first] = "/" /\ out[next] = "/" /\ \A j \in first + 1 .. next - 1 : out[j] # "/"
      /\ first = next => first = 1
      /\ "/" \in AnyChar /\ "." \in AnyChar
  BY LenProperties DEF RInv, IInv, TypeOK, Between, Edited, AnyChar
<1>. HIDE DEF AnyChar
<1>2. /\ next + 3 <= Len(out) /\ out[next + 3] = "/"
      /\ SubSeq(out, next + 1, next + 3) = <<".", ".", "/">>
  <2>1. PICK n \in Nat : n = next + 1 /\ n >= 1 /\ n + 2 = next + 3
    BY <1>1
  <2>2. n + 2 <= Len(out) /\ out[n + 2] = "/" /\ SubSeq(out, n, n + 2) = <<".", ".", "/">>
    BY <1>1, <2>1, AtThree
  <2>. QED
    BY <2>1, <2>2
<1>3. k >= 1 /\ k + m = next + 3 /\ k + m <= Len(out) /\ out[k] = "/" /\ out[k + m] = "/"
  <2>1. k + m = next + 3
    BY <1>1
  <2>. QED
    BY <1>1, <1>2, <2>1
<1>4. PICK st \in Seq(Seq(AnyChar)) : /\ Scan(Fresh(<<>>), SubSeq(out, 1, k)) = Fresh(st)
                                      /\ k = 1 => st = <<>>
  <2>1. out \in Seq(AnyChar) /\ k \in Nat /\ 1 <= k /\ k <= Len(out) /\ out[k] = "/"
    BY <1>1
  <2>2. \E st \in Seq(Seq(AnyChar)) : /\ Scan(Fresh(<<>>), SubSeq(out, 1, k)) = Fresh(st)
                                      /\ k = 1 => st = <<>>
    BY ONLY <2>1, PrefixFresh, Zenon
  <2>. QED
    BY <2>2
<1>5. Scan(Fresh(st), SubSeq(out, k + 1, k + m)) = Fresh(st)
  <2>1. CASE first = next
    <3>1. st = <<>> /\ SubSeq(out, k + 1, k + m) = <<".", ".", "/">>
      BY <1>1, <1>2, <1>3, <1>4, <2>1
    <3>. QED
      BY <3>1, NothingRead
  <2>2. CASE first < next
    <3>1. PICK e \in Nat : e + 1 = next
      <4>1. next - 1 \in Nat /\ next - 1 + 1 = next
        BY <1>1, <2>2
      <4>. QED
        BY <4>1
    <3>2. k <= e /\ e = next - 1 /\ e + 1 <= Len(out) /\ out[e + 1] = "/"
      BY <1>1, <2>2, <3>1
    <3>. DEFINE x == SubSeq(out, k + 1, e)
    <3>3. x \in Seq(AnyChar) /\ NoSlash(x) /\ x \notin {<<>>, <<".">>, <<".", ".">>}
      <4>1. NoDouble(out, k) /\ NoDot(out, k) /\ NoUp(out, k)
        BY <1>1, <3>2 DEF NoDouble, NoDot, NoUp
      <4>2. \A j \in k + 1 .. e : out[j] # "/"
        BY <1>1, <3>2
      <4>. QED
        BY <1>1, <3>2, <4>1, <4>2, Component
    <3>4. SubSeq(out, k + 1, next) = Append(x, "/")
      <4>1. k + 1 \in Nat /\ 1 <= k + 1 /\ k + 1 <= e + 1
        BY <3>2
      <4>2. SubSeq(out, k + 1, e + 1) = Append(SubSeq(out, k + 1, e), out[e + 1])
        BY <1>1, <3>2, <4>1, SubAppend
      <4>. QED
        BY <3>1, <3>2, <4>2
    <3>5. SubSeq(out, k + 1, next) \o SubSeq(out, next + 1, next + 3) = SubSeq(out, k + 1, next + 3)
      <4>1. PICK b \in Nat, z \in Nat : b = k + 1 /\ z = next + 3
        BY <1>1
      <4>2. b \in 1 .. Len(out) + 1 /\ next \in b - 1 .. Len(out) /\ z \in next .. Len(out)
        BY <1>1, <1>2, <2>2, <4>1
      <4>3. SubSeq(out, b, next) \o SubSeq(out, next + 1, z) = SubSeq(out, b, z)
        BY ONLY <1>1, <4>2, ConcatAdjacentSubSeq
      <4>. QED
        BY <4>1, <4>3
    <3>6. SubSeq(out, k + 1, k + m) = Append(x, "/") \o <<".", ".", "/">>
      <4>. HIDE DEF x
      <4>. QED
        BY <1>2, <1>3, <3>4, <3>5
    <3>. HIDE DEF x
    <3>. QED
      BY <3>3, <3>6, NothingRead
  <2>. QED
    BY <1>1, <2>1, <2>2
<1>6. Denotes(<<>>, Cut(k, m)) = Denotes(<<>>, out)
  BY <1>1, <1>3, <1>4, <1>5, CutMeaning
<1>. QED
  BY <1>3, <1>6

(* No ".." ends before the next slash, if none begins at this one. *)
LEMMA NextSlash ==
  ASSUME NEW t \in Seq(AnyChar), NEW p \in Nat, NEW n \in Nat, 1 <= p, p <= Len(t), NoUp(t, p),
         n \in {k \in p + 1 .. Len(t) : t[k] = "/"},
         \A y \in {k \in p + 1 .. Len(t) : t[k] = "/"} : n <= y
  PROVE  /\ p < n /\ n <= Len(t) /\ t[n] = "/" /\ NoUp(t, n - 1)
         /\ \A y \in p + 1 .. n - 1 : t[y] # "/"
<1>. HIDE DEF AnyChar
<1>1. Len(t) \in Nat
  BY LenProperties
<1>2. p < n /\ n <= Len(t) /\ t[n] = "/"
  BY <1>1
<1>3. ASSUME NEW y \in p + 1 .. n - 1 PROVE t[y] # "/"
  <2>1. y \in p + 1 .. Len(t) /\ ~(n <= y)
    BY <1>1, <1>2
  <2>. QED
    BY <2>1
<1>4. NoUp(t, n - 1)
  BY <1>1, <1>2, <1>3 DEF NoUp
<1>. QED
  BY <1>2, <1>3, <1>4

LEMMA ParentsResolve == ASSUME RInv, Parents PROVE RInv'
<1>0. IInv'
  BY ParentsStep DEF RInv
<1>1. /\ pc = "parents" /\ out \in Seq(AnyChar) /\ Len(out) \in Nat /\ first \in Nat /\ next \in Nat
      /\ 1 <= first /\ first <= next /\ next <= Len(out)
      /\ Slashed(out) /\ NoDouble(out, Len(out)) /\ NoDot(out, Len(out)) /\ NoUp(out, next - 1)
      /\ out[first] = "/" /\ out[next] = "/"
      /\ UNCHANGED <<cwd, drive, asked, i>> /\ "/" \in AnyChar /\ "." \in AnyChar
  BY LenProperties DEF Parents, RInv, IInv, TypeOK, Between, Edited, AnyChar
<1>. HIDE DEF AnyChar
<1>2. CASE At(<<".", ".", "/">>, next + 1) /\ Up
  <2>1. PICK k \in Nat, m \in Nat : k = first /\ m = next + 3 - first
    BY <1>1
  <2>2. out' = Cut(k, m) /\ first' = 1 /\ next' = 1 /\ pc' = pc
    BY <1>2, <2>1 DEF Up
  <2>3. /\ k >= 1 /\ k + m <= Len(out) /\ out[k] = "/" /\ out[k + m] = "/"
        /\ Denotes(<<>>, out') = Denotes(<<>>, out)
    BY <1>1, <1>2, <2>1, <2>2, UpMeaning
  <2>4. Slashed(out') /\ NoDouble(out', Len(out')) /\ NoDot(out', Len(out'))
    BY <1>1, <2>2, <2>3, CutKeeps
  <2>5. out'[1] = "/" /\ 1 <= Len(out') /\ NoUp(out', 1 - 1)
    BY <2>4 DEF Slashed, NoUp
  <2>6. Meaning' /\ Home'
    BY <1>1, <2>3, SameMeaning
  <2>. QED
    BY <1>0, <1>1, <2>2, <2>4, <2>5, <2>6 DEF RInv, Edited
<1>3. CASE ~At(<<".", ".", "/">>, next + 1) /\ Advance
  <2>. DEFINE slashes == {k \in next + 1 .. Len(out) : out[k] = "/"}
  <2>1. first' = next /\ out' = out
    BY <1>3 DEF Advance
  <2>2. NoUp(out, next)
    <3>1. PICK n \in Nat : n = next + 1 /\ n >= 1
      BY <1>1
    <3>2. ~(n + 2 <= Len(out) /\ out[n] = "." /\ out[n + 1] = "." /\ out[n + 2] = "/")
      BY <1>1, <1>3, <3>1, AtThree
    <3>3. n + 2 = next + 3 /\ n + 1 = next + 2
      BY <1>1, <3>1
    <3>4. ~(next + 3 <= Len(out) /\ out[next + 1] = "." /\ out[next + 2] = "." /\ out[next + 3] = "/")
      BY <3>1, <3>2, <3>3
    <3>. QED
      BY <1>1, <3>4 DEF NoUp
  <2>3. Meaning' /\ Home'
    BY <1>1, <2>1, SameMeaning
  <2>4. CASE slashes = {}
    <3>1. next' = Len(out) + 1 /\ pc' = "trailing"
      BY <1>3, <2>4 DEF Advance
    <3>2. NoUp(out, Len(out))
      BY <1>1, <2>2, <2>4 DEF NoUp
    <3>. QED
      BY <1>0, <1>1, <2>1, <2>3, <3>1, <3>2 DEF RInv, Edited, Clean
  <2>5. CASE slashes # {}
    <3>1. next' = Min(slashes) /\ pc' = pc
      BY <1>3, <2>5 DEF Advance
    <3>2. Min(slashes) \in slashes /\ \A y \in slashes : Min(slashes) <= y
      <4>1. slashes \in SUBSET Nat
        BY <1>1
      <4>. HIDE DEF slashes
      <4>. QED
        BY <2>5, <4>1, LeastNumber
    <3>3. PICK n \in Nat : n = Min(slashes)
      <4>1. slashes \in SUBSET Nat
        BY <1>1
      <4>. HIDE DEF slashes
      <4>. QED
        BY <3>2, <4>1
    <3>4. n \in slashes /\ \A y \in slashes : n <= y
      <4>. HIDE DEF slashes
      <4>. QED
        BY <3>2, <3>3
    <3>5. /\ next < n /\ n <= Len(out) /\ out[n] = "/" /\ NoUp(out, n - 1)
          /\ \A y \in next + 1 .. n - 1 : out[y] # "/"
      BY <1>1, <2>2, <3>4, NextSlash
    <3>6. /\ next \in 1 .. n /\ n <= Len(out) /\ out[next] = "/" /\ out[n] = "/"
          /\ next # n /\ NoUp(out, n - 1) /\ \A y \in next + 1 .. n - 1 : out[y] # "/"
      BY <1>1, <3>5
    <3>7. /\ first' \in 1 .. next' /\ next' <= Len(out') /\ out'[first'] = "/" /\ out'[next'] = "/"
          /\ first' # next' /\ NoUp(out', next' - 1)
          /\ \A y \in first' + 1 .. next' - 1 : out'[y] # "/"
      BY <2>1, <3>1, <3>3, <3>6, Zenon
    <3>8. Slashed(out') /\ NoDouble(out', Len(out')) /\ NoDot(out', Len(out'))
      BY <1>1, <2>1
    <3>. HIDE DEF slashes
    <3>. QED
      BY <1>0, <1>1, <2>3, <3>1, <3>7, <3>8 DEF RInv, Edited
  <2>. QED
    BY <2>4, <2>5
<1>. QED
  BY <1>2, <1>3 DEF Parents

LEMMA TrailingResolve == ASSUME RInv, Trailing PROVE RInv'
<1>0. IInv'
  BY TrailingStep DEF RInv
<1>1. /\ pc = "trailing" /\ pc' = "resolved" /\ Clean(out) /\ out \in Seq(AnyChar)
      /\ UNCHANGED <<cwd, drive, asked, i, first, next>>
  BY DEF Trailing, RInv, IInv, TypeOK, Edited
<1>2. Len(out) \in Nat /\ Len(out) >= 1 /\ out[Len(out)] = "/" /\ out # <<>>
  BY <1>1, LenProperties, EmptySeq DEF Clean, Slashed
<1>3. out' = Front(out)
  BY <1>2 DEF Trailing, Last
<1>4. /\ out' \in Seq(AnyChar) /\ Len(out') = Len(out) - 1
      /\ \A k \in 1 .. Len(out) - 1 : out'[k] = out[k]
  BY <1>1, <1>2, <1>3, FrontOfSeq
<1>5. Append(out', "/") = out
  <2>1. PICK a \in Seq(AnyChar) : a = out'
    BY <1>4
  <2>2. PICK t \in Seq(AnyChar) : t = Append(a, "/")
    BY AppendProperties, "/" \in AnyChar DEF AnyChar
  <2>3. Len(t) = Len(a) + 1 /\ t[Len(a) + 1] = "/" /\ \A k \in 1 .. Len(a) : t[k] = a[k]
    BY <2>2, AppendProperties, "/" \in AnyChar DEF AnyChar
  <2>. HIDE DEF AnyChar
  <2>4. Len(t) = Len(out) /\ \A k \in 1 .. Len(t) : t[k] = out[k]
    BY <1>2, <1>4, <2>1, <2>3
  <2>5. t = out
    BY <1>1, <2>4, SeqEqual
  <2>. QED
    BY <2>1, <2>2, <2>5
<1>6. Denotes(<<>>, out') = Denotes(<<>>, out)
  BY <1>4, <1>5, DenotesSlash, EmptySeq
<1>7. Meaning' /\ Home'
  BY <1>1, <1>6, SameMeaning
<1>. QED
  BY <1>0, <1>1, <1>4, <1>5, <1>7 DEF RInv, Edited

LEMMA EnterResolve == ASSUME RInv, Enter PROVE RInv'
<1>0. IInv'
  BY EnterStep DEF RInv
<1>1. /\ pc = "resolved" /\ pc' = "idle" /\ out \in Seq(AnyChar) /\ asked \in Seq(AnyChar)
      /\ cwd \in Seq(AnyChar) /\ Clean(Append(out, "/")) /\ Home
      /\ drive = get_drive(IF Named THEN asked ELSE cwd)
  BY PathsAreStrings DEF Enter, RInv, IInv, TypeOK, Edited, Meaning
<1>2. PICK d \in Seq(AnyChar) : drive = get_drive(d)
  BY <1>1
<1>3. Rest(drive \o out) = out
  <2>0. <<>> \o out = out
    BY <1>1, ConcatEmptySeq
  <2>1. CASE HasDrive(d)
    <3>1. drive \in Seq(AnyChar) /\ HasDrive(drive) /\ Rest(drive) = <<>>
      BY <1>2, <2>1, Split, DriveOfDrive
    <3>2. Rest(drive \o out) = Rest(drive) \o out
      BY <1>1, <3>1, DriveStays
    <3>. QED
      BY <2>0, <3>1, <3>2
  <2>2. CASE ~HasDrive(d)
    <3>1. drive = <<>>
      BY <1>2, <2>2, NoDrive
    <3>2. out = <<>> \/ Absolute(out)
      <4>1. PICK t \in Seq(AnyChar) : t = Append(out, "/")
        BY <1>1, AppendProperties, "/" \in AnyChar DEF AnyChar
      <4>2. Len(out) \in Nat /\ \A k \in 1 .. Len(out) : t[k] = out[k]
        BY <1>1, <4>1, AppendProperties, LenProperties, "/" \in AnyChar DEF AnyChar
      <4>3. t[1] = "/"
        BY <1>1, <4>1 DEF Clean, Slashed
      <4>4. Len(out) = 0 => out = <<>>
        BY <1>1, EmptySeq
      <4>5. Len(out) # 0 => 1 \in 1 .. Len(out) /\ Len(out) > 0
        BY <4>2
      <4>. QED
        BY <4>2, <4>3, <4>4, <4>5 DEF Absolute
    <3>3. Rest(out) = out
      BY <1>1, <3>2, NoDrive
    <3>. QED
      BY <2>0, <3>1, <3>3
  <2>. QED
    BY <2>1, <2>2
<1>4. Home'
  BY <1>1, <1>3 DEF Enter, Home
<1>. QED
  BY <1>0, <1>1, <1>4 DEF RInv, Edited, Meaning

LEMMA ChdirResolve == ASSUME RInv, Chdir PROVE RInv'
<1>0. IInv'
  BY ChdirStep DEF RInv
<1>1. PICK path \in Paths : Begin(path) \/ TooLong(path) \/ StrayWrite(path)
  BY DEF Chdir
<1>2. CASE TooLong(path)
  BY <1>0, <1>2 DEF TooLong, vars, RInv, Meaning, Edited, Home, Goal, Named, From
<1>3. CASE StrayWrite(path)
  BY <1>0, <1>3 DEF StrayWrite, RInv, Meaning, Edited, Home
<1>4. CASE Begin(path)
  <2>0. path \in Seq(AnyChar)
    BY PathsAreStrings
  <2>. DEFINE s == Join(path)
              named == HasOwnDrive(path)
  <2>1. /\ Rest(s) \in Seq(AnyChar) /\ Slashed(Append(Rest(s), "/"))
        /\ get_drive(s) = get_drive(IF named THEN path ELSE cwd)
        /\ Denotes(<<>>, Rest(s)) = Denotes(From(path), IF named THEN Rest(path) ELSE path)
    BY <2>0, JoinMeaning DEF RInv
  <2>2. /\ drive' = get_drive(s) /\ out' = Append(Rest(s), "/") /\ asked' = path
        /\ pc' = "slashes" /\ i' = 1 /\ UNCHANGED <<cwd, first, next>>
    BY <1>4 DEF Begin
  <2>. HIDE DEF s
  <2>3. Denotes(<<>>, out') = Denotes(<<>>, Rest(s))
    BY <2>1, <2>2, DenotesSlash, EmptySeq
  <2>4. Goal' = Denotes(From(path), IF named THEN Rest(path) ELSE path) /\ (Named' <=> named)
    BY <2>2 DEF Goal, Named, From
  <2>5. Meaning'
    BY <2>1, <2>2, <2>3, <2>4 DEF Meaning
  <2>6. NoDouble(out', i' - 1)
    BY <2>2 DEF NoDouble
  <2>. QED
    BY <1>0, <2>1, <2>2, <2>5, <2>6 DEF RInv, Edited, Home
<1>. QED
  BY <1>1, <1>2, <1>3, <1>4

LEMMA InitResolve == Init => RInv
<1>. SUFFICES ASSUME Init PROVE RInv
  OBVIOUS
<1>0. IInv
  BY InitInv
<1>3. Clean(<<"/">>) /\ Append(<<>>, "/") = <<"/">>
  <2>1. <<"/">> \in Seq(AnyChar) /\ Len(<<"/">>) = 1 /\ <<"/">>[1] = "/"
    BY DEF AnyChar
  <2>. QED
    BY <2>1 DEF Clean, Slashed, NoDouble, NoDot, NoUp
<1>4. CASE cwd = <<>>
  <2>1. Rest(cwd) = <<>>
    BY <1>4, EmptySeq, NoDrive
  <2>. QED
    BY <1>0, <1>3, <2>1 DEF Init, RInv, Meaning, Edited, Home
<1>1. CASE cwd = <<"a", ":">>
  <2>1. /\ cwd \in Seq(AnyChar) /\ Len(cwd) = 2 /\ cwd[1] = "a" /\ cwd[2] = ":"
    BY <1>1 DEF AnyChar
  <2>2. Len(get_drive(cwd)) = 2
    BY <2>1, DriveEnds
  <2>3. Rest(cwd) = SubSeq(cwd, 2 + 1, 2)
    BY <2>1, <2>2 DEF Rest
  <2>4. Rest(cwd) = <<>>
    BY <2>3, SubSeqEmpty
  <2>. QED
    BY <1>0, <1>3, <2>4 DEF Init, RInv, Meaning, Edited, Home
<1>2. CASE cwd = <<"a", ":", "/", "a", "a">>
  <2>1. /\ cwd \in Seq(AnyChar) /\ Len(cwd) = 5 /\ cwd[1] = "a" /\ cwd[2] = ":"
        /\ cwd[3] = "/" /\ cwd[4] = "a" /\ cwd[5] = "a"
    BY <1>2 DEF AnyChar
  <2>2. Len(get_drive(cwd)) = 2
    <3>1. 2 \in 1 .. Len(cwd) /\ \A j \in 1 .. 2 - 1 : cwd[j] = "a"
      BY <2>1
    <3>. QED
      BY ONLY <2>1, <3>1, DriveEnds
  <2>3. Rest(cwd) = SubSeq(cwd, 3, 5)
    BY <2>1, <2>2 DEF Rest
  <2>4. PICK r \in Seq(AnyChar) : r = Rest(cwd)
    BY <2>1, Split
  <2>5. Len(r) = 3 /\ r[1] = "/" /\ r[2] = "a" /\ r[3] = "a"
    <3>1. /\ Len(r) = 5 - 3 + 1
          /\ \A j \in Nat : j >= 1 /\ j <= 5 - 3 + 1 => r[j] = cwd[3 + j - 1]
      BY <2>1, <2>3, <2>4, Sub
    <3>. HIDE DEF AnyChar
    <3>. QED
      BY <2>1, <3>1
  <2>6. PICK t \in Seq(AnyChar) : t = Append(r, "/")
    BY AppendProperties, "/" \in AnyChar DEF AnyChar
  <2>7. Len(t) = 4 /\ t[1] = "/" /\ t[2] = "a" /\ t[3] = "a" /\ t[4] = "/"
    <3>1. Len(t) = Len(r) + 1 /\ t[Len(r) + 1] = "/" /\ \A k \in 1 .. Len(r) : t[k] = r[k]
      BY <2>6, AppendProperties, "/" \in AnyChar DEF AnyChar
    <3>. QED
      BY <2>5, <3>1
  <2>8. Clean(t)
    BY <2>7 DEF Clean, Slashed, NoDouble, NoDot, NoUp
  <2>. QED
    BY <1>0, <2>4, <2>6, <2>8 DEF Init, RInv, Meaning, Edited, Home
<1>. QED
  BY <1>1, <1>2, <1>4 DEF Init

LEMMA NextResolve == RInv /\ [Next]_vars => RInv'
<1>. SUFFICES ASSUME RInv, [Next]_vars PROVE RInv'
  OBVIOUS
<1>1. CASE UNCHANGED vars
  <2>1. IInv'
    BY InvNext DEF RInv
  <2>. QED
    BY <1>1, <2>1 DEF vars, RInv, Meaning, Edited, Home, Goal, Named, From
<1>. QED
  BY <1>1, ChdirResolve, SlashesResolve, DotsResolve, ParentsResolve, TrailingResolve,
     EnterResolve DEF Next, Loop, Corrupt

LEMMA AlwaysResolved == Spec => []RInv
BY InitResolve, NextResolve, PTL DEF Spec

(* Whatever path a program passes to chdir, with or without a drive, and   *)
(* in whatever order it has doubled slashes, ".", ".." and names, the path *)
(* that __path_absolute and __path_normalize leave in the buffer is the    *)
(* one the program's path denotes from the working directory.              *)
THEOREM PathsResolved == FairSpec => []ResolvesPath
<1>1. RInv => ResolvesPath
  <2>. SUFFICES ASSUME RInv, pc = "resolved"
                PROVE  /\ drive = get_drive(IF Named THEN asked ELSE cwd)
                       /\ out = Written(Goal)
    BY DEF ResolvesPath, Goal, Named, From
  <2>1. Written(Denotes(<<>>, out)) = out
    BY CleanWritten DEF RInv, Edited
  <2>. QED
    BY <2>1 DEF RInv, Meaning
<1>. QED
  BY <1>1, AlwaysResolved, PTL DEF FairSpec

(* chdir leaves a working directory in normal form, with a drive or, when  *)
(* __init_cwd has not given it one, without: behind the drive its path is  *)
(* what it denotes, written out, with no doubled slash, "." or "..".       *)
THEOREM CwdStaysCanonical == FairSpec => []CwdCanonical
<1>1. RInv => CwdCanonical
  <2>. SUFFICES ASSUME RInv PROVE CwdCanonical
    OBVIOUS
  <2>1. Rest(cwd) \in Seq(AnyChar)
    BY Split DEF RInv, IInv, TypeOK
  <2>2. Written(Denotes(<<>>, Rest(cwd))) = Rest(cwd)
    BY <2>1, CleanWritten DEF RInv, Home
  <2>. QED
    BY <2>2 DEF CwdCanonical
<1>. QED
  BY <1>1, AlwaysResolved, PTL DEF FairSpec

(* chdir never replaces a working directory that has a drive by one that   *)
(* has none: the drive of the path it resolves is that of the path or of   *)
(* the working directory, and what is behind it does not hide it.          *)
THEOREM DriveKept == FairSpec => KeepsDrive
<1>1. ASSUME RInv, [Next]_vars
      PROVE  [get_drive(cwd) # <<>> => get_drive(cwd') # <<>>]_vars
  <2>0. cwd \in Seq(AnyChar) /\ drive \in Seq(AnyChar) /\ out \in Seq(AnyChar)
    BY <1>1 DEF RInv, IInv, TypeOK
  <2>1. CASE UNCHANGED cwd
    BY <2>1
  <2>2. CASE pc = "resolved" /\ cwd' = drive \o out
    <3>. SUFFICES ASSUME get_drive(cwd) # <<>> PROVE get_drive(drive \o out) # <<>>
      BY <2>2
    <3>1. asked \in Seq(AnyChar) /\ drive = get_drive(IF Named THEN asked ELSE cwd)
      BY <1>1, <2>2, PathsAreStrings DEF RInv, IInv, TypeOK, Meaning
    <3>2. PICK d \in Seq(AnyChar) : drive = get_drive(d) /\ get_drive(d) # <<>>
      BY <2>0, <3>1 DEF Named, HasOwnDrive
    <3>3. HasDrive(drive)
      BY <3>2, Split
    <3>4. HasDrive(drive \o out) /\ drive \o out \in Seq(AnyChar)
      BY <2>0, <3>3, DrivePrefix, ConcatProperties
    <3>. QED
      BY <3>4, NoDrive
  <2>. QED
    BY <1>1, <2>1, <2>2
       DEF Next, Loop, Chdir, Begin, TooLong, StrayWrite, Corrupt, Slashes, Dots, Parents,
           Trailing, Enter, vars
<1>. QED
  BY <1>1, AlwaysResolved, PTL DEF FairSpec, Spec, KeepsDrive
=============================================================================
