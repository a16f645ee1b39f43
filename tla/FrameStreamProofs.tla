-------------------------- MODULE FrameStreamProofs --------------------------
(***************************************************************************)
(* Proofs about the two readers, for every alphabet, every checksum and    *)
(* every frame.  The decoder's loop is a recursive function, so it is      *)
(* first shown to have the values that its definition asks for             *)
(* (DrainIs), then to go on, a byte later, from where it had stopped       *)
(* (DrainAppend).  The parser's push is that step (PushIs).  Both readers  *)
(* are therefore, at any time, where the loop ends on all that was read,   *)
(* and this is the inductive invariant.                                    *)
(***************************************************************************)
EXTENDS FrameStream, SequenceTheorems, WellFoundedInduction, TLAPS

\* ---------------------------------------------------------------- induction ----
\* A set with 0 that has the successor of each number in it has every number.
LEMMA Induction ==
  ASSUME NEW S, 0 \in S, \A n \in Nat : n \in S => n + 1 \in S
  PROVE  Nat \subseteq S
<1> DEFINE Bad == Nat \ S
<1> SUFFICES ASSUME Bad # {}  PROVE FALSE
  OBVIOUS
<1>1. \E x \in Bad : \A y \in Bad : <<y, x>> \notin OpToRel(<, Nat)
  BY NatLessThanWellFounded, WFMin
<1>2. PICK x \in Bad : \A y \in Bad : <<y, x>> \notin OpToRel(<, Nat)
  BY <1>1
<1>3. x \in Nat /\ x # 0  OBVIOUS
<1>4. x - 1 \in Nat /\ x - 1 < x  BY <1>3
<1>5. <<x - 1, x>> \in OpToRel(<, Nat)  BY <1>3, <1>4 DEF OpToRel
<1>6. x - 1 \in S  BY <1>2, <1>4, <1>5
<1>7. x - 1 + 1 = x  BY <1>3
<1> QED  BY <1>4, <1>6, <1>7

\* The least of a set of numbers.
LEMMA MinIs ==
  ASSUME NEW S \in SUBSET Nat, S # {}
  PROVE  Min(S) \in S /\ \A y \in S : Min(S) <= y
<1>1. PICK x \in S : \A y \in S : <<y, x>> \notin OpToRel(<, Nat)
  BY NatLessThanWellFounded, WFMin
<1>2. ASSUME NEW y \in S  PROVE x <= y
  <2>1. x \in Nat /\ y \in Nat  BY <1>2
  <2>2. y < x => <<y, x>> \in OpToRel(<, Nat)  BY <2>1 DEF OpToRel
  <2>3. ~(y < x)  BY <1>1, <2>2
  <2> QED  BY <2>1, <2>3
<1> QED  BY <1>2 DEF Min

\* ------------------------------------------------------------ runs of bytes ----
Bytes == Seq(Byte)

LEMMA BytesAre ==
  /\ Byte \subseteq Nat /\ SofFirst \in Byte /\ SofSecond \in Byte /\ SofFirst # SofSecond
  /\ MaxPayload \in Nat
BY FrameAssumption

\* What follows a place of a run.
LEMMA FromIs ==
  ASSUME NEW b \in Bytes, NEW i \in 1..(Len(b) + 1)
  PROVE  /\ From(b, i) \in Bytes
         /\ Len(b) \in Nat /\ Len(From(b, i)) \in Nat
         /\ Len(From(b, i)) = Len(b) + 1 - i
         /\ \A k \in 1..(Len(b) + 1 - i) : From(b, i)[k] = b[k + i - 1]
<1>1. Len(b) \in Nat /\ DOMAIN b = 1..Len(b) /\ \A k \in 1..Len(b) : b[k] \in Byte
  BY LenProperties, ElementOfSeq DEF Bytes
<1>2. \A k \in i..Len(b) : b[k] \in Byte  BY <1>1
<1>3. /\ SubSeq(b, i, Len(b)) \in Seq(Byte)
      /\ Len(SubSeq(b, i, Len(b))) = IF i <= Len(b) THEN Len(b) - i + 1 ELSE 0
      /\ \A k \in 1..(Len(b) - i + 1) : SubSeq(b, i, Len(b))[k] = b[i + k - 1]
  BY <1>1, <1>2, SubSeqProperties
<1> QED  BY <1>1, <1>3 DEF From, Bytes

\* Runs that have the same bytes are the same.
LEMMA SameBytes ==
  ASSUME NEW b \in Bytes, NEW c \in Bytes, Len(b) = Len(c),
         \A k \in 1..Len(b) : b[k] = c[k]
  PROVE  b = c
BY SeqEqual DEF Bytes

LEMMA AddIs ==
  ASSUME NEW b \in Bytes, NEW x \in Byte
  PROVE  /\ Append(b, x) \in Bytes /\ Len(b) \in Nat
         /\ Len(Append(b, x)) = Len(b) + 1
         /\ \A k \in 1..Len(b) : Append(b, x)[k] = b[k]
         /\ Append(b, x)[Len(b) + 1] = x
BY AppendProperties, LenProperties DEF Bytes

LEMMA FromFrom ==
  ASSUME NEW b \in Bytes, NEW i \in 1..(Len(b) + 1), NEW j \in i..(Len(b) + 1)
  PROVE  From(From(b, i), j - i + 1) = From(b, j)
<1>1. Len(b) \in Nat /\ j \in 1..(Len(b) + 1)  BY FromIs
<1> DEFINE c == From(b, i)
           k == j - i + 1
<1>2. /\ c \in Bytes /\ Len(c) = Len(b) + 1 - i
      /\ \A n \in 1..(Len(b) + 1 - i) : c[n] = b[n + i - 1]
  BY FromIs
<1>3. k \in 1..(Len(c) + 1)  BY <1>1, <1>2
<1> HIDE DEF c
<1>4. /\ From(c, k) \in Bytes /\ Len(From(c, k)) = Len(c) + 1 - k
      /\ \A n \in 1..(Len(c) + 1 - k) : From(c, k)[n] = c[n + k - 1]
  BY <1>2, <1>3, FromIs
<1>5. /\ From(b, j) \in Bytes /\ Len(From(b, j)) = Len(b) + 1 - j
      /\ \A n \in 1..(Len(b) + 1 - j) : From(b, j)[n] = b[n + j - 1]
  BY <1>1, FromIs
<1>6. Len(c) + 1 - k = Len(b) + 1 - j  BY <1>1, <1>2
<1>7. ASSUME NEW n \in 1..(Len(b) + 1 - j)
      PROVE  From(c, k)[n] = From(b, j)[n]
  <2>1. n + k - 1 \in 1..(Len(b) + 1 - i) /\ (n + k - 1) + i - 1 = n + j - 1
    BY <1>1
  <2>2. c[n + k - 1] = b[n + j - 1]  BY <1>2, <2>1
  <2> QED  BY <1>4, <1>5, <1>6, <2>2
<1>8. From(c, k) = From(b, j)
  BY <1>4, <1>5, <1>6, <1>7, SameBytes
<1> QED  BY <1>8 DEF c

LEMMA FromAppend ==
  ASSUME NEW b \in Bytes, NEW x \in Byte, NEW i \in 1..(Len(b) + 1)
  PROVE  From(Append(b, x), i) = Append(From(b, i), x)
<1> DEFINE l == Append(b, x)
           c == From(b, i)
<1>1. /\ l \in Bytes /\ Len(b) \in Nat /\ Len(l) = Len(b) + 1
      /\ \A k \in 1..Len(b) : l[k] = b[k]
      /\ l[Len(b) + 1] = x
  BY AddIs
<1>2. /\ c \in Bytes /\ Len(c) = Len(b) + 1 - i
      /\ \A n \in 1..(Len(b) + 1 - i) : c[n] = b[n + i - 1]
  BY FromIs
<1> HIDE DEF l, c
<1>3. i \in 1..(Len(l) + 1)  BY <1>1
<1>4. /\ From(l, i) \in Bytes /\ Len(From(l, i)) = Len(l) + 1 - i
      /\ \A n \in 1..(Len(l) + 1 - i) : From(l, i)[n] = l[n + i - 1]
  BY <1>1, <1>3, FromIs
<1>5. /\ Append(c, x) \in Bytes /\ Len(Append(c, x)) = Len(c) + 1
      /\ \A k \in 1..Len(c) : Append(c, x)[k] = c[k]
      /\ Append(c, x)[Len(c) + 1] = x
  BY <1>2, AddIs
<1>6. ASSUME NEW n \in 1..(Len(l) + 1 - i)
      PROVE  From(l, i)[n] = Append(c, x)[n]
  <2>1. CASE n = Len(c) + 1
    <3>1. n + i - 1 = Len(b) + 1  BY <1>1, <1>2, <2>1
    <3> QED  BY <1>1, <1>4, <1>5, <2>1, <3>1
  <2>2. CASE n # Len(c) + 1
    <3>1. n \in 1..Len(c) /\ n + i - 1 \in 1..Len(b)  BY <1>1, <1>2, <2>2
    <3> QED  BY <1>1, <1>2, <1>4, <1>5, <3>1
  <2> QED  BY <2>1, <2>2
<1>7. From(l, i) = Append(c, x)
  <2>1. Len(From(l, i)) = Len(l) + 1 - i /\ Len(From(l, i)) = Len(Append(c, x))
    BY <1>1, <1>2, <1>4, <1>5
  <2> QED  BY <1>4, <1>5, <1>6, <2>1, SameBytes
<1> QED  BY <1>7 DEF l, c

\* ----------------------------------------------------- what a reader keeps ----
\* A frame may begin at place i of b, or after it.
Possible(b, i) ==
  SofAt(b, i) \/ (i = Len(b) /\ b[i] = SofFirst) \/ i = Len(b) + 1

FirstPossible(b, i) ==
  /\ i \in 1..(Len(b) + 1) /\ Possible(b, i)
  /\ \A j \in 1..(i - 1) : ~Possible(b, j)

LEMMA OneFirst ==
  ASSUME NEW b \in Bytes, NEW i, NEW j, FirstPossible(b, i), FirstPossible(b, j)
  PROVE  i = j
<1>1. Len(b) \in Nat  BY LenProperties DEF Bytes
<1>2. i \in Nat /\ j \in Nat /\ i >= 1 /\ j >= 1  BY <1>1 DEF FirstPossible
<1>3. ~(i < j)  BY <1>2 DEF FirstPossible
<1>4. ~(j < i)  BY <1>2 DEF FirstPossible
<1> QED  BY <1>2, <1>3, <1>4

\* A run ends in SofFirst or it does not.
LEMMA EndsInSof ==
  ASSUME NEW b \in Bytes
  PROVE  IsSuffix(<<SofFirst>>, b) <=> b # <<>> /\ b[Len(b)] = SofFirst
<1> DEFINE one == <<SofFirst>>
<1>1. Len(b) \in Nat /\ (b = <<>> <=> Len(b) = 0)
  BY LenProperties, EmptySeq DEF Bytes
<1>2. \A i \in 1..Len(b) : b[(Len(b) - i) + 1] \in Byte
  <2> TAKE i \in 1..Len(b)
  <2>1. (Len(b) - i) + 1 \in 1..Len(b)  BY <1>1
  <2> QED  BY <2>1, ElementOfSeq DEF Bytes
<1> DEFINE back == Reverse(b)
<1>3. back \in [1..Len(b) -> Byte]  BY <1>2 DEF Reverse
<1>4. back \in Seq(Byte) /\ Len(back) = Len(b)
  BY <1>1, <1>3
<1>5. Reverse(one) = one
  <2>1. Len(one) = 1 /\ one[1] = SofFirst  OBVIOUS
  <2>2. Reverse(one) = [i \in 1..1 |-> one[(1 - i) + 1]]  BY <2>1 DEF Reverse
  <2>3. Reverse(one) = [i \in 1..1 |-> SofFirst]
    <3>1. \A i \in 1..1 : one[(1 - i) + 1] = SofFirst  BY <2>1
    <3> QED  BY <2>2, <3>1
  <2> QED  BY <2>3
<1>6. IsSuffix(one, b) <=> 1 <= Len(b) /\ SubSeq(one, 1, 1) = SubSeq(back, 1, 1)
  <2>1. Len(one) = 1  OBVIOUS
  <2> QED  BY <1>4, <1>5, <2>1 DEF IsSuffix, IsPrefix
<1>7. ASSUME 1 <= Len(b)
      PROVE  SubSeq(one, 1, 1) = SubSeq(back, 1, 1) <=> b[Len(b)] = SofFirst
  <2>1. back[1] = b[Len(b)]  
    <3>1. 1 \in 1..Len(b) /\ (Len(b) - 1) + 1 = Len(b)  BY <1>1, <1>7
    <3> QED  BY <3>1 DEF Reverse
  <2> HIDE DEF back, one
  <2>2. /\ SubSeq(back, 1, 1) \in Seq(Byte) /\ Len(SubSeq(back, 1, 1)) = 1
        /\ SubSeq(back, 1, 1)[1] = back[1]
    <3>1. \A i \in 1..1 : back[i] \in Byte  BY <1>1, <1>3, <1>7
    <3> QED  BY <3>1, SubSeqProperties
  <2>3. /\ SubSeq(one, 1, 1) \in Seq(Byte) /\ Len(SubSeq(one, 1, 1)) = 1
        /\ SubSeq(one, 1, 1)[1] = SofFirst
    <3>1. \A i \in 1..1 : one[i] \in Byte /\ one[i] = SofFirst  BY BytesAre DEF one
    <3> QED  BY <3>1, SubSeqProperties
  <2>4. SubSeq(back, 1, 1)[1] = SubSeq(one, 1, 1)[1] => SubSeq(back, 1, 1) = SubSeq(one, 1, 1)
    <3> SUFFICES ASSUME SubSeq(back, 1, 1)[1] = SubSeq(one, 1, 1)[1]
                 PROVE  SubSeq(back, 1, 1) = SubSeq(one, 1, 1)
      OBVIOUS
    <3>1. \A i \in 1..1 : SubSeq(back, 1, 1)[i] = SubSeq(one, 1, 1)[i]  OBVIOUS
    <3> QED  BY <2>2, <2>3, <3>1, SeqEqual
  <2> QED  BY <2>1, <2>2, <2>3, <2>4
<1> QED  BY <1>1, <1>6, <1>7

LEMMA FromLast ==
  ASSUME NEW b \in Bytes, Len(b) > 0
  PROVE  From(b, Len(b)) = <<b[Len(b)]>>
<1>1. Len(b) \in Nat /\ Len(b) \in 1..Len(b)  
  <2>1. Len(b) \in Nat  BY LenProperties DEF Bytes
  <2> QED  BY <2>1
<1>2. Len(b) \in 1..(Len(b) + 1) /\ Len(b) + 1 - Len(b) = 1
      /\ 1 \in 1..(Len(b) + 1 - Len(b)) /\ 1 + Len(b) - 1 = Len(b)
  BY <1>1
<1> DEFINE x == b[Len(b)]
           c == From(b, Len(b))
<1>3. x \in Byte  BY <1>1, ElementOfSeq DEF Bytes
<1>4. c \in Bytes /\ Len(c) = 1 /\ c[1] = x
  <2>1. c \in Bytes /\ Len(c) = Len(b) + 1 - Len(b) /\ c[1] = b[1 + Len(b) - 1]
    BY <1>2, FromIs
  <2> QED  BY <1>2, <2>1
<1> HIDE DEF x, c
<1>5. <<x>> \in Bytes /\ Len(<<x>>) = 1 /\ <<x>>[1] = x  BY <1>3 DEF Bytes
<1>6. \A k \in 1..1 : c[k] = <<x>>[k]  BY <1>4, <1>5
<1>7. c = <<x>>  BY <1>4, <1>5, <1>6, SameBytes
<1> QED  BY <1>7 DEF c, x

LEMMA FromEnd ==
  ASSUME NEW b \in Bytes
  PROVE  From(b, Len(b) + 1) = <<>>
<1>1. Len(b) \in Nat /\ Len(b) < Len(b) + 1
  <2>1. Len(b) \in Nat  BY LenProperties DEF Bytes
  <2> QED  BY <2>1
<1> QED  BY <1>1, SubSeqEmpty DEF From

\* Both readers' rule in one: keep from the first place where a frame may begin.
LEMMA KeptIs ==
  ASSUME NEW b \in Bytes
  PROVE  \E i : FirstPossible(b, i) /\ Kept(b) = From(b, i)
<1> DEFINE sofs == {i \in DOMAIN b : SofAt(b, i)}
<1>1. Len(b) \in Nat /\ DOMAIN b = 1..Len(b) /\ (b = <<>> <=> Len(b) = 0)
      /\ \A k \in 1..Len(b) : b[k] \in Byte
  BY LenProperties, EmptySeq, ElementOfSeq DEF Bytes
<1>2. CASE sofs # {}
  <2>1. sofs \in SUBSET Nat  BY <1>1
  <2>2. Min(sofs) \in sofs /\ \A y \in sofs : Min(sofs) <= y
    BY <1>2, <2>1, MinIs
  <2>3. Kept(b) = From(b, Min(sofs))  BY <1>2 DEF Kept
  <2> DEFINE m == Min(sofs)
  <2>4. m \in 1..Len(b) /\ SofAt(b, m) /\ \A y \in 1..Len(b) : SofAt(b, y) => m <= y
    BY <1>1, <2>2
  <2> HIDE DEF m, sofs
  <2>5. ASSUME NEW j \in 1..(m - 1)  PROVE ~Possible(b, j)
    <3>1. Len(b) \in Nat /\ m \in 1..Len(b)  BY <1>1, <2>4
    <3>2. j \in 1..Len(b) /\ j # Len(b) /\ j # Len(b) + 1 /\ ~(m <= j)  BY <3>1
    <3> QED  BY <2>4, <3>2 DEF Possible
  <2>6. FirstPossible(b, m)
    <3>1. m \in 1..(Len(b) + 1)  BY <1>1, <2>4
    <3> QED  BY <2>4, <2>5, <3>1 DEF FirstPossible, Possible
  <2> QED  BY <2>3, <2>6 DEF m
<1>3. CASE sofs = {} /\ b # <<>> /\ b[Len(b)] = SofFirst
  <2>1. IsSuffix(<<SofFirst>>, b)  BY <1>3, EndsInSof
  <2>2. Kept(b) = <<SofFirst>>  BY <1>3, <2>1 DEF Kept
  <2>3. Len(b) \in 1..(Len(b) + 1) /\ Len(b) + 1 - Len(b) = 1  BY <1>1, <1>3
  <2>7. Kept(b) = From(b, Len(b))
    <3>1. Len(b) > 0  BY <1>1, <1>3
    <3> QED  BY <1>3, <2>2, <3>1, FromLast
  <2>8. ASSUME NEW j \in 1..(Len(b) - 1)  PROVE ~Possible(b, j)
    <3>1. Len(b) \in Nat /\ DOMAIN b = 1..Len(b)  BY <1>1
    <3>2. j \in 1..Len(b) /\ j # Len(b) /\ j # Len(b) + 1
      <4>1. Len(b) \in Nat  BY <3>1
      <4> QED  BY <4>1
    <3>3. j \in DOMAIN b  BY <3>1, <3>2
    <3> QED  BY <1>3, <3>2, <3>3 DEF Possible
  <2>9. FirstPossible(b, Len(b))  BY <1>3, <2>3, <2>8 DEF FirstPossible, Possible
  <2> QED  BY <2>7, <2>9
<1>4. CASE sofs = {} /\ ~(b # <<>> /\ b[Len(b)] = SofFirst)
  <2>1. ~IsSuffix(<<SofFirst>>, b)  BY <1>4, EndsInSof
  <2>2. Kept(b) = <<>>  BY <1>4, <2>1 DEF Kept
  <2>3. Len(b) + 1 \in 1..(Len(b) + 1) /\ Len(b) < Len(b) + 1  BY <1>1
  <2>4. From(b, Len(b) + 1) = <<>>  BY FromEnd
  <2>5. ASSUME NEW j \in 1..(Len(b) + 1 - 1)  PROVE ~Possible(b, j)
    <3>1. j \in DOMAIN b /\ b # <<>> /\ j # Len(b) + 1  BY <1>1
    <3> QED  BY <1>4, <3>1 DEF Possible
  <2>6. FirstPossible(b, Len(b) + 1)  BY <2>3, <2>5 DEF FirstPossible, Possible
  <2> QED  BY <2>2, <2>4, <2>6
<1> QED  BY <1>2, <1>3, <1>4

LEMMA KeptFrom ==
  ASSUME NEW b \in Bytes, NEW i, FirstPossible(b, i)
  PROVE  Kept(b) = From(b, i)
BY KeptIs, OneFirst

\* Where frames may begin does not depend on what comes before.
LEMMA PossibleShift ==
  ASSUME NEW b \in Bytes, NEW i \in 1..(Len(b) + 1)
  PROVE  \A n \in 1..(Len(From(b, i)) + 1) : Possible(From(b, i), n) <=> Possible(b, n + i - 1)
<1> DEFINE c == From(b, i)
<1>1. /\ c \in Bytes /\ Len(b) \in Nat /\ Len(c) \in Nat /\ Len(c) = Len(b) + 1 - i
      /\ \A n \in 1..(Len(b) + 1 - i) : c[n] = b[n + i - 1]
  BY FromIs
<1> HIDE DEF c
<1>2. \A n \in 1..(Len(c) + 1) : Possible(c, n) <=> Possible(b, n + i - 1)
  <2> TAKE n \in 1..(Len(c) + 1)
  <2>1. n \in Nat /\ i \in Nat /\ Len(c) \in Nat  BY <1>1
  <2>2. /\ n = Len(c) + 1 <=> n + i - 1 = Len(b) + 1
        /\ n = Len(c) <=> n + i - 1 = Len(b)
        /\ n < Len(c) <=> n + i - 1 < Len(b)
    BY <1>1, <2>1
  <2>3. CASE n = Len(c) + 1  BY <2>2, <2>3 DEF Possible
  <2>4. CASE n = Len(c)
    <3>1. c[n] = b[n + i - 1]  BY <1>1, <2>4
    <3>2. ~(n < Len(c)) /\ n # Len(c) + 1  BY <2>1, <2>4
    <3> QED  BY <2>2, <2>4, <3>1, <3>2 DEF Possible, SofAt
  <2>5. CASE n < Len(c)
    <3>1. c[n] = b[n + i - 1]  BY <1>1, <2>1, <2>5
    <3>2. n + 1 \in 1..(Len(b) + 1 - i) /\ n + 1 + i - 1 = n + i - 1 + 1  BY <1>1, <2>1, <2>5
    <3>3. c[n + 1] = b[n + i - 1 + 1]  BY <1>1, <3>2
    <3>4. n # Len(c) /\ n # Len(c) + 1  BY <2>1, <2>5
    <3> QED  BY <2>2, <2>5, <3>1, <3>3, <3>4 DEF Possible, SofAt
  <2> QED  BY <2>1, <2>3, <2>4, <2>5
<1> QED  BY <1>2 DEF c

\* Dropping bytes that no frame begins at changes nothing.
LEMMA KeptSkips ==
  ASSUME NEW b \in Bytes, NEW i \in 1..(Len(b) + 1),
         \A j \in 1..(i - 1) : ~Possible(b, j)
  PROVE  Kept(From(b, i)) = Kept(b)
<1>1. PICK m : FirstPossible(b, m) /\ Kept(b) = From(b, m)  BY KeptIs
<1> DEFINE c == From(b, i)
<1>2. /\ c \in Bytes /\ Len(b) \in Nat /\ Len(c) = Len(b) + 1 - i
      /\ \A n \in 1..(Len(b) + 1 - i) : c[n] = b[n + i - 1]
  BY FromIs
<1>3. m \in i..(Len(b) + 1)
  <2>1. m \in 1..(Len(b) + 1) /\ Possible(b, m)  BY <1>1 DEF FirstPossible
  <2>2. ~(m < i)  BY <1>2, <2>1
  <2> QED  BY <1>2, <2>1, <2>2
<1> DEFINE k == m - i + 1
<1> HIDE DEF c
<1>4. \A n \in 1..(Len(c) + 1) : Possible(c, n) <=> Possible(b, n + i - 1)
  BY PossibleShift DEF c
<1>5. k \in 1..(Len(c) + 1) /\ k + i - 1 = m  BY <1>2, <1>3
<1>6. Possible(c, k)  BY <1>1, <1>4, <1>5 DEF FirstPossible
<1>7. ASSUME NEW n \in 1..(k - 1)  PROVE ~Possible(c, n)
  <2>1. n \in 1..(Len(c) + 1) /\ n + i - 1 \in 1..(m - 1)  BY <1>2, <1>3
  <2> QED  BY <1>1, <1>4, <2>1 DEF FirstPossible
<1>8. Kept(c) = From(c, k)
  <2>1. FirstPossible(c, k)  BY <1>5, <1>6, <1>7 DEF FirstPossible
  <2> QED  BY <1>2, <2>1, KeptFrom
<1>9. From(c, k) = From(b, m)  BY <1>3, FromFrom DEF c
<1> QED  BY <1>1, <1>8, <1>9 DEF c

LEMMA KeptType ==
  ASSUME NEW b \in Bytes
  PROVE  /\ Kept(b) \in Bytes /\ Len(b) \in Nat
         /\ Len(Kept(b)) \in Nat /\ Len(Kept(b)) <= Len(b)
<1>1. PICK i : FirstPossible(b, i) /\ Kept(b) = From(b, i)  BY KeptIs
<1>2. i \in 1..(Len(b) + 1)  BY <1>1 DEF FirstPossible
<1>3. /\ From(b, i) \in Bytes
      /\ Len(b) \in Nat /\ Len(From(b, i)) \in Nat
      /\ Len(From(b, i)) = Len(b) + 1 - i
  BY <1>2, FromIs
<1> QED  BY <1>1, <1>2, <1>3

\* What is kept is kept again.
LEMMA KeptTwice ==
  ASSUME NEW b \in Bytes
  PROVE  Kept(Kept(b)) = Kept(b)
<1>1. PICK i : FirstPossible(b, i) /\ Kept(b) = From(b, i)  BY KeptIs
<1>2. i \in 1..(Len(b) + 1) /\ \A j \in 1..(i - 1) : ~Possible(b, j)
  BY <1>1 DEF FirstPossible
<1>3. Kept(From(b, i)) = Kept(b)  BY <1>2, KeptSkips
<1> QED  BY <1>1, <1>3

LEMMA FromFirst ==
  ASSUME NEW b \in Bytes
  PROVE  From(b, 1) = b
BY SubSeqFull DEF From, Bytes

\* A run that is kept as it is begins with a SOF, as far as it goes.
LEMMA KeptBegins ==
  ASSUME NEW b \in Bytes
  PROVE  /\ Kept(b) = b <=> Possible(b, 1)
         /\ Kept(b) = b /\ Len(b) = 1 => b[1] = SofFirst
         /\ Kept(b) = b /\ Len(b) > 1 => SofAt(b, 1)
<1>1. PICK i : FirstPossible(b, i) /\ Kept(b) = From(b, i)  BY KeptIs
<1>2. i \in 1..(Len(b) + 1) /\ Len(b) \in Nat /\ Len(From(b, i)) = Len(b) + 1 - i
  <2>1. i \in 1..(Len(b) + 1)  BY <1>1 DEF FirstPossible
  <2> QED  BY <2>1, FromIs
<1>3. Kept(b) = b => Possible(b, 1)
  <2>1. Kept(b) = b => i = 1  BY <1>1, <1>2
  <2> QED  BY <1>1, <2>1 DEF FirstPossible
<1>4. Possible(b, 1) => Kept(b) = b
  <2>1. 1 \in 1..(Len(b) + 1) /\ \A j \in 1..(1 - 1) : ~Possible(b, j)  BY <1>2
  <2>2. Possible(b, 1) => FirstPossible(b, 1)  BY <2>1 DEF FirstPossible
  <2> QED  BY <2>2, KeptFrom, FromFirst
<1>5. Len(b) = 1 /\ Possible(b, 1) => b[1] = SofFirst
  <2>1. Len(b) = 1 => ~(1 < Len(b)) /\ 1 # Len(b) + 1  OBVIOUS
  <2> QED  BY <2>1 DEF Possible, SofAt
<1>6. Len(b) > 1 /\ Possible(b, 1) => SofAt(b, 1)
  <2>1. Len(b) > 1 => 1 # Len(b) /\ 1 # Len(b) + 1
    <3>1. \A n \in Nat : n > 1 => 1 # n /\ 1 # n + 1  OBVIOUS
    <3>2. Len(b) \in Nat  BY <1>2
    <3> QED  BY <3>1, <3>2
  <2> QED  BY <2>1 DEF Possible
<1> QED  BY <1>3, <1>4, <1>5, <1>6

\* A byte later, only what was kept matters.
LEMMA KeptAppend ==
  ASSUME NEW b \in Bytes, NEW x \in Byte
  PROVE  Kept(Append(b, x)) = Kept(Append(Kept(b), x))
<1>1. PICK i : FirstPossible(b, i) /\ Kept(b) = From(b, i)  BY KeptIs
<1> DEFINE l == Append(b, x)
<1>2. /\ l \in Bytes /\ Len(b) \in Nat /\ Len(l) = Len(b) + 1
      /\ \A k \in 1..Len(b) : l[k] = b[k]
  BY AddIs
<1>3. i \in 1..(Len(b) + 1) /\ \A j \in 1..(i - 1) : ~Possible(b, j)
  BY <1>1 DEF FirstPossible
<1> HIDE DEF l
<1>4. ASSUME NEW j \in 1..(i - 1)  PROVE ~Possible(l, j)
  <2>1. j \in 1..Len(b) /\ j # Len(l) /\ j # Len(l) + 1  BY <1>2, <1>3
  <2>2. l[j] = b[j] /\ ~Possible(b, j)  BY <1>2, <1>3, <2>1
  <2>3. CASE j = Len(b)
    <3>1. b[j] # SofFirst  BY <2>2, <2>3 DEF Possible
    <3> QED  BY <2>1, <2>2, <3>1 DEF Possible, SofAt
  <2>4. CASE j # Len(b)
    <3>1. j + 1 \in 1..Len(b) /\ j < Len(b)  BY <1>2, <2>1, <2>4
    <3>2. l[j + 1] = b[j + 1]  BY <1>2, <3>1
    <3> QED  BY <2>1, <2>2, <3>1, <3>2 DEF Possible, SofAt
  <2> QED  BY <2>3, <2>4
<1>5. Kept(From(l, i)) = Kept(l)
  <2>1. i \in 1..(Len(l) + 1)  BY <1>2, <1>3
  <2> QED  BY <1>2, <1>4, <2>1, KeptSkips
<1>6. From(l, i) = Append(From(b, i), x)  BY <1>3, FromAppend DEF l
<1> QED  BY <1>1, <1>5, <1>6 DEF l

\* ------------------------------------------------------ the decoder's loop ----
\* One turn of the loop, when D says what the turns after it do.
Once(D, bytes) ==
  LET b == Kept(bytes)
  IN  IF Len(b) < HeaderSize THEN [buffer |-> b, frames |-> <<>>]
      ELSE IF ~SoundHeader(b) THEN D[Tail(b)]
      ELSE IF Len(b) < FrameLength(b) THEN [buffer |-> b, frames |-> <<>>]
      ELSE LET rest == D[From(b, FrameLength(b) + 1)]
           IN  [rest EXCEPT !.frames = Decode(SubSeq(b, 1, FrameLength(b))) \o @]

\* A header has its five bytes, and a frame is longer.
LEMMA HeaderIs ==
  ASSUME NEW b \in Bytes, Len(b) >= HeaderSize
  PROVE  /\ b[3] \in Byte /\ b[4] \in Byte /\ b[5] \in Byte
         /\ Len(b) \in Nat /\ FrameLength(b) \in Nat /\ FrameLength(b) > HeaderSize
<1>1. Len(b) \in Nat /\ {3, 4, 5} \subseteq 1..Len(b)
  BY LenProperties DEF Bytes, HeaderSize
<1>2. \A k \in 1..Len(b) : b[k] \in Byte  BY ElementOfSeq DEF Bytes
<1>3. b[4] \in Nat  BY <1>1, <1>2, BytesAre
<1> QED  BY <1>1, <1>2, <1>3 DEF FrameLength, HeaderSize, TrailerSize

LEMMA TailIs ==
  ASSUME NEW b \in Bytes, Len(b) > 0
  PROVE  Tail(b) = From(b, 2) /\ Tail(b) \in Bytes /\ Len(Tail(b)) = Len(b) - 1
<1>1. Len(b) \in Nat /\ b # <<>>  BY LenProperties, EmptySeq DEF Bytes
<1>2. 2 \in 1..(Len(b) + 1)  BY <1>1
<1>3. From(b, 2) \in Bytes /\ Len(From(b, 2)) = Len(b) + 1 - 2  BY <1>2, FromIs
<1>4. Tail(b) = From(b, 2)  BY <1>1, TailIsSubSeq DEF From, Bytes
<1>5. Len(b) + 1 - 2 = Len(b) - 1  BY <1>1
<1> QED  BY <1>3, <1>4, <1>5

\* A turn asks only about shorter runs.
LEMMA OnceAgrees ==
  ASSUME NEW s \in Bytes, NEW D, NEW E, \A t \in Bytes : Len(t) < Len(s) => D[t] = E[t]
  PROVE  Once(D, s) = Once(E, s)
<1> DEFINE b == Kept(s)
<1>1. b \in Bytes /\ Len(s) \in Nat /\ Len(b) \in Nat /\ Len(b) <= Len(s)  BY KeptType
<1> HIDE DEF b
<1>2. Len(b) >= HeaderSize => D[Tail(b)] = E[Tail(b)]
  <2> SUFFICES ASSUME Len(b) >= HeaderSize  PROVE D[Tail(b)] = E[Tail(b)]
    OBVIOUS
  <2>1. Len(b) > 0  BY <1>1 DEF HeaderSize
  <2>2. Tail(b) \in Bytes /\ Len(Tail(b)) < Len(s)  BY <1>1, <2>1, TailIs
  <2> QED  BY <2>2
<1>3. Len(b) >= HeaderSize /\ ~(Len(b) < FrameLength(b)) =>
        D[From(b, FrameLength(b) + 1)] = E[From(b, FrameLength(b) + 1)]
  <2> DEFINE n == FrameLength(b)
  <2> SUFFICES ASSUME Len(b) >= HeaderSize, ~(Len(b) < n)
               PROVE  D[From(b, n + 1)] = E[From(b, n + 1)]
    OBVIOUS
  <2>1. n \in Nat /\ n > 0  BY <1>1, HeaderIs DEF HeaderSize
  <2> HIDE DEF n
  <2>2. n + 1 \in 1..(Len(b) + 1)  BY <1>1, <2>1
  <2>3. From(b, n + 1) \in Bytes /\ Len(From(b, n + 1)) = Len(b) + 1 - (n + 1)
    BY <1>1, <2>2, FromIs
  <2>4. Len(From(b, n + 1)) < Len(s)  BY <1>1, <2>1, <2>3
  <2> QED  BY <2>3, <2>4
<1>4. CASE Len(b) < HeaderSize  BY <1>4 DEF Once, b
<1>5. CASE ~(Len(b) < HeaderSize)
  <2>1. Len(b) >= HeaderSize  BY <1>1, <1>5 DEF HeaderSize
  <2>2. CASE ~SoundHeader(b)  BY <1>2, <1>5, <2>1, <2>2 DEF Once, b
  <2>3. CASE SoundHeader(b) /\ Len(b) < FrameLength(b)  BY <1>5, <2>3 DEF Once, b
  <2>4. CASE SoundHeader(b) /\ ~(Len(b) < FrameLength(b))
    BY <1>3, <1>5, <2>1, <2>4 DEF Once, b
  <2> QED  BY <2>2, <2>3, <2>4
<1> QED  BY <1>4, <1>5

\* The decoder on runs shorter than n.
Upto(F, n) == F = [s \in Bytes |-> IF Len(s) < n THEN Once(F, s) ELSE Fresh]

LEMMA UptoExists == \A n \in Nat : \E F : Upto(F, n)
<1> DEFINE S == {n \in Nat : \E F : Upto(F, n)}
<1>0. \A s \in Bytes : Len(s) \in Nat  BY LenProperties DEF Bytes
<1>1. 0 \in S
  <2>1. Upto([s \in Bytes |-> Fresh], 0)
    <3>1. \A s \in Bytes : ~(Len(s) < 0)  BY <1>0
    <3> QED  BY <3>1 DEF Upto
  <2> QED  BY <2>1
<1>2. ASSUME NEW n \in Nat, n \in S  PROVE n + 1 \in S
  <2>1. PICK F : Upto(F, n)  BY <1>2
  <2> DEFINE G == [s \in Bytes |-> IF Len(s) < n + 1 THEN Once(F, s) ELSE Fresh]
  <2>2. ASSUME NEW s \in Bytes, Len(s) < n + 1
        PROVE  Once(F, s) = Once(G, s)
    <3>1. ASSUME NEW t \in Bytes, Len(t) < Len(s)  PROVE F[t] = G[t]
      <4>1. Len(t) < n /\ Len(t) < n + 1  BY <1>0, <2>2, <3>1
      <4>2. F[t] = Once(F, t)  BY <2>1, <4>1 DEF Upto
      <4>3. G[t] = Once(F, t)  BY <4>1
      <4> QED  BY <4>2, <4>3
    <3> HIDE DEF G
    <3> QED  BY <3>1, OnceAgrees
  <2>3. G = [s \in Bytes |-> IF Len(s) < n + 1 THEN Once(G, s) ELSE Fresh]
    <3> DEFINE H == [s \in Bytes |-> IF Len(s) < n + 1 THEN Once(G, s) ELSE Fresh]
    <3>1. \A s \in Bytes : (IF Len(s) < n + 1 THEN Once(F, s) ELSE Fresh)
                           = (IF Len(s) < n + 1 THEN Once(G, s) ELSE Fresh)
      <4> HIDE DEF G
      <4> QED  BY <2>2
    <3>2. \A s \in Bytes : G[s] = H[s]
      <4>1. \A s \in Bytes : G[s] = IF Len(s) < n + 1 THEN Once(F, s) ELSE Fresh  OBVIOUS
      <4> HIDE DEF G
      <4>2. \A s \in Bytes : H[s] = IF Len(s) < n + 1 THEN Once(G, s) ELSE Fresh  OBVIOUS
      <4> QED  BY <3>1, <4>1, <4>2
    <3>3. G = [s \in Bytes |-> G[s]]  OBVIOUS
    <3> HIDE DEF G
    <3>4. H = [s \in Bytes |-> H[s]]  OBVIOUS
    <3> HIDE DEF H
    <3>5. G = H  BY <3>2, <3>3, <3>4
    <3> QED  BY <3>5 DEF H
  <2> HIDE DEF G
  <2>4. Upto(G, n + 1)  BY <2>3 DEF Upto
  <2> QED  BY <2>4
<1> HIDE DEF S
<1>3. Nat \subseteq S  BY <1>1, <1>2, Induction
<1> QED  BY <1>3 DEF S

\* Induction over the length of a run.
LEMMA ByLength ==
  ASSUME NEW P,
         \A s \in Bytes : (\A t \in Bytes : Len(t) < Len(s) => t \in P) => s \in P
  PROVE  Bytes \subseteq P
<1> DEFINE S == {n \in Nat : \A s \in Bytes : Len(s) < n => s \in P}
<1>0. \A s \in Bytes : Len(s) \in Nat  BY LenProperties DEF Bytes
<1>1. 0 \in S
  <2>1. \A s \in Bytes : ~(Len(s) < 0)  BY <1>0
  <2> QED  BY <2>1
<1>2. ASSUME NEW n \in Nat, n \in S  PROVE n + 1 \in S
  <2>1. ASSUME NEW s \in Bytes, Len(s) < n + 1  PROVE s \in P
    <3>1. \A t \in Bytes : Len(t) < Len(s) => Len(t) < n  BY <1>0, <2>1
    <3>2. \A t \in Bytes : Len(t) < Len(s) => t \in P  BY <1>2, <3>1
    <3> QED  BY <3>2
  <2> QED  BY <2>1
<1> HIDE DEF S
<1>3. Nat \subseteq S  BY <1>1, <1>2, Induction
<1>4. ASSUME NEW s \in Bytes  PROVE s \in P
  <2>1. Len(s) \in Nat /\ Len(s) + 1 \in Nat /\ Len(s) < Len(s) + 1  BY <1>0
  <2>2. Len(s) + 1 \in S  BY <1>3, <2>1
  <2> QED  BY <2>1, <2>2 DEF S
<1> QED  BY <1>4

LEMMA UptoIs ==
  ASSUME NEW F, NEW n, Upto(F, n), NEW s \in Bytes, Len(s) < n
  PROVE  F[s] = Once(F, s)
BY DEF Upto

LEMMA UptoAgree ==
  ASSUME NEW F, NEW G, NEW m \in Nat, NEW n \in Nat, Upto(F, m), Upto(G, n)
  PROVE  \A s \in Bytes : Len(s) < m /\ Len(s) < n => F[s] = G[s]
<1> DEFINE P == {s \in Bytes : Len(s) < m /\ Len(s) < n => F[s] = G[s]}
<1>0. \A s \in Bytes : Len(s) \in Nat  BY LenProperties DEF Bytes
<1>1. ASSUME NEW s \in Bytes, \A t \in Bytes : Len(t) < Len(s) => t \in P
      PROVE  s \in P
  <2> SUFFICES ASSUME Len(s) < m, Len(s) < n  PROVE F[s] = G[s]
    OBVIOUS
  <2>1. \A t \in Bytes : Len(t) < Len(s) => F[t] = G[t]
    <3>1. \A t \in Bytes : Len(t) < Len(s) => Len(t) < m /\ Len(t) < n  BY <1>0
    <3> QED  BY <1>1, <3>1
  <2>2. Once(F, s) = Once(G, s)  BY <2>1, OnceAgrees
  <2> QED  BY <2>2, UptoIs
<1> HIDE DEF P
<1>2. Bytes \subseteq P  BY <1>1, ByLength
<1> QED  BY <1>2 DEF P

\* The loop is what its recursive definition says it is.
LEMMA DrainIs == \A s \in Bytes : Drain[s] = Once(Drain, s)
<1> DEFINE Part(n) == CHOOSE F : Upto(F, n)
           D == [s \in Bytes |-> Part(Len(s) + 1)[s]]
<1>0. \A s \in Bytes : Len(s) \in Nat /\ Len(s) + 1 \in Nat
  BY LenProperties DEF Bytes
<1>1. \A n \in Nat : Upto(Part(n), n)  BY UptoExists
<1> HIDE DEF Part
<1>2. ASSUME NEW s \in Bytes  PROVE D[s] = Once(D, s)
  <2> DEFINE F == Part(Len(s) + 1)
  <2>1. Upto(F, Len(s) + 1) /\ Len(s) < Len(s) + 1  BY <1>0, <1>1
  <2>2. ASSUME NEW t \in Bytes, Len(t) < Len(s)  PROVE F[t] = D[t]
    <3>1. Upto(Part(Len(t) + 1), Len(t) + 1)  BY <1>0, <1>1
    <3>2. Len(t) < Len(t) + 1 /\ Len(t) < Len(s) + 1  BY <1>0, <2>2
    <3> HIDE DEF F
    <3>3. F[t] = Part(Len(t) + 1)[t]  BY <1>0, <2>1, <3>1, <3>2, UptoAgree
    <3> QED  BY <3>3
  <2>3. D[s] = F[s]  OBVIOUS
  <2> HIDE DEF F, D
  <2>4. F[s] = Once(F, s)  BY <2>1, UptoIs
  <2>5. Once(F, s) = Once(D, s)  BY <2>2, OnceAgrees
  <2> QED  BY <2>3, <2>4, <2>5
<1>3. D = [s \in Bytes |-> Once(D, s)]
  <2>1. D = [s \in Bytes |-> D[s]]  OBVIOUS
  <2> HIDE DEF D
  <2>2. [s \in Bytes |-> D[s]] = [s \in Bytes |-> Once(D, s)]  BY <1>2
  <2> QED  BY <2>1, <2>2
<1> HIDE DEF D
<1>4. \E E : E = [s \in Bytes |-> Once(E, s)]  BY <1>3
<1>5. Drain = CHOOSE E : E = [s \in Bytes |-> Once(E, s)]  BY DEF Drain, Once, Bytes
<1>6. Drain = [s \in Bytes |-> Once(Drain, s)]  BY <1>4, <1>5
<1> QED  BY <1>6

Frame == [tag: Byte, payload: Seq(Byte)]

LEMMA ReaderIs == Reader = [buffer: Bytes, frames: Seq(Frame)]
BY DEF Reader, Bytes, Frame

\* A reader that had found fs before.
Before(fs, r) == [buffer |-> r.buffer, frames |-> fs \o r.frames]

LEMMA BeforeIs ==
  ASSUME NEW r \in Reader, NEW fs \in Seq(Frame)
  PROVE  /\ [r EXCEPT !.frames = fs \o @] = Before(fs, r)
         /\ Before(fs, r) \in Reader
         /\ Before(<<>>, r) = r
<1>1. r.buffer \in Bytes /\ r.frames \in Seq(Frame) /\ r = [buffer |-> r.buffer, frames |-> r.frames]
  BY ReaderIs
<1>2. fs \o r.frames \in Seq(Frame) /\ <<>> \o r.frames = r.frames
  BY <1>1, ConcatProperties, ConcatEmptySeq
<1>3. [r EXCEPT !.frames = fs \o @] = Before(fs, r)
  <2> DEFINE all == fs \o r.frames
  <2>1. all \in Seq(Frame)  BY <1>2
  <2> HIDE DEF all
  <2>2. [r EXCEPT !.frames = all] = [buffer |-> r.buffer, frames |-> all]
    BY <2>1, ReaderIs
  <2> QED  BY <2>2, Zenon DEF Before, all
<1> QED  BY <1>1, <1>2, <1>3, ReaderIs DEF Before

LEMMA BeforeBefore ==
  ASSUME NEW r \in Reader, NEW fs \in Seq(Frame), NEW gs \in Seq(Frame)
  PROVE  Before(fs, Before(gs, r)) = Before(fs \o gs, r)
<1>1. r.frames \in Seq(Frame)  BY ReaderIs
<1> DEFINE hs == r.frames
<1>2. hs \in Seq(Frame)  BY <1>1
<1> HIDE DEF hs
<1>3. (fs \o gs) \o hs = fs \o (gs \o hs)  BY <1>2, ConcatAssociative
<1> QED  BY <1>3, Zenon DEF Before, hs

\* A frame that is cut out of a run.
LEMMA DecodeType ==
  ASSUME NEW b \in Bytes, NEW n \in Nat, n > HeaderSize, n <= Len(b)
  PROVE  /\ SubSeq(b, 1, n) \in Bytes /\ Len(SubSeq(b, 1, n)) = n
         /\ Decode(SubSeq(b, 1, n)) \in Seq(Frame)
<1>1. Len(b) \in Nat /\ \A k \in 1..Len(b) : b[k] \in Byte
  BY LenProperties, ElementOfSeq DEF Bytes
<1> DEFINE raw == SubSeq(b, 1, n)
<1>2. raw \in Seq(Byte) /\ Len(raw) = n
  <2>1. \A k \in 1..n : b[k] \in Byte  BY <1>1
  <2>2. 1 <= n /\ n - 1 + 1 = n  BY DEF HeaderSize
  <2> QED  BY <2>1, <2>2, SubSeqProperties
<1> HIDE DEF raw
<1>3. 3 \in 1..Len(raw)  BY <1>2 DEF HeaderSize
<1>4. raw[3] \in Byte  BY <1>2, <1>3, ElementOfSeq
<1>5. Payload(raw) \in Seq(Byte)
  <2>1. \A k \in (HeaderSize + 1)..(Len(raw) - TrailerSize) : k \in 1..Len(raw)
    BY <1>2 DEF HeaderSize, TrailerSize
  <2>2. \A k \in (HeaderSize + 1)..(Len(raw) - TrailerSize) : raw[k] \in Byte
    BY <1>2, <2>1, ElementOfSeq
  <2>3. HeaderSize + 1 \in Int /\ Len(raw) - TrailerSize \in Int
    BY <1>2 DEF HeaderSize, TrailerSize
  <2> QED  BY <2>2, <2>3, SubSeqProperties DEF Payload
<1>6. [tag |-> raw[3], payload |-> Payload(raw)] \in Frame  BY <1>4, <1>5 DEF Frame
<1>7. Decode(raw) \in Seq(Frame)
  <2>1. <<[tag |-> raw[3], payload |-> Payload(raw)]>> \in Seq(Frame)  BY <1>6
  <2>2. <<>> \in Seq(Frame)  BY EmptySeq
  <2> QED  BY <2>1, <2>2 DEF Decode
<1> QED  BY <1>2, <1>7 DEF raw, Bytes

\* ------------------------------------------------- the loop, case by case ----
LEMMA DrainKept ==
  ASSUME NEW s \in Bytes
  PROVE  Drain[s] = Drain[Kept(s)]
<1>1. Kept(s) \in Bytes /\ Kept(Kept(s)) = Kept(s)  BY KeptType, KeptTwice
<1>2. Drain[s] = Once(Drain, s) /\ Drain[Kept(s)] = Once(Drain, Kept(s))
  BY <1>1, DrainIs
<1> QED  BY <1>1, <1>2 DEF Once

Waits(b) ==
  \/ Len(b) < HeaderSize
  \/ SoundHeader(b) /\ Len(b) < FrameLength(b)

LEMMA DrainWaits ==
  ASSUME NEW b \in Bytes, Kept(b) = b, Waits(b)
  PROVE  Drain[b] = [buffer |-> b, frames |-> <<>>]
BY DrainIs DEF Once, Waits

LEMMA DrainUnsound ==
  ASSUME NEW b \in Bytes, Kept(b) = b, Len(b) >= HeaderSize, ~SoundHeader(b)
  PROVE  Drain[b] = Drain[Tail(b)]
<1>1. ~(Len(b) < HeaderSize)  BY HeaderIs DEF HeaderSize
<1> QED  BY <1>1, DrainIs DEF Once

\* A whole frame, and what comes after it.
Whole(b) == Len(b) >= HeaderSize /\ SoundHeader(b) /\ Len(b) >= FrameLength(b)

First(b) == Decode(SubSeq(b, 1, FrameLength(b)))

Rest(b) == From(b, FrameLength(b) + 1)

LEMMA WholeIs ==
  ASSUME NEW b \in Bytes, Whole(b)
  PROVE  /\ First(b) \in Seq(Frame) /\ Rest(b) \in Bytes
         /\ FrameLength(b) \in Nat /\ FrameLength(b) > HeaderSize
         /\ Len(b) \in Nat /\ FrameLength(b) <= Len(b)
         /\ FrameLength(b) + 1 \in 1..(Len(b) + 1)
         /\ Len(Rest(b)) = Len(b) - FrameLength(b)
         /\ Len(Rest(b)) < Len(b)
<1> DEFINE n == FrameLength(b)
<1>1. Len(b) \in Nat /\ n \in Nat /\ n > HeaderSize /\ n <= Len(b)
  BY HeaderIs DEF Whole
<1> HIDE DEF n
<1>2. n + 1 \in 1..(Len(b) + 1) /\ n > 0  BY <1>1 DEF HeaderSize
<1>3. From(b, n + 1) \in Bytes /\ Len(From(b, n + 1)) = Len(b) + 1 - (n + 1)
  BY <1>2, FromIs
<1>4. Len(From(b, n + 1)) = Len(b) - n /\ Len(From(b, n + 1)) < Len(b)
  BY <1>1, <1>2, <1>3
<1>5. Decode(SubSeq(b, 1, n)) \in Seq(Frame)  BY <1>1, DecodeType
<1> QED  BY <1>1, <1>2, <1>3, <1>4, <1>5 DEF n, First, Rest

LEMMA DrainWhole ==
  ASSUME NEW b \in Bytes, Kept(b) = b, Whole(b), Drain[Rest(b)] \in Reader
  PROVE  Drain[b] = Before(First(b), Drain[Rest(b)])
<1>1. ~(Len(b) < HeaderSize) /\ ~(Len(b) < FrameLength(b))
  BY WholeIs DEF Whole, HeaderSize
<1>2. Drain[b] = Once(Drain, b)  BY DrainIs
<1>3. Drain[b] = [Drain[Rest(b)] EXCEPT !.frames = First(b) \o @]
  BY <1>1, <1>2 DEF Once, Whole, First, Rest
<1>4. First(b) \in Seq(Frame)  BY WholeIs
<1> QED  BY <1>3, <1>4, BeforeIs

LEMMA ThreeCases ==
  ASSUME NEW b \in Bytes
  PROVE  \/ Waits(b)
         \/ Len(b) >= HeaderSize /\ ~SoundHeader(b)
         \/ Whole(b)
<1>1. Len(b) \in Nat  BY LenProperties DEF Bytes
<1>2. Len(b) < HeaderSize \/ Len(b) >= HeaderSize  BY <1>1 DEF HeaderSize
<1>3. Len(b) >= HeaderSize => Len(b) < FrameLength(b) \/ Len(b) >= FrameLength(b)
  BY <1>1, HeaderIs
<1> QED  BY <1>2, <1>3 DEF Waits, Whole

\* A reader at rest: it keeps all it holds, and lacks bytes to go on.
Resting(r) == r \in Reader /\ Kept(r.buffer) = r.buffer /\ Waits(r.buffer)

\* The loop ends at rest.
LEMMA DrainRests == \A s \in Bytes : Resting(Drain[s])
<1> DEFINE P == {s \in Bytes : Resting(Drain[s])}
<1>1. ASSUME NEW s \in Bytes, \A t \in Bytes : Len(t) < Len(s) => t \in P
      PROVE  s \in P
  <2> DEFINE b == Kept(s)
  <2>1. b \in Bytes /\ Len(s) \in Nat /\ Len(b) \in Nat /\ Len(b) <= Len(s) /\ Kept(b) = b
    BY KeptType, KeptTwice
  <2>2. Drain[s] = Drain[b]  BY DrainKept
  <2> HIDE DEF b
  <2>3. CASE Waits(b)
    <3>1. Drain[b] = [buffer |-> b, frames |-> <<>>]  BY <2>1, <2>3, DrainWaits
    <3>2. <<>> \in Seq(Frame)  BY EmptySeq
    <3>3. Drain[b] \in Reader  BY <2>1, <3>1, <3>2, ReaderIs
    <3>4. Drain[b].buffer = b  BY <3>1
    <3> QED  BY <2>1, <2>2, <2>3, <3>3, <3>4 DEF Resting
  <2>4. CASE Len(b) >= HeaderSize /\ ~SoundHeader(b)
    <3>1. Drain[b] = Drain[Tail(b)]  BY <2>1, <2>4, DrainUnsound
    <3>2. Len(b) > 0  BY <2>1, <2>4 DEF HeaderSize
    <3>3. Tail(b) \in Bytes /\ Len(Tail(b)) < Len(s)  BY <2>1, <3>2, TailIs
    <3> QED  BY <1>1, <2>2, <3>1, <3>3
  <2>5. CASE Whole(b)
    <3>1. Rest(b) \in Bytes /\ Len(Rest(b)) < Len(s) /\ First(b) \in Seq(Frame)
      <4>1. Rest(b) \in Bytes /\ First(b) \in Seq(Frame)
            /\ Len(Rest(b)) \in Nat /\ Len(Rest(b)) < Len(b)
        BY <2>1, <2>5, WholeIs, LenProperties DEF Bytes
      <4> QED  BY <2>1, <4>1
    <3>2. Resting(Drain[Rest(b)])  BY <1>1, <3>1
    <3>3. Drain[b] = Before(First(b), Drain[Rest(b)])
      BY <2>1, <2>5, <3>2, DrainWhole DEF Resting
    <3>4. Drain[b] \in Reader /\ Drain[b].buffer = Drain[Rest(b)].buffer
      <4>1. Drain[b] \in Reader  BY <3>1, <3>2, <3>3, BeforeIs DEF Resting
      <4>2. Drain[b].buffer = Drain[Rest(b)].buffer  BY <3>3 DEF Before
      <4> QED  BY <4>1, <4>2
    <3> QED  BY <2>2, <3>2, <3>4 DEF Resting
  <2> QED  BY <2>1, <2>3, <2>4, <2>5, ThreeCases
<1> HIDE DEF P
<1>2. Bytes \subseteq P  BY <1>1, ByLength
<1> QED  BY <1>2 DEF P

\* ------------------------------------------------------------ a byte later ----
LEMMA HeaderStays ==
  ASSUME NEW b \in Bytes, NEW x \in Byte, Len(b) >= HeaderSize
  PROVE  /\ SoundHeader(Append(b, x)) <=> SoundHeader(b)
         /\ FrameLength(Append(b, x)) = FrameLength(b)
<1>1. Len(b) \in Nat /\ {3, 4, 5} \subseteq 1..Len(b)
  BY LenProperties DEF Bytes, HeaderSize
<1>2. \A k \in 1..Len(b) : Append(b, x)[k] = b[k]  BY AddIs
<1>3. Append(b, x)[3] = b[3] /\ Append(b, x)[4] = b[4] /\ Append(b, x)[5] = b[5]
  BY <1>1, <1>2
<1> DEFINE l == Append(b, x)
<1> HIDE DEF l
<1>4. l[3] = b[3] /\ l[4] = b[4] /\ l[5] = b[5]  BY <1>3 DEF l
<1>5. (SoundHeader(l) <=> SoundHeader(b)) /\ FrameLength(l) = FrameLength(b)
  BY <1>4 DEF SoundHeader, FrameLength
<1> QED  BY <1>5 DEF l

LEMMA PrefixStays ==
  ASSUME NEW b \in Bytes, NEW x \in Byte, NEW n \in 1..Len(b)
  PROVE  SubSeq(Append(b, x), 1, n) = SubSeq(b, 1, n)
<1>1. Len(b) \in Nat /\ 1 \in 1..Len(b)
  <2>1. Len(b) \in Nat  BY LenProperties DEF Bytes
  <2> QED  BY <2>1
<1>2. <<x>> \in Seq(Byte) /\ Append(b, x) = b \o <<x>>  BY AppendIsConcat DEF Bytes
<1>3. SubSeq(b \o <<x>>, 1, n) = SubSeq(b, 1, n)
  BY <1>1, <1>2, SubSeqOfConcat1 DEF Bytes
<1> QED  BY <1>2, <1>3

LEMMA KeptGrows ==
  ASSUME NEW b \in Bytes, NEW x \in Byte, Kept(b) = b, Len(b) > 1
  PROVE  Kept(Append(b, x)) = Append(b, x)
<1> DEFINE l == Append(b, x)
<1>1. SofAt(b, 1)  BY KeptBegins
<1>2. /\ l \in Bytes /\ Len(b) \in Nat /\ Len(l) = Len(b) + 1
      /\ \A k \in 1..Len(b) : l[k] = b[k]
  BY AddIs
<1> HIDE DEF l
<1>3. 1 \in 1..Len(b) /\ 1 + 1 \in 1..Len(b) /\ 1 < Len(l)  BY <1>2
<1>4. l[1] = b[1] /\ l[1 + 1] = b[1 + 1]  BY <1>2, <1>3
<1>5. SofAt(l, 1)  BY <1>1, <1>3, <1>4 DEF SofAt
<1>6. Kept(l) = l
  <2>1. Possible(l, 1)  BY <1>5 DEF Possible
  <2> QED  BY <1>2, <2>1, KeptBegins
<1> QED  BY <1>6 DEF l

\* What a reader is after one more byte, by the decoder's loop.
After(r, x) == Before(r.frames, Drain[Append(r.buffer, x)])

\* The loop on a longer run starts where the loop on the run had stopped.
LEMMA DrainAppend ==
  \A s \in Bytes : \A x \in Byte : Drain[Append(s, x)] = After(Drain[s], x)
<1> DEFINE P == {s \in Bytes : \A x \in Byte : Drain[Append(s, x)] = After(Drain[s], x)}
<1>1. ASSUME NEW s \in Bytes, \A t \in Bytes : Len(t) < Len(s) => t \in P
      PROVE  s \in P
  <2> SUFFICES ASSUME NEW x \in Byte  PROVE Drain[Append(s, x)] = After(Drain[s], x)
    OBVIOUS
  <2> DEFINE b == Kept(s)
             l == Append(b, x)
  <2>1. b \in Bytes /\ Len(s) \in Nat /\ Len(b) \in Nat /\ Len(b) <= Len(s) /\ Kept(b) = b
    BY KeptType, KeptTwice
  <2>2. Drain[s] = Drain[b]  BY DrainKept
  <2>3. Append(s, x) \in Bytes /\ l \in Bytes /\ Len(l) = Len(b) + 1
    BY <2>1, AddIs
  <2>4. Kept(Append(s, x)) = Kept(l)  BY KeptAppend
  <2>5. Drain[Append(s, x)] = Drain[l]
    <3>1. Drain[Append(s, x)] = Drain[Kept(Append(s, x))]  BY <2>3, DrainKept
    <3>2. Drain[l] = Drain[Kept(l)]  BY <2>3, DrainKept
    <3> QED  BY <2>4, <3>1, <3>2
  <2> HIDE DEF b
  <2>6. CASE Waits(b)
    <3>1. Drain[b] = [buffer |-> b, frames |-> <<>>]  BY <2>1, <2>6, DrainWaits
    <3>2. Drain[l] \in Reader  BY <2>3, DrainRests DEF Resting
    <3>3. Before(<<>>, Drain[l]) = Drain[l]
      <4>1. <<>> \in Seq(Frame)  BY EmptySeq
      <4> QED  BY <3>2, <4>1, BeforeIs
    <3>4. Drain[b].buffer = b /\ Drain[b].frames = <<>>  BY <3>1
    <3>5. After(Drain[b], x) = Before(<<>>, Drain[l])  BY <3>4 DEF After
    <3> QED  BY <2>2, <2>5, <3>3, <3>5
  <2>7. ASSUME Len(b) >= HeaderSize
        PROVE  /\ Kept(l) = l /\ Len(b) > 0 /\ Len(l) > 0 /\ Len(l) >= HeaderSize
               /\ SoundHeader(l) <=> SoundHeader(b)
               /\ FrameLength(l) = FrameLength(b)
    <3>1. Len(b) > 1 /\ Len(b) > 0 /\ Len(l) > 0 /\ Len(l) >= HeaderSize
      BY <2>1, <2>3, <2>7 DEF HeaderSize
    <3>2. Kept(l) = l  BY <2>1, <3>1, KeptGrows
    <3>3. (SoundHeader(l) <=> SoundHeader(b)) /\ FrameLength(l) = FrameLength(b)
      BY <2>1, <2>7, HeaderStays
    <3> QED  BY <3>1, <3>2, <3>3
  <2>8. CASE Len(b) >= HeaderSize /\ ~SoundHeader(b)
    <3>1. Drain[b] = Drain[Tail(b)]  BY <2>1, <2>8, DrainUnsound
    <3>2. Kept(l) = l /\ Len(b) > 0 /\ Len(l) > 0 /\ Len(l) >= HeaderSize /\ ~SoundHeader(l)
      BY <2>7, <2>8
    <3>3. Drain[l] = Drain[Tail(l)]
      <4> HIDE DEF l
      <4> QED  BY <2>3, <3>2, DrainUnsound
    <3>4. Tail(b) = From(b, 2) /\ Tail(b) \in Bytes /\ Len(Tail(b)) = Len(b) - 1
      BY <2>1, <3>2, TailIs
    <3>5. Tail(l) = From(l, 2)
      <4> HIDE DEF l
      <4> QED  BY <2>3, <3>2, TailIs
    <3>6. 2 \in 1..(Len(b) + 1)  BY <2>1, <3>2
    <3>7. Tail(l) = Append(Tail(b), x)  BY <2>1, <3>4, <3>5, <3>6, FromAppend
    <3>8. Len(Tail(b)) < Len(s)
      <4>1. \A m, n \in Nat : m <= n => m - 1 < n  OBVIOUS
      <4> QED  BY <2>1, <3>4, <4>1
    <3>9. Drain[Append(Tail(b), x)] = After(Drain[Tail(b)], x)  BY <1>1, <3>4, <3>8
    <3> QED  BY <2>2, <2>5, <3>1, <3>3, <3>7, <3>9
  <2>9. CASE Whole(b)
    <3>1. /\ First(b) \in Seq(Frame) /\ Rest(b) \in Bytes
          /\ FrameLength(b) \in Nat /\ FrameLength(b) > HeaderSize /\ FrameLength(b) <= Len(b)
          /\ FrameLength(b) + 1 \in 1..(Len(b) + 1)
          /\ Len(Rest(b)) < Len(b)
      BY <2>1, <2>9, WholeIs
    <3>2. /\ Kept(l) = l /\ Len(l) >= HeaderSize /\ SoundHeader(l)
          /\ FrameLength(l) = FrameLength(b)
      BY <2>7, <2>9 DEF Whole
    <3>3. Whole(l)
      <4>1. Len(l) >= FrameLength(l)  BY <2>1, <2>3, <3>1, <3>2
      <4> QED  BY <3>2, <4>1 DEF Whole
    <3>4. First(l) = First(b)
      <4>1. FrameLength(b) \in 1..Len(b)  BY <2>1, <3>1 DEF HeaderSize
      <4>2. SubSeq(l, 1, FrameLength(b)) = SubSeq(b, 1, FrameLength(b))
        BY <2>1, <4>1, PrefixStays
      <4> QED  BY <3>2, <4>2 DEF First
    <3>5. Rest(l) = Append(Rest(b), x)
      <4>1. From(l, FrameLength(b) + 1) = Append(From(b, FrameLength(b) + 1), x)
        BY <2>1, <3>1, FromAppend
      <4> QED  BY <3>2, <4>1 DEF Rest
    <3>6. Drain[Append(Rest(b), x)] = After(Drain[Rest(b)], x)
      <4>1. Len(Rest(b)) \in Nat  BY <3>1, LenProperties DEF Bytes
      <4>2. Len(Rest(b)) < Len(s)  BY <2>1, <3>1, <4>1
      <4> QED  BY <1>1, <3>1, <4>2
    <3> DEFINE r == Drain[Rest(b)]
               d == Drain[Append(r.buffer, x)]
    <3>7. r \in Reader /\ r.buffer \in Bytes /\ r.frames \in Seq(Frame)
      <4>1. r \in Reader  BY <3>1, DrainRests DEF Resting
      <4> QED  BY <4>1, ReaderIs
    <3>8. d \in Reader
      <4>1. Append(r.buffer, x) \in Bytes  BY <3>7, AddIs
      <4> QED  BY <4>1, DrainRests DEF Resting
    <3>9. Drain[b] = Before(First(b), r)  BY <2>1, <2>9, <3>7, DrainWhole
    <3>10. Drain[l] = Before(First(b), Before(r.frames, d))
      <4>1. Rest(l) \in Bytes /\ Drain[Rest(l)] = Before(r.frames, d)
        <5>1. Append(Rest(b), x) \in Bytes  BY <3>1, AddIs
        <5> QED  BY <3>5, <3>6, <5>1 DEF After
      <4>2. Drain[Rest(l)] \in Reader  BY <4>1, DrainRests DEF Resting
      <4>3. Drain[l] = Before(First(l), Drain[Rest(l)])
        <5> HIDE DEF l
        <5> QED  BY <2>3, <3>2, <3>3, <4>2, DrainWhole
      <4> QED  BY <3>4, <4>1, <4>3
    <3>11. After(Drain[b], x) = Before(First(b) \o r.frames, d)
      <4>1. Drain[b].buffer = r.buffer /\ Drain[b].frames = First(b) \o r.frames
        BY <3>9 DEF Before
      <4> HIDE DEF r
      <4> QED  BY <4>1 DEF After
    <3> HIDE DEF d, r
    <3>12. Before(First(b), Before(r.frames, d)) = Before(First(b) \o r.frames, d)
      BY <3>1, <3>7, <3>8, BeforeBefore
    <3> QED  BY <2>2, <2>5, <3>10, <3>11, <3>12
  <2> QED  BY <2>1, <2>6, <2>8, <2>9, ThreeCases
<1> HIDE DEF P
<1>2. Bytes \subseteq P  BY <1>1, ByLength
<1> QED  BY <1>2 DEF P

\* ------------------------------------------------------- the device's parser ----
\* The parser's search in a refused candidate finds what the decoder's would.
LEMMA SearchIsKept ==
  ASSUME NEW c \in Bytes, Len(c) > 1
  PROVE  KeepPossibleSof(c) = Kept(Tail(c))
<1> DEFINE sofs == {i \in 2..Len(c) : SofAt(c, i)}
           t == Tail(c)
           n == Len(c)
<1>1. n \in Nat /\ n > 1 /\ n > 0 /\ 2 \in 1..(n + 1)
  <2>1. Len(c) \in Nat  BY LenProperties DEF Bytes
  <2> QED  BY <2>1
<1>2. t \in Bytes /\ t = From(c, 2) /\ Len(t) = n - 1  BY <1>1, TailIs
<1>3. \A k \in 1..n : Possible(t, k) <=> Possible(c, k + 1)
  <2> HIDE DEF t, n
  <2>1. \A k \in 1..(Len(From(c, 2)) + 1) :
          Possible(From(c, 2), k) <=> Possible(c, k + 2 - 1)
    BY <1>1, PossibleShift DEF n
  <2>2. Len(t) + 1 = n  BY <1>1, <1>2
  <2>3. \A k \in 1..n : k + 2 - 1 = k + 1  BY <1>1
  <2> QED  BY <1>2, <2>1, <2>2, <2>3
<1>4. ASSUME NEW m \in 2..(n + 1), Possible(c, m),
             \A j \in 2..(m - 1) : ~Possible(c, j)
      PROVE  Kept(t) = From(c, m)
  <2> HIDE DEF n
  <2>1. m - 1 \in 1..n /\ m - 1 + 1 = m /\ n = Len(t) - 1 + 2 /\ m \in 2..(Len(c) + 1)
        /\ m - 2 + 1 = m - 1
    BY <1>1, <1>2 DEF n
  <2>2. Possible(t, m - 1)  BY <1>3, <1>4, <2>1
  <2>3. ASSUME NEW k \in 1..(m - 1 - 1)  PROVE ~Possible(t, k)
    <3>1. k \in 1..n /\ k + 1 \in 2..(m - 1)  BY <1>1, <1>4
    <3> QED  BY <1>3, <1>4, <3>1
  <2>4. m - 1 \in 1..(Len(t) + 1)
    <3>1. Len(t) + 1 = n  BY <1>1, <1>2
    <3> QED  BY <2>1, <3>1
  <2>5. FirstPossible(t, m - 1)  BY <2>2, <2>3, <2>4 DEF FirstPossible
  <2> HIDE DEF t
  <2>6. Kept(t) = From(t, m - 1)  BY <1>2, <2>5, KeptFrom
  <2>7. From(From(c, 2), m - 2 + 1) = From(c, m)  BY <1>1, <2>1, FromFrom DEF n
  <2> QED  BY <1>2, <2>1, <2>6, <2>7
<1>5. CASE sofs # {}
  <2> DEFINE m == Min(sofs)
  <2>1. sofs \in SUBSET Nat  BY <1>1
  <2>2. m \in sofs /\ \A y \in sofs : m <= y  BY <1>5, <2>1, MinIs
  <2>3. KeepPossibleSof(c) = From(c, m)  BY <1>5 DEF KeepPossibleSof
  <2>4. m \in 2..n /\ SofAt(c, m) /\ \A y \in 2..n : SofAt(c, y) => m <= y
    BY <2>2
  <2> HIDE DEF m, sofs, t
  <2>5. m \in 2..(n + 1) /\ Possible(c, m)
    <3>1. m \in 2..(n + 1)
      <4> HIDE DEF n
      <4> QED  BY <1>1, <2>4
    <3> QED  BY <2>4, <3>1 DEF Possible
  <2>6. ASSUME NEW j \in 2..(m - 1)  PROVE ~Possible(c, j)
    <3>1. j \in 2..n /\ j # n /\ j # n + 1 /\ ~(m <= j)
      <4> HIDE DEF n
      <4>1. m \in 2..n /\ n \in Nat  BY <1>1, <2>4
      <4> QED  BY <4>1
    <3> QED  BY <2>4, <3>1 DEF Possible
  <2> HIDE DEF n
  <2>7. Kept(t) = From(c, m)  BY <1>4, <2>5, <2>6
  <2> QED  BY <2>3, <2>7 DEF t
<1>6. ASSUME sofs = {}, NEW j \in 2..n  PROVE ~SofAt(c, j)
  BY <1>6
<1>7. CASE sofs = {} /\ c[n] = SofFirst
  <2>1. KeepPossibleSof(c) = <<SofFirst>>  BY <1>7 DEF KeepPossibleSof, Last
  <2>2. From(c, n) = <<SofFirst>>  BY <1>1, <1>7, FromLast
  <2>3. n \in 2..(n + 1) /\ Possible(c, n)
    <3>1. n \in 2..(n + 1)
      <4> HIDE DEF n
      <4> QED  BY <1>1
    <3> QED  BY <1>7, <3>1 DEF Possible
  <2>4. ASSUME NEW j \in 2..(n - 1)  PROVE ~Possible(c, j)
    <3>1. j \in 2..n /\ j # n /\ j # n + 1
      <4> HIDE DEF n
      <4> QED  BY <1>1
    <3> QED  BY <1>6, <1>7, <3>1 DEF Possible
  <2>5. Kept(t) = From(c, n)
    <3> HIDE DEF n, t
    <3> QED  BY <1>4, <2>3, <2>4
  <2> QED  BY <2>1, <2>2, <2>5
<1>8. CASE sofs = {} /\ c[n] # SofFirst
  <2>1. KeepPossibleSof(c) = <<>>  BY <1>8 DEF KeepPossibleSof, Last
  <2>2. From(c, n + 1) = <<>>  BY FromEnd
  <2>3. n + 1 \in 2..(n + 1) /\ Possible(c, n + 1)
    <3>1. n + 1 \in 2..(n + 1)
      <4> HIDE DEF n
      <4> QED  BY <1>1
    <3> QED  BY <3>1 DEF Possible
  <2>4. ASSUME NEW j \in 2..(n + 1 - 1)  PROVE ~Possible(c, j)
    <3>1. j \in 2..n /\ j # n + 1
      <4> HIDE DEF n
      <4> QED  BY <1>1
    <3> QED  BY <1>6, <1>8, <3>1 DEF Possible
  <2>5. Kept(t) = From(c, n + 1)
    <3> DEFINE m == n + 1
    <3>1. m \in 2..(n + 1) /\ Possible(c, m) /\ \A j \in 2..(m - 1) : ~Possible(c, j)
      BY <2>3, <2>4
    <3> HIDE DEF n, t, m
    <3>2. Kept(t) = From(c, m)  BY <1>4, <3>1
    <3> QED  BY <3>2 DEF m
  <2> QED  BY <2>1, <2>2, <2>5
<1> QED  BY <1>5, <1>7, <1>8

\* Nothing, and what comes of short runs.
LEMMA EmptyDrains == Drain[<<>>] = Fresh
<1>1. <<>> \in Bytes /\ Len(<<>>) = 0  BY EmptySeq DEF Bytes
<1>2. Kept(<<>>) = <<>>
  <2>1. Len(Kept(<<>>)) \in Nat /\ Len(Kept(<<>>)) <= 0 /\ Kept(<<>>) \in Bytes
    BY <1>1, KeptType
  <2> DEFINE k == Kept(<<>>)
  <2> HIDE DEF k
  <2>2. Len(k) = 0 /\ k \in Bytes  BY <2>1 DEF k
  <2>3. k = <<>>  BY <2>2, EmptySeq DEF Bytes
  <2> QED  BY <2>3 DEF k
<1>3. Waits(<<>>)  BY <1>1 DEF Waits, HeaderSize
<1> QED  BY <1>1, <1>2, <1>3, DrainWaits DEF Fresh

LEMMA DrainShort ==
  ASSUME NEW b \in Bytes, Len(b) < HeaderSize
  PROVE  Drain[b] = [buffer |-> Kept(b), frames |-> <<>>]
<1> DEFINE c == Kept(b)
<1>1. c \in Bytes /\ Len(b) \in Nat /\ Len(c) \in Nat /\ Len(c) <= Len(b) /\ Kept(c) = c
  BY KeptType, KeptTwice
<1>2. Drain[b] = Drain[c]  BY DrainKept
<1> HIDE DEF c
<1>3. Len(c) < HeaderSize  BY <1>1 DEF HeaderSize
<1>4. Drain[c] = [buffer |-> c, frames |-> <<>>]  BY <1>1, <1>3, DrainWaits DEF Waits
<1> QED  BY <1>2, <1>4 DEF c

\* What Push makes of a byte, apart from the frames found before.
Parsed(b, byte) ==
  CASE b = <<>> -> IF byte = SofFirst THEN [Fresh EXCEPT !.buffer = <<byte>>] ELSE Fresh
    [] Len(b) = 1 /\ byte = SofFirst -> [Fresh EXCEPT !.buffer = b]
    [] Len(b) = 1 /\ byte \notin {SofFirst, SofSecond} -> Fresh
    [] OTHER -> Parse(Append(b, byte))

Holding(b) == [buffer |-> b, frames |-> <<>>]

LEMMA ParsedIs ==
  ASSUME NEW b \in Bytes, NEW x \in Byte
  PROVE  /\ b = <<>> /\ x = SofFirst => Parsed(b, x) = Holding(<<x>>)
         /\ b = <<>> /\ x # SofFirst => Parsed(b, x) = Holding(<<>>)
         /\ Len(b) = 1 /\ x = SofFirst => Parsed(b, x) = Holding(b)
         /\ Len(b) = 1 /\ x \notin {SofFirst, SofSecond} => Parsed(b, x) = Holding(<<>>)
         /\ Len(b) = 1 /\ x = SofSecond => Parsed(b, x) = Parse(Append(b, x))
         /\ Len(b) > 1 => Parsed(b, x) = Parse(Append(b, x))
<1>1. Len(b) \in Nat /\ (b = <<>> <=> Len(b) = 0)
  BY LenProperties, EmptySeq DEF Bytes
<1>2. ASSUME NEW c  PROVE [Fresh EXCEPT !.buffer = c] = Holding(c)
  BY DEF Fresh, Holding
<1>3. Fresh = Holding(<<>>)  BY DEF Fresh, Holding
<1>4. CASE b = <<>>
  <2>1. Len(b) # 1 /\ ~(Len(b) > 1)  BY <1>1, <1>4
  <2>2. Parsed(b, x) = IF x = SofFirst THEN [Fresh EXCEPT !.buffer = <<x>>] ELSE Fresh
    BY <1>4, <2>1 DEF Parsed
  <2> QED  BY <1>2, <1>3, <1>4, <2>1, <2>2
<1>5. CASE Len(b) = 1
  <2>1. b # <<>> /\ ~(Len(b) > 1)  BY <1>1, <1>5
  <2>2. x = SofFirst => Parsed(b, x) = [Fresh EXCEPT !.buffer = b]
    BY <1>5, <2>1 DEF Parsed
  <2>3. x \notin {SofFirst, SofSecond} => Parsed(b, x) = Fresh
    BY <1>5, <2>1 DEF Parsed
  <2>4. x = SofSecond => Parsed(b, x) = Parse(Append(b, x))
    BY <1>5, <2>1, BytesAre DEF Parsed
  <2> QED  BY <1>2, <1>3, <2>1, <2>2, <2>3, <2>4
<1>6. CASE Len(b) > 1
  <2>1. b # <<>> /\ Len(b) # 1
    <3>1. \A n \in Nat : n > 1 => n # 0 /\ n # 1  OBVIOUS
    <3> QED  BY <1>1, <1>6, <3>1
  <2>2. Parsed(b, x) = Parse(Append(b, x))  BY <2>1 DEF Parsed
  <2> QED  BY <2>1, <2>2
<1> QED  BY <1>1, <1>4, <1>5, <1>6

LEMMA KeptOfNone ==
  ASSUME NEW b \in Bytes, \A j \in 1..Len(b) : ~Possible(b, j)
  PROVE  Kept(b) = <<>>
<1> DEFINE m == Len(b) + 1
<1>1. Len(b) \in Nat  BY LenProperties DEF Bytes
<1>2. m \in 1..(Len(b) + 1) /\ m - 1 = Len(b)  BY <1>1
<1>3. Possible(b, m)  BY DEF Possible
<1> HIDE DEF m
<1>4. FirstPossible(b, m)  BY <1>2, <1>3 DEF FirstPossible
<1>5. Kept(b) = From(b, m)  BY <1>4, KeptFrom
<1> QED  BY <1>5, FromEnd DEF m

\* A short run that no frame begins in is dropped, but for its last byte.
LEMMA KeptOfOne ==
  ASSUME NEW x \in Byte
  PROVE  /\ x = SofFirst => Kept(<<x>>) = <<x>>
         /\ x # SofFirst => Kept(<<x>>) = <<>>
<1> DEFINE l == <<x>>
<1>1. l \in Bytes /\ Len(l) = 1 /\ l[1] = x  BY DEF Bytes
<1> HIDE DEF l
<1>2. x = SofFirst => Kept(l) = l
  <2>1. x = SofFirst => Possible(l, 1)  BY <1>1 DEF Possible
  <2> QED  BY <1>1, <2>1, KeptBegins
<1>3. x # SofFirst => Kept(l) = <<>>
  <2> SUFFICES ASSUME x # SofFirst  PROVE Kept(l) = <<>>
    OBVIOUS
  <2>1. ~Possible(l, 1)  BY <1>1 DEF Possible, SofAt
  <2>2. \A j \in 1..Len(l) : ~Possible(l, j)  BY <1>1, <2>1
  <2> QED  BY <1>1, <2>2, KeptOfNone
<1> QED  BY <1>2, <1>3 DEF l

LEMMA KeptOfTwo ==
  ASSUME NEW b \in Bytes, Len(b) = 1, b[1] = SofFirst, NEW x \in Byte
  PROVE  /\ x = SofFirst => Kept(Append(b, x)) = b
         /\ x = SofSecond => Kept(Append(b, x)) = Append(b, x)
         /\ x \notin {SofFirst, SofSecond} => Kept(Append(b, x)) = <<>>
<1> DEFINE l == Append(b, x)
<1>1. l \in Bytes /\ Len(l) = 2 /\ l[1] = SofFirst /\ l[2] = x
  <2>1. /\ l \in Bytes /\ Len(l) = Len(b) + 1 /\ l[Len(b) + 1] = x
        /\ \A k \in 1..Len(b) : l[k] = b[k]
    BY AddIs
  <2> HIDE DEF l
  <2>2. 1 \in 1..Len(b) /\ Len(b) + 1 = 2  OBVIOUS
  <2> QED  BY <2>1, <2>2
<1> HIDE DEF l
<1>2. x = SofSecond => Kept(l) = l
  <2>1. x = SofSecond => Possible(l, 1)  BY <1>1 DEF Possible, SofAt
  <2> QED  BY <1>1, <2>1, KeptBegins
<1>3. x # SofSecond => ~Possible(l, 1)  BY <1>1 DEF Possible, SofAt
<1>4. x = SofFirst => Kept(l) = b
  <2> SUFFICES ASSUME x = SofFirst  PROVE Kept(l) = b
    OBVIOUS
  <2>1. Possible(l, 2)  BY <1>1 DEF Possible
  <2>2. 2 \in 1..(Len(l) + 1) /\ \A j \in 1..(2 - 1) : j = 1  BY <1>1
  <2>3. FirstPossible(l, 2)  BY <1>3, <2>1, <2>2, BytesAre DEF FirstPossible
  <2>4. Kept(l) = From(l, 2)  BY <1>1, <2>3, KeptFrom
  <2>5. From(l, 2) = <<x>>
    <3>1. Len(l) > 0 /\ l[Len(l)] = x  BY <1>1
    <3>2. From(l, Len(l)) = <<l[Len(l)]>>  BY <1>1, <3>1, FromLast
    <3> QED  BY <1>1, <3>1, <3>2
  <2>6. <<x>> = b
    <3> DEFINE o == <<x>>
    <3>1. o \in Bytes /\ Len(o) = 1 /\ o[1] = b[1]  BY DEF Bytes
    <3> HIDE DEF o
    <3>2. \A k \in 1..Len(o) : o[k] = b[k]  BY <3>1
    <3>3. o = b  BY <3>1, <3>2, SameBytes
    <3> QED  BY <3>3 DEF o
  <2> QED  BY <2>4, <2>5, <2>6
<1>5. x \notin {SofFirst, SofSecond} => Kept(l) = <<>>
  <2> SUFFICES ASSUME x \notin {SofFirst, SofSecond}  PROVE Kept(l) = <<>>
    OBVIOUS
  <2>1. ~Possible(l, 1) /\ ~Possible(l, 2)
    <3>1. ~Possible(l, 2)  BY <1>1 DEF Possible, SofAt
    <3> QED  BY <1>3, <3>1
  <2>2. \A j \in 1..2 : j = 1 \/ j = 2  OBVIOUS
  <2>3. \A j \in 1..Len(l) : ~Possible(l, j)  BY <1>1, <2>1, <2>2
  <2> QED  BY <1>1, <2>3, KeptOfNone
<1> QED  BY <1>2, <1>4, <1>5 DEF l

\* A candidate that the next byte lets the parser decide about has just become
\* decidable: five bytes, or a whole frame with nothing after it.
LEMMA ParseIs ==
  ASSUME NEW b \in Bytes, NEW x \in Byte, Waits(b),
         Kept(Append(b, x)) = Append(b, x), Len(b) > 0
  PROVE  Parse(Append(b, x)) = Drain[Append(b, x)]
<1> DEFINE l == Append(b, x)
<1>1. l \in Bytes /\ Len(b) \in Nat /\ Len(l) = Len(b) + 1 /\ Kept(l) = l  BY AddIs
<1>2. Len(b) >= HeaderSize =>
        /\ SoundHeader(b) /\ SoundHeader(l) /\ FrameLength(l) = FrameLength(b)
        /\ Len(b) < FrameLength(b)
  <2>1. Len(b) >= HeaderSize => ~(Len(b) < HeaderSize)  BY <1>1 DEF HeaderSize
  <2> QED  BY <2>1, HeaderStays DEF Waits
<1> HIDE DEF l
<1>3. CASE Len(l) < HeaderSize
  <2>1. Drain[l] = [buffer |-> l, frames |-> <<>>]  BY <1>1, <1>3, DrainWaits DEF Waits
  <2> QED  BY <1>3, <2>1 DEF Parse, l
<1>4. CASE Len(l) >= HeaderSize /\ ~SoundHeader(l)
  <2>1. Len(l) = HeaderSize
    <3>1. ~(Len(b) >= HeaderSize)  BY <1>2, <1>4
    <3> QED  BY <1>1, <1>4, <3>1 DEF HeaderSize
  <2>2. Len(l) > 0 /\ Len(l) > 1 /\ ~(Len(l) < HeaderSize)  BY <2>1 DEF HeaderSize
  <2>3. Tail(l) \in Bytes /\ Len(Tail(l)) < HeaderSize
    <3>1. Tail(l) \in Bytes /\ Len(Tail(l)) = Len(l) - 1  BY <1>1, <2>2, TailIs
    <3>2. HeaderSize - 1 < HeaderSize  BY DEF HeaderSize
    <3> QED  BY <2>1, <3>1, <3>2
  <2>4. Drain[l] = Drain[Tail(l)]  BY <1>1, <1>4, DrainUnsound
  <2>5. Drain[l] = [buffer |-> Kept(Tail(l)), frames |-> <<>>]
    BY <2>3, <2>4, DrainShort
  <2>6. KeepPossibleSof(l) = Kept(Tail(l))  BY <1>1, <2>2, SearchIsKept
  <2>7. Parse(l) = [buffer |-> KeepPossibleSof(l), frames |-> <<>>]
    BY <1>4, <2>2 DEF Parse
  <2> QED  BY <2>5, <2>6, <2>7 DEF l
<1>5. CASE Len(l) >= HeaderSize /\ SoundHeader(l) /\ Len(l) < FrameLength(l)
  <2>1. Drain[l] = [buffer |-> l, frames |-> <<>>]  BY <1>1, <1>5, DrainWaits DEF Waits
  <2>2. ~(Len(l) < HeaderSize)  BY <1>1, <1>5 DEF HeaderSize
  <2> QED  BY <1>5, <2>1, <2>2 DEF Parse, l
<1>6. CASE Whole(l)
  <2>1. /\ First(l) \in Seq(Frame) /\ Rest(l) \in Bytes
        /\ FrameLength(l) \in Nat /\ FrameLength(l) > HeaderSize /\ FrameLength(l) <= Len(l)
        /\ Len(l) \in Nat
        /\ Len(Rest(l)) = Len(l) - FrameLength(l)
    BY <1>1, <1>6, WholeIs
  <2>2. Len(l) = FrameLength(l)
    <3>1. CASE Len(b) >= HeaderSize  BY <1>1, <1>2, <2>1, <3>1
    <3>2. CASE ~(Len(b) >= HeaderSize)  BY <1>1, <2>1, <3>2 DEF HeaderSize
    <3> QED  BY <3>1, <3>2
  <2>3. Rest(l) = <<>>
    <3>1. Len(Rest(l)) = 0  BY <2>1, <2>2
    <3> QED  BY <2>1, <3>1, EmptySeq DEF Bytes
  <2>4. Drain[Rest(l)] = Fresh /\ Fresh \in Reader
    <3>1. Drain[<<>>] = Fresh /\ <<>> \in Bytes  BY EmptyDrains, EmptySeq DEF Bytes
    <3> QED  BY <2>3, <3>1, DrainRests DEF Resting
  <2>5. Drain[l] = Before(First(l), Fresh)  BY <1>1, <1>6, <2>4, DrainWhole
  <2>6. Before(First(l), Fresh) = [buffer |-> <<>>, frames |-> First(l)]
    <3>1. Fresh.buffer = <<>> /\ Fresh.frames = <<>>  BY DEF Fresh
    <3>2. First(l) \o <<>> = First(l)  BY <2>1, ConcatEmptySeq
    <3> QED  BY <3>1, <3>2 DEF Before
  <2>7. First(l) = Decode(l)
    <3>1. SubSeq(l, 1, Len(l)) = l  BY <1>1, SubSeqFull DEF Bytes
    <3> QED  BY <2>2, <3>1 DEF First
  <2>8. ~(Len(l) < HeaderSize) /\ SoundHeader(l) /\ ~(Len(l) < FrameLength(l))
    BY <1>6, <2>1, <2>2 DEF Whole, HeaderSize
  <2>9. Parse(l) = [buffer |-> <<>>, frames |-> Decode(l)]  BY <2>8 DEF Parse
  <2> QED  BY <2>5, <2>6, <2>7, <2>9 DEF l
<1>7. \/ Len(l) < HeaderSize
      \/ Len(l) >= HeaderSize /\ ~SoundHeader(l)
      \/ Len(l) >= HeaderSize /\ SoundHeader(l) /\ Len(l) < FrameLength(l)
      \/ Whole(l)
  <2>1. Len(l) < HeaderSize \/ Len(l) >= HeaderSize  BY <1>1 DEF HeaderSize
  <2>2. \/ Len(l) < HeaderSize
        \/ Len(l) >= HeaderSize /\ ~SoundHeader(l)
        \/ SoundHeader(l) /\ Len(l) < FrameLength(l)
        \/ Whole(l)
    BY <1>1, ThreeCases DEF Waits
  <2> QED  BY <2>1, <2>2
<1> QED  BY <1>3, <1>4, <1>5, <1>6, <1>7

\* A byte pushed is a byte more for the decoder's loop.
LEMMA PushIs ==
  ASSUME NEW r, Resting(r), NEW x \in Byte
  PROVE  Push(r, x) = After(r, x)
<1> DEFINE b == r.buffer
           l == Append(b, x)
<1>1. r \in Reader /\ b \in Bytes /\ Kept(b) = b /\ Waits(b) /\ r.frames \in Seq(Frame)
  BY ReaderIs DEF Resting
<1>2. l \in Bytes /\ Len(b) \in Nat /\ Len(l) = Len(b) + 1  BY <1>1, AddIs
<1>3. Drain[l] \in Reader  BY <1>2, DrainRests DEF Resting
<1>4. Push(r, x) = [Parsed(b, x) EXCEPT !.frames = r.frames \o @]
  BY DEF Push, Parsed
<1> HIDE DEF b
<1>5. Parsed(b, x) = Drain[l]
  <2>1. Len(l) < HeaderSize => Drain[l] = Holding(Kept(l))
    BY <1>2, DrainShort DEF Holding
  <2>2. CASE Len(b) = 0
    <3>1. b = <<>>  BY <1>1, <2>2, EmptySeq DEF Bytes
    <3>2. l = <<x>>  BY <3>1
    <3>3. Drain[l] = Holding(Kept(<<x>>))
      <4>1. Len(l) < HeaderSize  BY <1>2, <2>2 DEF HeaderSize
      <4> QED  BY <2>1, <3>2, <4>1
    <3> HIDE DEF l
    <3> QED  BY <1>1, <3>1, <3>3, ParsedIs, KeptOfOne
  <2>3. CASE Len(b) = 1
    <3>1. b[1] = SofFirst  BY <1>1, <2>3, KeptBegins
    <3>2. Drain[l] = Holding(Kept(l))
      <4>1. Len(l) < HeaderSize  BY <1>2, <2>3 DEF HeaderSize
      <4> QED  BY <2>1, <4>1
    <3>3. x \in {SofFirst, SofSecond} \/ x \notin {SofFirst, SofSecond}  OBVIOUS
    <3>4. CASE x = SofFirst
      <4>1. Parsed(b, x) = Holding(b)  BY <1>1, <2>3, <3>4, ParsedIs
      <4>2. Kept(l) = b  BY <1>1, <2>3, <3>1, <3>4, KeptOfTwo
      <4> QED  BY <3>2, <4>1, <4>2
    <3>5. CASE x = SofSecond
      <4>1. Parsed(b, x) = Parse(l)  BY <1>1, <2>3, <3>5, ParsedIs
      <4>2. Kept(l) = l  BY <1>1, <2>3, <3>1, <3>5, KeptOfTwo
      <4>3. Len(b) > 0  BY <2>3
      <4>4. Parse(l) = Drain[l]  BY <1>1, <4>2, <4>3, ParseIs
      <4> QED  BY <4>1, <4>4
    <3>6. CASE x \notin {SofFirst, SofSecond}
      <4>1. Parsed(b, x) = Holding(<<>>)  BY <1>1, <2>3, <3>6, ParsedIs
      <4>2. Kept(l) = <<>>  BY <1>1, <2>3, <3>1, <3>6, KeptOfTwo
      <4> QED  BY <3>2, <4>1, <4>2
    <3> QED  BY <3>3, <3>4, <3>5, <3>6
  <2>4. CASE Len(b) > 1
    <3>1. Kept(l) = l  BY <1>1, <2>4, KeptGrows
    <3>2. Len(b) > 0  BY <1>2, <2>4
    <3>3. Parse(l) = Drain[l]  BY <1>1, <3>1, <3>2, ParseIs
    <3>4. Parsed(b, x) = Parse(l)  BY <1>1, <2>4, ParsedIs
    <3> QED  BY <3>3, <3>4
  <2>5. \A n \in Nat : n = 0 \/ n = 1 \/ n > 1  OBVIOUS
  <2> QED  BY <1>2, <2>2, <2>3, <2>4, <2>5
<1>6. [Drain[l] EXCEPT !.frames = r.frames \o @] = Before(r.frames, Drain[l])
  BY <1>1, <1>3, BeforeIs
<1> QED  BY <1>4, <1>5, <1>6, Zenon DEF After, b

\* ------------------------------------------------------------- a whole read ----
\* A read taken byte by byte.
LEMMA PrefixGrows ==
  ASSUME NEW a \in Bytes, NEW d \in Bytes, NEW i \in 1..Len(d)
  PROVE  /\ a \o SubSeq(d, 1, i - 1) \in Bytes /\ d[i] \in Byte
         /\ a \o SubSeq(d, 1, i) = Append(a \o SubSeq(d, 1, i - 1), d[i])
<1>1. Len(d) \in Nat /\ d[i] \in Byte /\ i \in Nat /\ i - 1 \in Int /\ 1 \in 1..Len(d)
      /\ i \in 1..Len(d)
  <2>1. Len(d) \in Nat  BY LenProperties DEF Bytes
  <2> QED  BY <2>1, ElementOfSeq DEF Bytes
<1> DEFINE p == SubSeq(d, 1, i - 1)
           x == d[i]
<1>2. p \in Seq(Byte)
  <2>1. \A k \in 1..(i - 1) : k \in 1..Len(d)  BY <1>1
  <2>2. \A k \in 1..(i - 1) : d[k] \in Byte  BY <2>1, ElementOfSeq DEF Bytes
  <2> QED  BY <1>1, <2>2, SubSeqProperties
<1>3. SubSeq(d, 1, i) = p \o <<x>>  BY <1>1, SubSeqRecursiveSecond DEF Bytes
<1>4. x \in Byte  BY <1>1
<1> HIDE DEF p, x
<1>5. a \o p \in Seq(Byte)  BY <1>2, ConcatProperties DEF Bytes
<1>6. Append(a \o p, x) = (a \o p) \o <<x>>  BY <1>4, <1>5, AppendIsConcat
<1>7. <<x>> \in Seq(Byte)  BY <1>4
<1> DEFINE e == <<x>>
<1> HIDE DEF e
<1>8. (a \o p) \o e = a \o (p \o e)  BY <1>2, <1>7, ConcatAssociative DEF Bytes, e
<1> QED  BY <1>1, <1>3, <1>4, <1>5, <1>6, <1>8 DEF Bytes, p, x, e

LEMMA PrefixEnds ==
  ASSUME NEW a \in Bytes, NEW d \in Bytes
  PROVE  a \o SubSeq(d, 1, 0) = a /\ a \o SubSeq(d, 1, Len(d)) = a \o d
<1>1. SubSeq(d, 1, 0) = <<>>  BY SubSeqEmpty
<1>2. SubSeq(d, 1, Len(d)) = d  BY SubSeqFull DEF Bytes
<1> QED  BY <1>1, <1>2, ConcatEmptySeq DEF Bytes

\* The parser, pushed a read's bytes, is where the loop on all of them ends.
LEMMA PushAllIs ==
  ASSUME NEW s \in Bytes, NEW d \in Bytes
  PROVE  PushAll(Drain[s], d) = Drain[s \o d]
<1> DEFINE n == Len(d)
           f == [i \in 0..n |-> Drain[s \o SubSeq(d, 1, i)]]
           Step(g, i) == IF i = 0 THEN Drain[s] ELSE Push(g[i - 1], d[i])
<1>1. n \in Nat  BY LenProperties DEF Bytes
<1>2. f[0] = Drain[s] /\ f[n] = Drain[s \o d]
  <2>1. 0 \in 0..n /\ n \in 0..n  BY <1>1
  <2> QED  BY <2>1, PrefixEnds
<1>3. ASSUME NEW i \in 1..n  PROVE f[i] = Push(f[i - 1], d[i])
  <2>1. i \in 0..n /\ i - 1 \in 0..n  BY <1>1
  <2> DEFINE a == s \o SubSeq(d, 1, i - 1)
  <2>2. a \in Bytes /\ d[i] \in Byte /\ s \o SubSeq(d, 1, i) = Append(a, d[i])
    BY PrefixGrows
  <2>3. f[i] = Drain[Append(a, d[i])] /\ f[i - 1] = Drain[a]  BY <2>1, <2>2
  <2> HIDE DEF a, f
  <2>4. Drain[Append(a, d[i])] = After(Drain[a], d[i])  BY <2>2, DrainAppend
  <2>5. Push(Drain[a], d[i]) = After(Drain[a], d[i])  BY <2>2, DrainRests, PushIs
  <2> QED  BY <2>3, <2>4, <2>5
<1> HIDE DEF f
<1>4. ASSUME NEW g, g = [i \in 0..n |-> Step(g, i)]
      PROVE  g[n] = f[n]
  <2> DEFINE S == {i \in Nat : i <= n => g[i] = f[i]}
  <2>1. 0 \in S
    <3>1. 0 \in 0..n  BY <1>1
    <3>2. g[0] = Step(g, 0)  BY <1>4, <3>1
    <3> QED  BY <1>2, <3>2
  <2>2. ASSUME NEW i \in Nat, i \in S  PROVE i + 1 \in S
    <3> SUFFICES ASSUME i + 1 <= n  PROVE g[i + 1] = f[i + 1]
      OBVIOUS
    <3>1. i + 1 \in 1..n /\ i + 1 \in 0..n /\ i + 1 - 1 = i /\ i <= n /\ i + 1 # 0
      BY <1>1
    <3>2. g[i + 1] = Push(g[i], d[i + 1])
      <4>1. g[i + 1] = Step(g, i + 1)  BY <1>4, <3>1
      <4> QED  BY <3>1, <4>1
    <3>3. f[i + 1] = Push(f[i], d[i + 1])  BY <1>3, <3>1
    <3>4. g[i] = f[i]  BY <2>2, <3>1
    <3> QED  BY <3>2, <3>3, <3>4
  <2> HIDE DEF S
  <2>3. n \in S  BY <1>1, <2>1, <2>2, Induction
  <2> QED  BY <1>1, <2>3 DEF S
<1>5. \E g : g = [i \in 0..n |-> Step(g, i)]
  <2>1. f = [i \in 0..n |-> f[i]]  BY DEF f
  <2>2. \A i \in 0..n : f[i] = Step(f, i)
    <3>1. \A i \in 0..n : i = 0 \/ i \in 1..n  BY <1>1
    <3> QED  BY <1>2, <1>3, <3>1
  <2>3. [i \in 0..n |-> f[i]] = [i \in 0..n |-> Step(f, i)]  BY <2>2
  <2> QED  BY <2>1, <2>3
<1>6. PushAll(Drain[s], d) = (CHOOSE g : g = [i \in 0..n |-> Step(g, i)])[n]
  BY DEF PushAll
<1> QED  BY <1>2, <1>4, <1>5, <1>6

\* The decoder, fed a read, is there as well.
LEMMA FeedIs ==
  ASSUME NEW s \in Bytes, NEW d \in Bytes
  PROVE  Feed(Drain[s], d) = Drain[s \o d]
<1> DEFINE n == Len(d)
           r == Drain[s]
           b == r.buffer
           p(i) == SubSeq(d, 1, i)
<1>1. n \in Nat  BY LenProperties DEF Bytes
<1>2. r \in Reader /\ b \in Bytes /\ Kept(b) = b /\ Waits(b) /\ r.frames \in Seq(Frame)
      /\ r = [buffer |-> b, frames |-> r.frames]
  <2>1. Resting(r)  BY DrainRests
  <2> HIDE DEF r
  <2> QED  BY <2>1, ReaderIs DEF Resting
<1>3. s = s \o p(0) /\ b = b \o p(0) /\ s \o d = s \o p(n) /\ b \o d = b \o p(n)
  BY <1>2, PrefixEnds
<1> HIDE DEF r, b
<1> DEFINE S == {i \in Nat : i <= n => Before(r.frames, Drain[b \o p(i)]) = Drain[s \o p(i)]}
<1>4. 0 \in S
  <2>1. Drain[b] = [buffer |-> b, frames |-> <<>>]  BY <1>2, DrainWaits
  <2>2. Before(r.frames, Drain[b]) = [buffer |-> b, frames |-> r.frames \o <<>>]
    BY <2>1 DEF Before
  <2>3. r.frames \o <<>> = r.frames  BY <1>2, ConcatEmptySeq
  <2>4. Before(r.frames, Drain[b]) = r  BY <1>2, <2>2, <2>3
  <2> QED  BY <1>3, <2>4 DEF r
<1>5. ASSUME NEW i \in Nat, i \in S  PROVE i + 1 \in S
  <2> SUFFICES ASSUME i + 1 <= n
               PROVE  Before(r.frames, Drain[b \o p(i + 1)]) = Drain[s \o p(i + 1)]
    OBVIOUS
  <2> DEFINE j == i + 1
             x == d[j]
  <2>1. j \in 1..Len(d) /\ j - 1 = i /\ j = i + 1 /\ i <= n  BY <1>1
  <2>2. /\ x \in Byte /\ s \o p(i) \in Bytes /\ s \o p(j) = Append(s \o p(i), x)
        /\ b \o p(i) \in Bytes /\ b \o p(j) = Append(b \o p(i), x)
    <3> HIDE DEF j
    <3>1. s \o p(j - 1) \in Bytes /\ x \in Byte /\ s \o p(j) = Append(s \o p(j - 1), x)
      BY <2>1, PrefixGrows
    <3>2. b \o p(j - 1) \in Bytes /\ b \o p(j) = Append(b \o p(j - 1), x)
      BY <1>2, <2>1, PrefixGrows
    <3> QED  BY <2>1, <3>1, <3>2
  <2> DEFINE e == Drain[b \o p(i)]
             q == Drain[Append(e.buffer, x)]
  <2>3. Before(r.frames, e) = Drain[s \o p(i)]  BY <1>5, <2>1
  <2>4. Drain[b \o p(j)] = Before(e.frames, q)  BY <2>2, DrainAppend DEF After
  <2>5. Drain[s \o p(j)] = After(Before(r.frames, e), x)  BY <2>2, <2>3, DrainAppend
  <2>6. e \in Reader /\ e.buffer \in Bytes /\ e.frames \in Seq(Frame)
    <3>1. e \in Reader  BY <2>2, DrainRests DEF Resting
    <3> QED  BY <3>1, ReaderIs
  <2>7. q \in Reader
    <3>1. Append(e.buffer, x) \in Bytes  BY <2>2, <2>6, AddIs
    <3> QED  BY <3>1, DrainRests DEF Resting
  <2> HIDE DEF e, x
  <2>8. After(Before(r.frames, e), x) = Before(r.frames \o e.frames, q)
    BY DEF After, Before
  <2> HIDE DEF q
  <2>9. Before(r.frames, Before(e.frames, q)) = Before(r.frames \o e.frames, q)
    BY <1>2, <2>6, <2>7, BeforeBefore
  <2> QED  BY <2>4, <2>5, <2>8, <2>9
<1> HIDE DEF S
<1>6. n \in S  BY <1>1, <1>4, <1>5, Induction
<1>7. Before(r.frames, Drain[b \o d]) = Drain[s \o d]  BY <1>1, <1>3, <1>6 DEF S
<1>8. Drain[b \o d] \in Reader
  <2>1. b \o d \in Bytes  BY <1>2, ConcatProperties DEF Bytes
  <2> QED  BY <2>1, DrainRests DEF Resting
<1>9. [Drain[b \o d] EXCEPT !.frames = r.frames \o @] = Before(r.frames, Drain[b \o d])
  BY <1>2, <1>8, BeforeIs
<1> QED  BY <1>7, <1>9, Zenon DEF Feed, r, b

\* ------------------------------------------------- the stream as a whole ----
\* One step of Scan at place i, when G says what is found further on.
Found(G, s, i) ==
  LET sofs == {j \in i..Len(s) : SofAt(s, j)}
      at   == Min(sofs)
      b    == From(s, at)
  IN  IF sofs = {} \/ Len(b) < HeaderSize THEN <<>>
      ELSE IF ~SoundHeader(b) THEN G[at + 1]
      ELSE IF Len(b) < FrameLength(b) THEN <<>>
      ELSE Decode(SubSeq(b, 1, FrameLength(b))) \o G[at + FrameLength(b)]

\* The search finds, from a place on, what the loop finds in the bytes from there.
LEMMA FoundIs ==
  ASSUME NEW s \in Bytes, NEW i \in 1..(Len(s) + 1), NEW G,
         \A j \in 1..(Len(s) + 1) : j > i => G[j] = Drain[From(s, j)].frames
  PROVE  Found(G, s, i) = Drain[From(s, i)].frames
<1> DEFINE n == Len(s)
           sofs == {j \in i..n : SofAt(s, j)}
           c == From(s, i)
<1>1. n \in Nat /\ c \in Bytes /\ Len(c) \in Nat /\ Len(c) = n + 1 - i
  BY FromIs
<1>2. \A k \in 1..(Len(c) + 1) : Possible(c, k) <=> Possible(s, k + i - 1)
  BY PossibleShift
<1>3. ASSUME NEW m \in i..(n + 1), Possible(s, m), \A j \in i..(m - 1) : ~Possible(s, j)
      PROVE  Kept(c) = From(s, m)
  <2> HIDE DEF c
  <2> DEFINE k == m - i + 1
  <2>1. k \in 1..(Len(c) + 1) /\ k + i - 1 = m
    <3> HIDE DEF n
    <3> QED  BY <1>1
  <2>2. Possible(c, k)  BY <1>2, <1>3, <2>1
  <2>3. ASSUME NEW l \in 1..(k - 1)  PROVE ~Possible(c, l)
    <3>1. l \in 1..(Len(c) + 1) /\ l + i - 1 \in i..(m - 1)
      <4> HIDE DEF n
      <4> QED  BY <1>1
    <3> QED  BY <1>2, <1>3, <3>1
  <2>4. FirstPossible(c, k)  BY <2>1, <2>2, <2>3 DEF FirstPossible
  <2>5. Kept(c) = From(c, k)
    <3> HIDE DEF k
    <3> QED  BY <1>1, <2>4, KeptFrom
  <2>6. From(c, k) = From(s, m)  BY <1>1, <1>3, FromFrom DEF c
  <2> QED  BY <2>5, <2>6
<1>4. Drain[c] = Drain[Kept(c)] /\ Kept(c) \in Bytes /\ Kept(Kept(c)) = Kept(c)
  BY <1>1, DrainKept, KeptType, KeptTwice
<1>5. CASE sofs = {}
  <2>1. PICK k : FirstPossible(c, k) /\ Kept(c) = From(c, k)  BY <1>1, KeptIs
  <2>2. Len(Kept(c)) <= 1
    <3> SUFFICES ASSUME ~(Len(Kept(c)) <= 1)  PROVE FALSE
      OBVIOUS
    <3>1. Len(Kept(c)) > 1
      <4>1. Len(Kept(c)) \in Nat  BY <1>4, LenProperties DEF Bytes
      <4> QED  BY <4>1
    <3>2. k \in 1..(Len(c) + 1) /\ Possible(c, k)  BY <2>1 DEF FirstPossible
    <3>3. Len(Kept(c)) = Len(c) + 1 - k  BY <1>1, <2>1, <3>2, FromIs
    <3> DEFINE m == k + i - 1
    <3>4. m \in i..n /\ m # n /\ m # n + 1
      <4> HIDE DEF n, c
      <4> QED  BY <1>1, <3>1, <3>2, <3>3
    <3>5. Possible(s, m)  BY <1>2, <3>2
    <3>6. SofAt(s, m)  BY <3>4, <3>5 DEF Possible
    <3> QED  BY <1>5, <3>4, <3>6
  <2>3. Waits(Kept(c))
    <3>1. Len(Kept(c)) \in Nat  BY <1>4, LenProperties DEF Bytes
    <3>2. Len(Kept(c)) < HeaderSize  BY <2>2, <3>1 DEF HeaderSize
    <3> QED  BY <3>2 DEF Waits
  <2>4. Drain[c].frames = <<>>
    <3>1. Drain[Kept(c)] = [buffer |-> Kept(c), frames |-> <<>>]
      BY <1>4, <2>3, DrainWaits
    <3> QED  BY <1>4, <3>1
  <2>5. Found(G, s, i) = <<>>  BY <1>5 DEF Found
  <2> QED  BY <2>4, <2>5
<1>6. CASE sofs # {}
  <2> DEFINE at == Min(sofs)
             b == From(s, at)
  <2>1. sofs \in SUBSET Nat  BY <1>1
  <2>2. at \in sofs /\ \A y \in sofs : at <= y  BY <1>6, <2>1, MinIs
  <2>3. at \in i..n /\ SofAt(s, at) /\ \A y \in i..n : SofAt(s, y) => at <= y
    BY <2>2
  <2>4. Found(G, s, i) =
          IF Len(b) < HeaderSize THEN <<>>
          ELSE IF ~SoundHeader(b) THEN G[at + 1]
          ELSE IF Len(b) < FrameLength(b) THEN <<>>
          ELSE First(b) \o G[at + FrameLength(b)]
    BY <1>6 DEF Found, First
  <2> HIDE DEF at, sofs, c
  <2>5. at \in Nat /\ at \in 1..(n + 1) /\ at \in i..(n + 1) /\ at <= n /\ i <= at
    <3> HIDE DEF n
    <3>1. n \in Nat /\ i \in 1..(n + 1) /\ at \in i..n  BY <1>1, <2>3 DEF n
    <3> QED  BY <3>1
  <2>6. ASSUME NEW j \in i..(at - 1)  PROVE ~Possible(s, j)
    <3>1. j \in i..n /\ ~(at <= j) /\ j # n /\ j # n + 1
      <4> HIDE DEF n
      <4>1. n \in Nat /\ i \in Nat /\ at \in Nat /\ at <= n  BY <1>1, <2>5 DEF n
      <4> QED  BY <4>1
    <3> QED  BY <2>3, <3>1 DEF Possible
  <2>7. Kept(c) = b  BY <1>3, <2>3, <2>5, <2>6 DEF Possible
  <2>8. b \in Bytes /\ Len(b) = n + 1 - at /\ Kept(b) = b /\ Drain[c] = Drain[b]
    BY <1>4, <2>5, <2>7, FromIs
  <2> HIDE DEF b
  <2>9. CASE Waits(b)
    <3>1. Drain[b] = [buffer |-> b, frames |-> <<>>]  BY <2>8, <2>9, DrainWaits
    <3>2. Found(G, s, i) = <<>>
      <4>1. SoundHeader(b) \/ Len(b) < HeaderSize  BY <2>9 DEF Waits
      <4> QED  BY <2>4, <2>9, <4>1 DEF Waits
    <3> QED  BY <2>8, <3>1, <3>2 DEF c
  <2>10. CASE Len(b) >= HeaderSize /\ ~SoundHeader(b)
    <3>1. Drain[b] = Drain[Tail(b)]  BY <2>8, <2>10, DrainUnsound
    <3>2. Len(b) > 0 /\ ~(Len(b) < HeaderSize) /\ 2 \in 1..(Len(b) + 1)
      <4>1. Len(b) \in Nat  BY <2>8, LenProperties DEF Bytes
      <4> QED  BY <2>10, <4>1 DEF HeaderSize
    <3>3. Tail(b) = From(b, 2)  BY <2>8, <3>2, TailIs
    <3>4. From(b, 2) = From(s, at + 1)
      <4>1. at + 1 \in at..(n + 1) /\ at + 1 - at + 1 = 2
        <5> HIDE DEF n
        <5>1. n \in Nat  BY <1>1 DEF n
        <5> QED  BY <2>5, <5>1
      <4>2. From(From(s, at), at + 1 - at + 1) = From(s, at + 1)
        BY <2>5, <4>1, FromFrom
      <4> QED  BY <4>1, <4>2 DEF b
    <3>5. G[at + 1] = Drain[From(s, at + 1)].frames
      <4>1. at + 1 \in 1..(n + 1) /\ at + 1 > i
        <5> HIDE DEF n
        <5>1. n \in Nat /\ i \in Nat  BY <1>1 DEF n
        <5> QED  BY <2>5, <5>1
      <4> QED  BY <4>1
    <3> QED  BY <2>4, <2>8, <2>10, <3>1, <3>2, <3>3, <3>4, <3>5 DEF c
  <2>11. CASE Whole(b)
    <3> DEFINE f == FrameLength(b)
    <3>1. /\ First(b) \in Seq(Frame) /\ Rest(b) \in Bytes
          /\ f \in Nat /\ f > HeaderSize /\ Len(b) \in Nat /\ f <= Len(b)
      BY <2>8, <2>11, WholeIs
    <3>2. Drain[b] = Before(First(b), Drain[Rest(b)])
      <4>1. Drain[Rest(b)] \in Reader  BY <3>1, DrainRests DEF Resting
      <4> QED  BY <2>8, <2>11, <4>1, DrainWhole
    <3>3. ~(Len(b) < HeaderSize) /\ SoundHeader(b) /\ ~(Len(b) < f)
      BY <2>11, <3>1 DEF Whole, HeaderSize
    <3>4. Found(G, s, i) = First(b) \o G[at + f]  BY <2>4, <3>3
    <3> HIDE DEF f
    <3>5. at + f \in 1..(n + 1) /\ at + f > i /\ at + f \in at..(n + 1)
      <4> HIDE DEF n
      <4>1. n \in Nat /\ i \in Nat /\ f > 0  BY <1>1, <3>1 DEF n, HeaderSize
      <4>2. f <= n + 1 - at  BY <2>8, <3>1
      <4> QED  BY <2>5, <3>1, <4>1, <4>2
    <3>6. Rest(b) = From(s, at + f)
      <4> DEFINE j == at + f
      <4>1. j \in at..(Len(s) + 1) /\ at \in 1..(Len(s) + 1)  BY <2>5, <3>5
      <4>2. j - at + 1 = f + 1  BY <2>5, <3>1
      <4> HIDE DEF j
      <4>3. From(From(s, at), j - at + 1) = From(s, j)  BY <4>1, FromFrom
      <4> QED  BY <4>2, <4>3 DEF Rest, b, f, j
    <3>7. G[at + f] = Drain[Rest(b)].frames  BY <3>5, <3>6
    <3> QED  BY <2>8, <3>2, <3>4, <3>7 DEF Before, c
  <2> QED  BY <2>8, <2>9, <2>10, <2>11, ThreeCases
<1> QED  BY <1>5, <1>6

\* The frames of a whole run are those that the loop finds in it.
LEMMA ScanIs ==
  ASSUME NEW s \in Bytes
  PROVE  Scan(s) = Drain[s].frames
<1> DEFINE n == Len(s) + 1
           f == [i \in 1..n |-> Drain[From(s, i)].frames]
<1>1. Len(s) \in Nat /\ n \in Nat /\ 1 \in 1..n
  <2>1. Len(s) \in Nat  BY LenProperties DEF Bytes
  <2> QED  BY <2>1
<1>2. \E g : g = [i \in 1..n |-> Found(g, s, i)]
  <2>1. \A i \in 1..n : Found(f, s, i) = Drain[From(s, i)].frames
    <3> TAKE i \in 1..n
    <3>1. \A j \in 1..(Len(s) + 1) : j > i => f[j] = Drain[From(s, j)].frames
      OBVIOUS
    <3> HIDE DEF f
    <3> QED  BY <3>1, FoundIs
  <2>2. [i \in 1..n |-> Found(f, s, i)] = [i \in 1..n |-> Drain[From(s, i)].frames]
    <3> HIDE DEF f
    <3> QED  BY <2>1
  <2>3. f = [i \in 1..n |-> Found(f, s, i)]  BY <2>2
  <2> QED  BY <2>3
<1>3. ASSUME NEW g, g = [i \in 1..n |-> Found(g, s, i)]
      PROVE  g[1] = Drain[s].frames
  <2> DEFINE S == {k \in Nat : \A i \in 1..n : n - i < k => g[i] = Drain[From(s, i)].frames}
  <2> HIDE DEF n
  <2>1. 0 \in S
    <3>1. \A i \in 1..n : ~(n - i < 0)  BY <1>1
    <3> QED  BY <3>1
  <2>2. ASSUME NEW k \in Nat, k \in S  PROVE k + 1 \in S
    <3> SUFFICES ASSUME NEW i \in 1..n, n - i < k + 1
                 PROVE  g[i] = Drain[From(s, i)].frames
      OBVIOUS
    <3>1. ASSUME NEW j \in 1..n, j > i  PROVE g[j] = Drain[From(s, j)].frames
      <4>1. n - j < k  BY <1>1, <3>1
      <4> QED  BY <2>2, <4>1
    <3>2. Found(g, s, i) = Drain[From(s, i)].frames  BY <3>1, FoundIs DEF n
    <3> QED  BY <1>3, <3>2
  <2> HIDE DEF S
  <2>3. n \in S  BY <1>1, <2>1, <2>2, Induction
  <2>4. 1 \in 1..n /\ n - 1 < n  BY <1>1
  <2>5. g[1] = Drain[From(s, 1)].frames  BY <2>3, <2>4 DEF S
  <2> QED  BY <2>5, FromFirst
<1>4. Scan(s) = (CHOOSE g : g = [i \in 1..n |-> Found(g, s, i)])[1]
  BY DEF Scan, Found
<1> QED  BY <1>2, <1>3, <1>4

\* ----------------------------------------------------------------- steps ----
\* Both readers are where the decoder's loop ends on all that was read.
Inv ==
  /\ line \in Bytes /\ stream \in Bytes
  /\ decoder = Drain[stream] /\ parser = Drain[stream]

\* A frame, whatever becomes of it, is a run of bytes.
LEMMA EncodeType ==
  ASSUME NEW f \in Frames
  PROVE  Encode(f) \in Bytes
<1> DEFINE p == f.payload
<1>1. f.tag \in Byte /\ p \in BoundedSeq(Byte, MaxPayload)
  BY FrameAssumption
<1>2. PICK m \in 0..MaxPayload : p \in [1..m -> Byte]
  BY <1>1 DEF BoundedSeq, SeqOf
<1>3. m \in Nat /\ p \in Seq(Byte) /\ Len(p) = m
  BY <1>2, BytesAre
<1>4. m \in Byte /\ HeaderCrc(f.tag, m) \in Byte  BY <1>1, FrameAssumption
<1>5. <<PayloadCrc(p)>> \in Seq(Byte)
  <2>1. PayloadCrc(p) \in Byte  BY FrameAssumption
  <2> QED  BY <2>1
<1>6. <<SofFirst, SofSecond, f.tag, m, HeaderCrc(f.tag, m)>> \in Seq(Byte)
  BY <1>1, <1>4, BytesAre
<1> DEFINE h == <<SofFirst, SofSecond, f.tag, m, HeaderCrc(f.tag, m)>>
           t == <<PayloadCrc(p)>>
<1>7. Encode(f) = h \o p \o t  BY <1>3 DEF Encode
<1> HIDE DEF h, t
<1>8. h \o p \o t \in Seq(Byte)
  <2>1. h \o p \in Seq(Byte)  BY <1>3, <1>6, ConcatProperties DEF h
  <2> QED  BY <1>5, <2>1, ConcatProperties DEF t
<1> QED  BY <1>7, <1>8 DEF Bytes

LEMMA CutType ==
  ASSUME NEW s \in Bytes, NEW n \in 0..Len(s)
  PROVE  SubSeq(s, 1, n) \in Bytes
<1>1. \A k \in 1..n : s[k] \in Byte
  <2>1. \A k \in 1..n : k \in 1..Len(s)
    <3>1. Len(s) \in Nat  BY LenProperties DEF Bytes
    <3> QED  BY <3>1
  <2> QED  BY <2>1, ElementOfSeq DEF Bytes
<1>2. n \in Int  BY LenProperties DEF Bytes
<1> QED  BY <1>1, <1>2, SubSeqProperties DEF Bytes

LEMMA ArrivingType ==
  ASSUME NEW s \in Bytes, NEW a \in Arriving(s)
  PROVE  a \in Bytes
<1>1. Len(s) \in Nat /\ DOMAIN s = 1..Len(s)  BY LenProperties DEF Bytes
<1> DEFINE Cut     == UNION {{SubSeq(s, 1, i) \o From(s, j) : j \in (i + 1)..(Len(s) + 1)} : i \in 0..Len(s)}
           Changed == {[s EXCEPT ![i] = x] : i \in DOMAIN s, x \in Byte}
<1>2. ASSUME a \in Cut  PROVE a \in Bytes
  <2>1. PICK i \in 0..Len(s) :
          a \in {SubSeq(s, 1, i) \o From(s, j) : j \in (i + 1)..(Len(s) + 1)}
    BY <1>2
  <2>2. PICK j \in (i + 1)..(Len(s) + 1) : a = SubSeq(s, 1, i) \o From(s, j)
    BY <2>1
  <2>3. j \in 1..(Len(s) + 1)  BY <1>1
  <2>4. SubSeq(s, 1, i) \in Bytes /\ From(s, j) \in Bytes  BY <2>3, CutType, FromIs
  <2> QED  BY <2>2, <2>4, ConcatProperties DEF Bytes
<1>3. ASSUME a \in Changed  PROVE a \in Bytes
  <2>1. PICK i \in DOMAIN s, x \in Byte : a = [s EXCEPT ![i] = x]  BY <1>3
  <2>2. i \in 1..Len(s) /\ s \in Seq(Byte)  BY <1>1 DEF Bytes
  <2>3. [s EXCEPT ![i] = x] \in Seq(Byte)  BY <2>2, ExceptSeq
  <2> QED  BY <2>1, <2>3 DEF Bytes
<1>4. Arriving(s) = Cut \cup Changed  BY DEF Arriving
<1> HIDE DEF Cut, Changed
<1> QED  BY <1>2, <1>3, <1>4

LEMMA InitHolds == Init => Inv
<1> SUFFICES ASSUME Init  PROVE Inv
  OBVIOUS
<1>1. <<>> \in Bytes  BY EmptySeq DEF Bytes
<1> QED  BY <1>1, EmptyDrains DEF Init, Inv

LEMMA NextHolds == Inv /\ [Next]_vars => Inv'
<1> SUFFICES ASSUME Inv, [Next]_vars  PROVE Inv'
  OBVIOUS
<1>1. ASSUME NEW f \in Frames, Send(f)  PROVE Inv'
  <2>1. PICK s \in Arriving(Encode(f)) : line' = line \o s  BY <1>1 DEF Send
  <2>2. s \in Bytes  BY EncodeType, ArrivingType
  <2>3. line' \in Bytes  BY <2>1, <2>2, ConcatProperties DEF Inv, Bytes
  <2> QED  BY <1>1, <2>3 DEF Send, Inv
<1>2. ASSUME NEW x \in Byte, Noise(x)  PROVE Inv'
  <2>1. line' \in Bytes  BY <1>2, AddIs DEF Noise, Inv
  <2> QED  BY <1>2, <2>1 DEF Noise, Inv
<1>3. ASSUME NEW n \in 1..Len(line), Read(n)  PROVE Inv'
  <2> DEFINE d == SubSeq(line, 1, n)
  <2>1. line \in Bytes /\ stream \in Bytes /\ decoder = Drain[stream] /\ parser = Drain[stream]
    BY DEF Inv
  <2>2. Len(line) \in Nat /\ n \in 0..Len(line) /\ n + 1 \in 1..(Len(line) + 1)
    <3>1. Len(line) \in Nat  BY <2>1, LenProperties DEF Bytes
    <3> QED  BY <3>1
  <2>3. d \in Bytes  BY <2>1, <2>2, CutType
  <2>4. line' \in Bytes  BY <1>3, <2>1, <2>2, FromIs DEF Read
  <2>5. stream' = stream \o d /\ decoder' = Feed(decoder, d) /\ parser' = PushAll(parser, d)
    BY <1>3 DEF Read
  <2> HIDE DEF d
  <2>6. stream' \in Bytes  BY <2>1, <2>3, <2>5, ConcatProperties DEF Bytes
  <2>7. decoder' = Drain[stream']  BY <2>1, <2>3, <2>5, FeedIs
  <2>8. parser' = Drain[stream']  BY <2>1, <2>3, <2>5, PushAllIs
  <2> QED  BY <2>4, <2>6, <2>7, <2>8 DEF Inv
<1>4. CASE UNCHANGED vars  BY <1>4 DEF vars, Inv
<1> QED  BY <1>1, <1>2, <1>3, <1>4 DEF Next

LEMMA InvHolds == Spec => []Inv
BY InitHolds, NextHolds, PTL DEF Spec

\* -------------------------------------------------------------- theorems ----
\* The memory of both readers is bounded (StreamDecoder._buffer, iap_parser_t.buffer):
\* neither ever holds a whole frame of the greatest length.
THEOREM ReadersFit == Spec => []TypeOK
<1>1. Inv => TypeOK
  <2> SUFFICES ASSUME Inv  PROVE TypeOK
    OBVIOUS
  <2>1. Resting(decoder) /\ decoder = parser  BY DrainRests DEF Inv
  <2> DEFINE b == decoder.buffer
  <2>2. b \in Bytes /\ Waits(b) /\ Len(b) \in Nat
    <3>1. b \in Bytes /\ Waits(b)  BY <2>1, ReaderIs DEF Resting
    <3> QED  BY <3>1, LenProperties DEF Bytes
  <2> HIDE DEF b
  <2>3. Len(b) < HeaderSize + MaxPayload + TrailerSize
    <3>1. MaxPayload \in Nat  BY BytesAre
    <3>2. CASE Len(b) < HeaderSize
      BY <2>2, <3>1, <3>2 DEF HeaderSize, TrailerSize
    <3>3. CASE ~(Len(b) < HeaderSize)
      <4>1. b[4] <= MaxPayload /\ Len(b) < FrameLength(b)
        BY <2>2, <3>3 DEF Waits, SoundHeader
      <4>2. b[4] \in Nat
        <5>1. Len(b) >= HeaderSize  BY <2>2, <3>3 DEF HeaderSize
        <5> QED  BY <2>2, <5>1, HeaderIs, BytesAre
      <4> QED  BY <2>2, <3>1, <4>1, <4>2 DEF FrameLength, HeaderSize, TrailerSize
    <3> QED  BY <3>2, <3>3
  <2> QED  BY <2>1, <2>3 DEF TypeOK, Resting, Inv, Bytes, b
<1> QED  BY <1>1, InvHolds, PTL

\* Host and device hear the same (StreamDecoder.feed, iap_protocol_parser_push):
\* on any line, whatever the checksums are, and however it is cut into reads, they
\* have found the same frames and hold the same bytes.
THEOREM ReadersAgree == Spec => []Agree
<1>1. Inv => Agree  BY DEF Inv, Agree
<1> QED  BY <1>1, InvHolds, PTL

\* What the decoder has returned, read by read, are the frames of the whole stream
\* (StreamDecoder: "incrementally" from "an arbitrary byte stream").
THEOREM IncrementalDecoding == Spec => []IncrementalIsWhole
<1>1. Inv => IncrementalIsWhole  BY ScanIs DEF Inv, IncrementalIsWhole
<1> QED  BY <1>1, InvHolds, PTL

\* ---------------------------------------------------------------- repeats ----
LEMMA Division ==
  ASSUME NEW n \in Nat, NEW l \in Nat, l > 0
  PROVE  /\ n \div l \in Nat /\ n % l \in 0..(l - 1)
         /\ n = l * (n \div l) + (n % l)
OBVIOUS

LEMMA Remainder ==
  ASSUME NEW i \in Nat, NEW l \in Nat, NEW r \in 0..(l - 1)
  PROVE  (l * i + r) % l = r
OBVIOUS

\* Multiples of a length, in order.
LEMMA Multiples ==
  ASSUME NEW i \in Nat, NEW k \in Nat, NEW l \in Nat, i < k
  PROVE  /\ l * i \in Nat /\ l * k \in Nat
         /\ l * (i + 1) = l * i + l
         /\ l * i + l <= l * k
<1>1. l * i \in Nat /\ l * k \in Nat /\ l * (i + 1) = l * i + l  OBVIOUS
<1>2. PICK j \in Nat : k = i + 1 + j
  <2>1. k - (i + 1) \in Nat /\ k = i + 1 + (k - (i + 1))  OBVIOUS
  <2> QED  BY <2>1
<1>3. l * k = l * (i + 1) + l * j /\ l * j \in Nat  BY <1>2
<1> QED  BY <1>1, <1>3

\* k copies of e, one after the other.
Copies(e, k) == [j \in 1..(Len(e) * k) |-> e[((j - 1) % Len(e)) + 1]]

LEMMA CopiesAre ==
  ASSUME NEW e \in Bytes, Len(e) > 0, NEW k \in Nat
  PROVE  /\ Copies(e, k) \in Bytes
         /\ Len(e) * k \in Nat /\ Len(Copies(e, k)) = Len(e) * k
         /\ \A i \in 0..(k - 1) : \A q \in 1..Len(e) :
              /\ Len(e) * i + q \in 1..(Len(e) * k)
              /\ Copies(e, k)[Len(e) * i + q] = e[q]
<1> DEFINE l == Len(e)
<1>1. l \in Nat /\ l > 0 /\ l * k \in Nat
  <2>1. l \in Nat  BY LenProperties DEF Bytes
  <2> HIDE DEF l
  <2>2. l * k \in Nat  BY <2>1
  <2> QED  BY <2>1, <2>2 DEF l
<1>2. ASSUME NEW j \in 1..(l * k)  PROVE e[((j - 1) % l) + 1] \in Byte
  <2> HIDE DEF l
  <2>1. j - 1 \in Nat  BY <1>1
  <2>2. (j - 1) % l \in 0..(l - 1)  BY <1>1, <2>1, Division
  <2>3. ((j - 1) % l) + 1 \in 1..l  BY <1>1, <2>2
  <2> QED  BY <2>3, ElementOfSeq DEF l, Bytes
<1>3. Copies(e, k) \in [1..(l * k) -> Byte]  BY <1>2 DEF Copies
<1>4. Copies(e, k) \in Seq(Byte) /\ Len(Copies(e, k)) = l * k
  <2> HIDE DEF l
  <2> QED  BY <1>1, <1>3
<1>5. ASSUME NEW i \in 0..(k - 1), NEW q \in 1..l
      PROVE  /\ l * i + q \in 1..(l * k)
             /\ Copies(e, k)[l * i + q] = e[q]
  <2> HIDE DEF l
  <2>1. i \in Nat /\ i < k /\ q \in Nat /\ q - 1 \in 0..(l - 1)  BY <1>1
  <2>2. l * i \in Nat /\ l * i + l <= l * k  BY <1>1, <2>1, Multiples
  <2>3. l * i + q \in 1..(l * k) /\ (l * i + q) - 1 = l * i + (q - 1)
    BY <1>1, <2>1, <2>2
  <2>4. (l * i + (q - 1)) % l = q - 1  BY <1>1, <2>1, Remainder
  <2>5. Copies(e, k)[l * i + q] = e[(((l * i + q) - 1) % l) + 1]
    BY <2>3 DEF Copies, l
  <2>6. (q - 1) + 1 = q  BY <2>1
  <2> QED  BY <2>3, <2>4, <2>5, <2>6
<1> QED  BY <1>1, <1>4, <1>5 DEF Bytes

LEMMA PlaceInCopies ==
  ASSUME NEW l \in Nat, l > 0, NEW k \in Nat, NEW j \in 1..(l * k)
  PROVE  \E i \in 0..(k - 1), q \in 1..l : j = l * i + q
<1> DEFINE i == (j - 1) \div l
           r == (j - 1) % l
<1>1. l * k \in Nat /\ j - 1 \in Nat /\ j - 1 < l * k /\ j \in Nat  BY Multiples
<1>2. i \in Nat /\ r \in 0..(l - 1) /\ j - 1 = l * i + r  BY <1>1, Division
<1> HIDE DEF i, r
<1>3. i < k
  <2> SUFFICES ASSUME ~(i < k)  PROVE FALSE
    OBVIOUS
  <2>1. PICK d \in Nat : i = k + d
    <3>1. i - k \in Nat /\ i = k + (i - k)  BY <1>2
    <3> QED  BY <3>1
  <2>2. l * i = l * k + l * d /\ l * d \in Nat  BY <2>1
  <2> QED  BY <1>1, <1>2, <2>2
<1>4. i \in 0..(k - 1) /\ r + 1 \in 1..l /\ j = l * i + (r + 1)
  <2>1. l * i \in Nat  BY <1>2
  <2> QED  BY <1>1, <1>2, <1>3, <2>1
<1> QED  BY <1>4

\* One copy more.
LEMMA CopyMore ==
  ASSUME NEW e \in Bytes, Len(e) > 0, NEW k \in Nat
  PROVE  Copies(e, k) \o e = Copies(e, k + 1)
<1> DEFINE l == Len(e)
           c == Copies(e, k)
           d == Copies(e, k + 1)
<1>1. l \in Nat /\ l > 0 /\ k + 1 \in Nat  BY LenProperties DEF Bytes
<1>2. /\ c \in Bytes /\ l * k \in Nat /\ Len(c) = l * k
      /\ \A i \in 0..(k - 1) : \A q \in 1..l :
           /\ l * i + q \in 1..(l * k)
           /\ c[l * i + q] = e[q]
  BY CopiesAre
<1>3. /\ d \in Bytes /\ l * (k + 1) \in Nat /\ Len(d) = l * (k + 1)
      /\ \A i \in 0..((k + 1) - 1) : \A q \in 1..l :
           /\ l * i + q \in 1..(l * (k + 1))
           /\ d[l * i + q] = e[q]
  BY <1>1, CopiesAre
<1> HIDE DEF c, d
<1>4. /\ c \o e \in Bytes /\ Len(c \o e) = l * k + l
      /\ \A j \in 1..(l * k + l) : (c \o e)[j] = IF j <= l * k THEN c[j] ELSE e[j - l * k]
  <2>1. /\ c \o e \in Bytes /\ Len(c \o e) = Len(c) + Len(e)
        /\ \A j \in 1..(Len(c) + Len(e)) :
             (c \o e)[j] = IF j <= Len(c) THEN c[j] ELSE e[j - Len(c)]
    <3>1. c \in Bytes  BY <1>2
    <3> HIDE DEF l
    <3> QED  BY <3>1, ConcatProperties DEF Bytes
  <2>2. Len(c) = l * k /\ Len(e) = l  BY <1>2
  <2> HIDE DEF l
  <2> QED  BY <2>1, <2>2
<1> HIDE DEF l
<1>5. l * (k + 1) = l * k + l  BY <1>1
<1>6. ASSUME NEW j \in 1..(l * (k + 1))  PROVE (c \o e)[j] = d[j]
  <2>1. PICK i \in 0..((k + 1) - 1), q \in 1..l : j = l * i + q
    BY <1>1, PlaceInCopies
  <2>2. d[j] = e[q]  BY <1>3, <2>1
  <2>3. CASE i = k
    <3>1. ~(j <= l * k) /\ j - l * k = q /\ j \in 1..(l * k + l)
      BY <1>1, <1>2, <1>5, <2>1, <2>3
    <3>2. (c \o e)[j] = e[j - l * k]  BY <1>4, <3>1
    <3> QED  BY <2>2, <3>1, <3>2
  <2>4. CASE i # k
    <3>1. i \in 0..(k - 1)  BY <2>1, <2>4
    <3>2. j \in 1..(l * k) /\ c[j] = e[q]  BY <1>2, <2>1, <3>1
    <3>3. j <= l * k /\ j \in 1..(l * k + l)  BY <1>1, <1>2, <3>2
    <3> QED  BY <1>4, <2>2, <3>2, <3>3
  <2> QED  BY <2>3, <2>4
<1>7. c \o e = d
  <2>1. Len(c \o e) = l * (k + 1) /\ Len(d) = l * (k + 1)  BY <1>3, <1>4, <1>5
  <2> QED  BY <1>3, <1>4, <1>6, <2>1, SameBytes
<1> QED  BY <1>7 DEF c, d

LEMMA FlattenIs ==
  ASSUME NEW e \in Bytes, Len(e) > 0, NEW k \in Nat, k > 0
  PROVE  FlattenSeq([i \in 1..k |-> e]) = Copies(e, k)
<1> DEFINE s == [i \in 1..k |-> e]
           Step(g, i) == IF i = 1 THEN s[i] ELSE g[i - 1] \o s[i]
           f == [i \in 1..k |-> Copies(e, i)]
<1>1. Len(s) = k /\ \A i \in 1..k : s[i] = e  OBVIOUS
<1>2. Copies(e, 1) = e
  <2>1. Copies(e, 0) \o e = Copies(e, 0 + 1)  BY CopyMore
  <2>2. Copies(e, 0) \in Bytes /\ Len(Copies(e, 0)) = Len(e) * 0  BY CopiesAre
  <2>3. Len(e) * 0 = 0
    <3>1. Len(e) \in Nat  BY LenProperties DEF Bytes
    <3> QED  BY <3>1
  <2> DEFINE z == Copies(e, 0)
  <2> HIDE DEF z
  <2>4. z = <<>>
    <3>1. z \in Bytes /\ Len(z) = 0  BY <2>2, <2>3 DEF z
    <3> QED  BY <3>1, EmptySeq DEF Bytes
  <2>5. z \o e = e  BY <2>4, ConcatEmptySeq DEF Bytes
  <2>6. 0 + 1 = 1  OBVIOUS
  <2> QED  BY <2>1, <2>5, <2>6 DEF z
<1>3. ASSUME NEW i \in 1..k, i # 1  PROVE Copies(e, i) = Copies(e, i - 1) \o e /\ i - 1 \in 1..k
  <2>1. i - 1 \in Nat /\ (i - 1) + 1 = i /\ i - 1 \in 1..k  BY <1>3
  <2>2. Copies(e, i - 1) \o e = Copies(e, (i - 1) + 1)  BY <2>1, CopyMore
  <2> QED  BY <2>1, <2>2
<1> HIDE DEF s
<1>4. \E g : g = [i \in 1..k |-> Step(g, i)]
  <2>1. \A i \in 1..k : f[i] = Step(f, i)
    <3> TAKE i \in 1..k
    <3>1. f[i] = Copies(e, i)  OBVIOUS
    <3>2. CASE i = 1  BY <1>1, <1>2, <3>1, <3>2
    <3>3. CASE i # 1
      <4>1. f[i - 1] = Copies(e, i - 1)  BY <1>3, <3>3
      <4> QED  BY <1>1, <1>3, <3>1, <3>3, <4>1
    <3> QED  BY <3>2, <3>3
  <2>2. f = [i \in 1..k |-> f[i]]  OBVIOUS
  <2> HIDE DEF f
  <2>3. [i \in 1..k |-> f[i]] = [i \in 1..k |-> Step(f, i)]  BY <2>1
  <2> QED  BY <2>2, <2>3
<1>5. ASSUME NEW g, g = [i \in 1..k |-> Step(g, i)]
      PROVE  g[k] = Copies(e, k)
  <2> DEFINE S == {n \in Nat : n + 1 <= k => g[n + 1] = Copies(e, n + 1)}
  <2>1. 0 \in S
    <3>1. 1 \in 1..k /\ 0 + 1 = 1  OBVIOUS
    <3>2. g[1] = Step(g, 1)  BY <1>5, <3>1
    <3> QED  BY <1>1, <1>2, <3>1, <3>2
  <2>2. ASSUME NEW n \in Nat, n \in S  PROVE n + 1 \in S
    <3> DEFINE i == n + 1 + 1
    <3> SUFFICES ASSUME i <= k  PROVE g[i] = Copies(e, i)
      OBVIOUS
    <3>1. i \in 1..k /\ i # 1 /\ i - 1 = n + 1 /\ n + 1 <= k  OBVIOUS
    <3>2. g[n + 1] = Copies(e, n + 1)  BY <2>2, <3>1
    <3> HIDE DEF i
    <3>3. g[i] = Step(g, i)  BY <1>5, <3>1
    <3>4. g[i] = g[i - 1] \o e  BY <1>1, <3>1, <3>3
    <3>5. Copies(e, i) = Copies(e, i - 1) \o e  BY <1>3, <3>1
    <3> QED  BY <3>1, <3>2, <3>4, <3>5
  <2> HIDE DEF S
  <2>3. k - 1 \in Nat /\ (k - 1) + 1 = k  OBVIOUS
  <2>4. k - 1 \in S  BY <2>1, <2>2, <2>3, Induction
  <2> QED  BY <2>3, <2>4 DEF S
<1>6. FlattenSeq(s) = (CHOOSE g : g = [i \in 1..k |-> Step(g, i)])[k]
  BY <1>1 DEF FlattenSeq
<1> QED  BY <1>4, <1>5, <1>6 DEF s

\* What a frame looks like on the line: a sound header, its length, itself.
LEMMA EncodeIs ==
  ASSUME NEW f \in Frames
  PROVE  /\ Encode(f) \in Bytes /\ Len(Encode(f)) \in Nat /\ Len(Encode(f)) > HeaderSize
         /\ Len(Encode(f)) <= HeaderSize + MaxPayload + TrailerSize
         /\ SofAt(Encode(f), 1)
         /\ SoundHeader(Encode(f)) /\ FrameLength(Encode(f)) = Len(Encode(f))
         /\ Decode(Encode(f)) = <<f>>
<1> DEFINE p == f.payload
           n == Len(p)
           e == Encode(f)
           h == <<SofFirst, SofSecond, f.tag, n, HeaderCrc(f.tag, n)>>
           t == <<PayloadCrc(p)>>
<1>1. f.tag \in Byte /\ p \in BoundedSeq(Byte, MaxPayload)
      /\ f = [tag |-> f.tag, payload |-> p]
  BY FrameAssumption
<1>2. p \in Seq(Byte) /\ n \in 0..MaxPayload
  <2>1. PICK m \in 0..MaxPayload : p \in [1..m -> Byte]
    BY <1>1 DEF BoundedSeq, SeqOf
  <2>2. m \in Nat  BY BytesAre
  <2> HIDE DEF p
  <2>3. p \in Seq(Byte) /\ Len(p) = m  BY <2>1, <2>2
  <2> QED  BY <2>3
<1>3. MaxPayload \in Nat /\ n \in Nat /\ n <= MaxPayload
  <2>1. MaxPayload \in Nat  BY BytesAre
  <2> HIDE DEF n
  <2> QED  BY <1>2, <2>1
<1>4. n \in Byte /\ HeaderCrc(f.tag, n) \in Byte  BY <1>1, <1>2, FrameAssumption
<1>5. t \in Seq(Byte) /\ Len(t) = 1 /\ t[1] = PayloadCrc(p)
  <2>1. PayloadCrc(p) \in Byte  BY FrameAssumption
  <2> QED  BY <2>1
<1>6. /\ h \in Seq(Byte) /\ Len(h) = 5
      /\ h[1] = SofFirst /\ h[2] = SofSecond /\ h[3] = f.tag /\ h[4] = n
      /\ h[5] = HeaderCrc(f.tag, n)
  BY <1>1, <1>4, BytesAre
<1>7. e = (h \o p) \o t  BY DEF Encode
<1> HIDE DEF h, t, e, p, n
<1>8. /\ h \o p \in Seq(Byte) /\ Len(h \o p) = 5 + n
      /\ \A i \in 1..(5 + n) : (h \o p)[i] = IF i <= 5 THEN h[i] ELSE p[i - 5]
  <2>1. /\ h \o p \in Seq(Byte) /\ Len(h \o p) = Len(h) + Len(p)
        /\ \A i \in 1..(Len(h) + Len(p)) : (h \o p)[i] = IF i <= Len(h) THEN h[i] ELSE p[i - Len(h)]
    BY <1>2, <1>6, ConcatProperties
  <2> QED  BY <1>6, <2>1 DEF n
<1>9. /\ e \in Seq(Byte) /\ Len(e) = 5 + n + 1
      /\ \A i \in 1..(5 + n + 1) : e[i] = IF i <= 5 + n THEN (h \o p)[i] ELSE t[i - (5 + n)]
  <2> DEFINE g == h \o p
  <2>1. g \in Seq(Byte) /\ Len(g) = 5 + n  BY <1>8
  <2> HIDE DEF g
  <2>2. /\ g \o t \in Seq(Byte) /\ Len(g \o t) = Len(g) + Len(t)
        /\ \A i \in 1..(Len(g) + Len(t)) : (g \o t)[i] = IF i <= Len(g) THEN g[i] ELSE t[i - Len(g)]
    BY <1>5, <2>1, ConcatProperties
  <2>3. e = g \o t  BY <1>7 DEF g
  <2>4. /\ e \in Seq(Byte) /\ Len(e) = 5 + n + 1
        /\ \A i \in 1..(5 + n + 1) : e[i] = IF i <= 5 + n THEN g[i] ELSE t[i - (5 + n)]
    BY <1>5, <2>1, <2>2, <2>3
  <2> QED  BY <2>4 DEF g
<1>10. /\ \A i \in 1..5 : e[i] = h[i]
       /\ \A i \in 1..n : e[5 + i] = p[i]
       /\ e[5 + n + 1] = t[1]
  <2>1. ASSUME NEW i \in 1..5  PROVE e[i] = h[i]
    <3>1. i \in 1..(5 + n) /\ i \in 1..(5 + n + 1) /\ i <= 5 + n /\ i <= 5  BY <1>3
    <3> QED  BY <1>8, <1>9, <3>1
  <2>2. ASSUME NEW i \in 1..n  PROVE e[5 + i] = p[i]
    <3>1. 5 + i \in 1..(5 + n) /\ 5 + i \in 1..(5 + n + 1) /\ 5 + i <= 5 + n
          /\ ~(5 + i <= 5) /\ (5 + i) - 5 = i
      BY <1>3
    <3> QED  BY <1>8, <1>9, <3>1
  <2>3. e[5 + n + 1] = t[1]
    <3>1. 5 + n + 1 \in 1..(5 + n + 1) /\ ~(5 + n + 1 <= 5 + n) /\ (5 + n + 1) - (5 + n) = 1
      BY <1>3
    <3> QED  BY <1>9, <3>1
  <2> QED  BY <2>1, <2>2, <2>3
<1>11. e[1] = SofFirst /\ e[2] = SofSecond /\ e[3] = f.tag /\ e[4] = n
       /\ e[5] = HeaderCrc(f.tag, n)
  <2>1. e[1] = h[1] /\ e[2] = h[2] /\ e[3] = h[3] /\ e[4] = h[4] /\ e[5] = h[5]
    <3>1. 1 \in 1..5 /\ 2 \in 1..5 /\ 3 \in 1..5 /\ 4 \in 1..5 /\ 5 \in 1..5  OBVIOUS
    <3> QED  BY <1>10, <3>1
  <2> QED  BY <1>6, <2>1
<1>12. SofAt(e, 1)
  <2>1. 1 < Len(e) /\ 1 + 1 = 2  BY <1>3, <1>9
  <2> QED  BY <1>11, <2>1 DEF SofAt
<1>13. SoundHeader(e) /\ FrameLength(e) = Len(e) /\ Len(e) \in Nat /\ Len(e) > HeaderSize
       /\ Len(e) <= HeaderSize + MaxPayload + TrailerSize
  <2>1. SoundHeader(e)  BY <1>3, <1>11 DEF SoundHeader
  <2>2. FrameLength(e) = Len(e)
    BY <1>3, <1>9, <1>11 DEF FrameLength, HeaderSize, TrailerSize
  <2> QED  BY <1>3, <1>9, <2>1, <2>2 DEF HeaderSize, TrailerSize
<1>14. Payload(e) = p
  <2>1. HeaderSize + 1 = 6 /\ Len(e) - TrailerSize = 5 + n /\ 6 \in Int /\ 5 + n \in Int
    BY <1>3, <1>9 DEF HeaderSize, TrailerSize
  <2>2. Payload(e) = SubSeq(e, 6, 5 + n)  BY <2>1 DEF Payload
  <2>3. \A k \in 6..(5 + n) : e[k] \in Byte
    <3>1. \A k \in 6..(5 + n) : k \in 1..Len(e)  BY <1>3, <1>9
    <3> QED  BY <1>9, <3>1, ElementOfSeq
  <2> DEFINE c == SubSeq(e, 6, 5 + n)
  <2>4. /\ c \in Seq(Byte)
        /\ Len(c) = IF 6 <= 5 + n THEN (5 + n) - 6 + 1 ELSE 0
        /\ \A k \in 1..((5 + n) - 6 + 1) : c[k] = e[6 + k - 1]
    BY <2>1, <2>3, SubSeqProperties
  <2> HIDE DEF c
  <2>5. Len(c) = n  BY <1>3, <2>4
  <2>6. ASSUME NEW k \in 1..n  PROVE c[k] = p[k]
    <3>1. k \in 1..((5 + n) - 6 + 1) /\ 6 + k - 1 = 5 + k  BY <1>3
    <3> QED  BY <1>10, <2>4, <3>1
  <2>7. c = p
    <3>1. Len(p) = n  BY DEF n
    <3> QED  BY <1>2, <2>4, <2>5, <2>6, <3>1, SeqEqual
  <2> QED  BY <2>2, <2>7 DEF c
<1>15. Decode(e) = <<f>>
  <2>1. Last(e) = PayloadCrc(Payload(e))  BY <1>5, <1>9, <1>10, <1>14 DEF Last
  <2>2. Decode(e) = <<[tag |-> e[3], payload |-> Payload(e)]>>  BY <2>1 DEF Decode
  <2> QED  BY <1>1, <1>11, <1>14, <2>2
<1> QED  BY <1>9, <1>12, <1>13, <1>15 DEF e, Bytes

\* There are copies enough: all but the last are longer than what a candidate
\* that began before them can still swallow.
LEMMA EnoughIs ==
  ASSUME NEW f \in Frames
  PROVE  \E k \in Nat : /\ Enough(f) = k + 1
                        /\ HeaderSize + MaxPayload + TrailerSize - 1 <= Len(Encode(f)) * k
<1> DEFINE l == Len(Encode(f))
           most == HeaderSize + MaxPayload + TrailerSize - 1
           k == (most + l - 1) \div l
<1>1. l \in Nat /\ l > 0 /\ most \in Nat
  <2>1. l \in Nat /\ l > HeaderSize /\ MaxPayload \in Nat  BY EncodeIs, BytesAre
  <2> HIDE DEF l
  <2> QED  BY <2>1 DEF HeaderSize, TrailerSize
<1>2. Enough(f) = k + 1  BY DEF Enough
<1> HIDE DEF l, most
<1>3. most + l - 1 \in Nat  BY <1>1
<1>4. /\ k \in Nat /\ (most + l - 1) % l \in 0..(l - 1)
      /\ most + l - 1 = l * k + ((most + l - 1) % l)
  BY <1>1, <1>3, Division
<1> DEFINE r == (most + l - 1) % l
<1> HIDE DEF r, k
<1>5. r \in 0..(l - 1) /\ most + l - 1 = l * k + r  BY <1>4 DEF r
<1>6. l * k \in Nat  BY <1>1, <1>4
<1>7. most <= l * k  BY <1>1, <1>5, <1>6
<1> QED  BY <1>2, <1>4, <1>7 DEF l, most

\* The line, from where the reader stands: m bytes of anything, and k + 1 copies
\* of a frame with no SOF inside.
Repeated(t, m, f, k) ==
  /\ t \in Bytes /\ m \in Nat /\ k \in Nat
  /\ Len(t) = m + (Len(Encode(f)) * k + Len(Encode(f)))
  /\ \A i \in 0..k : \A q \in 1..Len(Encode(f)) :
       t[m + (Len(Encode(f)) * i + q)] = Encode(f)[q]
  /\ \A q \in 2..Len(Encode(f)) : ~SofAt(Encode(f), q)

\* In the copies, only the start of one looks like a start.
LEMMA StartsOfCopies ==
  ASSUME NEW f \in Frames, NEW t, NEW m, NEW k, Repeated(t, m, f, k),
         NEW at \in 1..Len(t), at > m, SofAt(t, at)
  PROVE  \E i \in 0..k : at = m + (Len(Encode(f)) * i + 1)
<1> DEFINE e == Encode(f)
           l == Len(e)
<1>1. /\ e \in Bytes /\ l \in Nat /\ l > HeaderSize
      /\ e[1] = SofFirst
  BY EncodeIs DEF SofAt
<1>2. /\ t \in Bytes /\ m \in Nat /\ k \in Nat /\ Len(t) = m + (l * k + l)
      /\ \A i \in 0..k : \A q \in 1..l : t[m + (l * i + q)] = e[q]
      /\ \A q \in 2..l : ~SofAt(e, q)
  BY DEF Repeated
<1> HIDE DEF e, l
<1>3. l * k \in Nat /\ l * (k + 1) = l * k + l /\ l > 1 /\ k + 1 \in Nat
  <2>1. l > 1  BY <1>1 DEF HeaderSize
  <2>2. l * k \in Nat /\ l * (k + 1) = l * k + l  BY <1>1, <1>2
  <2> QED  BY <1>2, <2>1, <2>2
<1>4. at - m \in 1..(l * (k + 1)) /\ at = m + (at - m)
  <2> DEFINE x == l * (k + 1)
             n == Len(t)
  <2>1. x \in Nat /\ m \in Nat /\ n = m + x /\ at \in 1..n
    <3>1. n = m + (l * k + l) /\ x = l * k + l /\ m \in Nat /\ at \in 1..n  BY <1>2, <1>3
    <3>2. l * k \in Nat /\ l \in Nat  BY <1>1, <1>3
    <3> HIDE DEF x, n
    <3> QED  BY <3>1, <3>2
  <2> HIDE DEF x, n
  <2>2. at - m \in 1..x /\ at = m + (at - m)  BY <2>1
  <2> QED  BY <2>2 DEF x
<1>5. PICK i \in 0..((k + 1) - 1), q \in 1..l : at - m = l * i + q
  <2> DEFINE x == at - m
             y == k + 1
  <2>1. l \in Nat /\ l > 0 /\ y \in Nat /\ x \in 1..(l * y)  BY <1>1, <1>3, <1>4
  <2> HIDE DEF x, y
  <2>2. \E i \in 0..(y - 1), q \in 1..l : x = l * i + q  BY <2>1, PlaceInCopies
  <2> QED  BY <2>2 DEF x, y
<1>6. i \in 0..k /\ i \in Nat /\ l * i \in Nat /\ q \in Nat /\ at = m + (l * i + q)
  <2>1. i \in 0..k /\ i \in Nat /\ q \in Nat  BY <1>1, <1>2
  <2>2. l * i \in Nat  BY <1>1, <2>1
  <2> QED  BY <1>2, <1>4, <1>5, <2>1, <2>2
<1>7. t[at] = e[q] /\ at < Len(t) /\ t[at] = SofFirst /\ t[at + 1] = SofSecond
  BY <1>2, <1>6 DEF SofAt
<1>8. q = 1
  <2> SUFFICES ASSUME q # 1  PROVE FALSE
    OBVIOUS
  <2>1. q \in 2..l  BY <1>1, <1>6
  <2>2. CASE q < l
    <3>1. q + 1 \in 1..l /\ at + 1 = m + (l * i + (q + 1))  BY <1>1, <1>2, <1>6, <2>2
    <3>2. t[at + 1] = e[q + 1]  BY <1>2, <1>6, <3>1
    <3>3. SofAt(e, q)  BY <1>7, <2>2, <3>2 DEF SofAt, l
    <3> QED  BY <1>2, <2>1, <3>3
  <2>3. CASE q = l
    <3>1. CASE i = k
      <4>1. at = m + (l * k + l)  BY <1>6, <2>3, <3>1
      <4>2. ~(at < Len(t))  BY <1>2, <1>3, <4>1
      <4> QED  BY <1>7, <4>2
    <3>2. CASE i # k
      <4>1. i + 1 \in 0..k  BY <1>2, <1>6, <3>2
      <4>2. l * (i + 1) = l * i + l  BY <1>1, <1>6
      <4>3. at + 1 = m + (l * (i + 1) + 1) /\ 1 \in 1..l
        BY <1>1, <1>2, <1>3, <1>6, <2>3, <4>2
      <4>4. t[at + 1] = e[1]  BY <1>2, <4>1, <4>3
      <4> QED  BY <1>1, <1>7, <4>4, BytesAre
    <3> QED  BY <3>1, <3>2
  <2> QED  BY <1>1, <1>6, <2>1, <2>2, <2>3
<1> QED  BY <1>6, <1>8 DEF l, e

\* From the start of a copy on, the loop finds the frame.
LEMMA CopyIsFound ==
  ASSUME NEW f \in Frames, NEW t, NEW m, NEW k, Repeated(t, m, f, k),
         NEW i \in 0..k, NEW at, at = m + (Len(Encode(f)) * i + 1)
  PROVE  LET b == From(t, at)
         IN  /\ at \in 1..(Len(t) + 1) /\ Whole(b) /\ SofAt(t, at)
             /\ First(b) = <<f>>
<1> DEFINE e == Encode(f)
           l == Len(e)
           b == From(t, at)
<1>1. /\ e \in Bytes /\ l \in Nat /\ l > HeaderSize
      /\ SofAt(e, 1) /\ SoundHeader(e) /\ FrameLength(e) = l /\ Decode(e) = <<f>>
  BY EncodeIs
<1>2. /\ t \in Bytes /\ m \in Nat /\ k \in Nat /\ Len(t) = m + (l * k + l)
      /\ \A q \in 1..l : t[m + (l * i + q)] = e[q]
      /\ at = m + (l * i + 1)
  BY DEF Repeated
<1> HIDE DEF e, l, b
<1>3. l > 5 /\ l * i \in Nat /\ l * k \in Nat /\ l * i <= l * k /\ i \in Nat
  <2>1. l > 5  BY <1>1 DEF HeaderSize
  <2>2. i \in Nat /\ (i = k \/ i < k)  BY <1>2
  <2>3. l * i \in Nat /\ l * k \in Nat  BY <1>1, <1>2, <2>2
  <2>4. i < k => l * i + l <= l * k  BY <1>1, <1>2, <2>2, Multiples
  <2> QED  BY <1>1, <2>1, <2>2, <2>3, <2>4
<1>4. at \in 1..(Len(t) + 1) /\ at < Len(t) /\ Len(t) + 1 - at >= l /\ at \in Nat
  BY <1>1, <1>2, <1>3
<1>5. /\ b \in Bytes /\ Len(b) = Len(t) + 1 - at /\ Len(b) \in Nat
      /\ \A q \in 1..(Len(t) + 1 - at) : b[q] = t[q + at - 1]
  BY <1>2, <1>4, FromIs DEF b
<1>6. Len(b) >= l  BY <1>4, <1>5
<1>7. ASSUME NEW q \in 1..l  PROVE b[q] = e[q]
  <2> DEFINE x == l * i
             n == Len(t)
  <2>1. /\ x \in Nat /\ m \in Nat /\ q \in Nat /\ n \in Nat /\ l \in Nat
        /\ at = m + (x + 1) /\ n + 1 - at >= l /\ 1 <= q /\ q <= l
    BY <1>1, <1>2, <1>3, <1>4
  <2> HIDE DEF x, n
  <2>2. q \in 1..(n + 1 - at) /\ q + at - 1 = m + (x + q)  BY <2>1
  <2>3. q \in 1..(Len(t) + 1 - at) /\ q + at - 1 = m + (l * i + q)
    BY <2>2 DEF x, n
  <2> QED  BY <1>2, <1>5, <2>3
<1>8. b[1] = e[1] /\ b[2] = e[2] /\ b[3] = e[3] /\ b[4] = e[4] /\ b[5] = e[5]
  <2>1. 1 \in 1..l /\ 2 \in 1..l /\ 3 \in 1..l /\ 4 \in 1..l /\ 5 \in 1..l
    BY <1>1, <1>3
  <2> QED  BY <1>7, <2>1
<1>9. SoundHeader(b) /\ FrameLength(b) = l
  BY <1>1, <1>8 DEF SoundHeader, FrameLength
<1>10. Whole(b)
  <2>1. Len(b) >= HeaderSize /\ Len(b) >= l  BY <1>1, <1>3, <1>5, <1>6 DEF HeaderSize
  <2> QED  BY <1>9, <2>1 DEF Whole
<1>11. SofAt(t, at)
  <2>1. t[at] = b[1] /\ t[at + 1] = b[2]
    <3>1. 1 \in 1..(Len(t) + 1 - at) /\ 2 \in 1..(Len(t) + 1 - at)
          /\ 1 + at - 1 = at /\ 2 + at - 1 = at + 1
      BY <1>1, <1>3, <1>4
    <3> QED  BY <1>5, <3>1
  <2>2. e[1] = SofFirst /\ e[1 + 1] = SofSecond /\ 1 + 1 = 2  BY <1>1 DEF SofAt
  <2> QED  BY <1>4, <1>8, <2>1, <2>2 DEF SofAt
<1>12. SubSeq(b, 1, l) = e
  <2> DEFINE c == SubSeq(b, 1, l)
  <2>1. l - 1 + 1 = l /\ 1 <= l /\ 1 \in Int /\ l \in Int  BY <1>1, <1>3
  <2>2. \A q \in 1..l : b[q] \in Byte
    <3>1. \A q \in 1..l : q \in 1..Len(b)  BY <1>1, <1>5, <1>6
    <3> QED  BY <1>5, <3>1, ElementOfSeq DEF Bytes
  <2>3. /\ c \in Seq(Byte) /\ Len(c) = IF 1 <= l THEN l - 1 + 1 ELSE 0
        /\ \A q \in 1..(l - 1 + 1) : c[q] = b[1 + q - 1]
    BY <2>1, <2>2, SubSeqProperties
  <2> HIDE DEF c
  <2>4. Len(c) = l  BY <2>1, <2>3
  <2>5. ASSUME NEW q \in 1..l  PROVE c[q] = e[q]
    <3>1. q \in 1..(l - 1 + 1) /\ 1 + q - 1 = q  BY <1>1
    <3> QED  BY <1>7, <2>3, <3>1
  <2>6. Len(e) = l  BY DEF l
  <2>7. c = e  BY <1>1, <2>3, <2>4, <2>5, <2>6, SameBytes DEF Bytes
  <2> QED  BY <2>7 DEF c
<1>13. First(b) = <<f>>  BY <1>1, <1>9, <1>12 DEF First
<1> QED  BY <1>4, <1>10, <1>11, <1>13 DEF b

LEMMA ContainsIs ==
  ASSUME NEW s \in Seq(Frame), NEW g \in Seq(Frame), NEW f
  PROVE  /\ Contains(s, f) => Contains(g \o s, f)
         /\ g = <<f>> => Contains(g \o s, f)
<1>1. /\ Len(s) \in Nat /\ Len(g) \in Nat /\ Len(g \o s) = Len(g) + Len(s)
      /\ \A i \in 1..(Len(g) + Len(s)) :
           (g \o s)[i] = IF i <= Len(g) THEN g[i] ELSE s[i - Len(g)]
  BY ConcatProperties, LenProperties
<1>2. ASSUME Contains(s, f)  PROVE Contains(g \o s, f)
  <2>1. PICK i \in 1..Len(s) : s[i] = f  BY <1>2 DEF Contains
  <2>2. i + Len(g) \in 1..(Len(g) + Len(s)) /\ ~(i + Len(g) <= Len(g))
        /\ (i + Len(g)) - Len(g) = i
    BY <1>1
  <2>3. (g \o s)[i + Len(g)] = f  BY <1>1, <2>1, <2>2
  <2> QED  BY <1>1, <2>2, <2>3 DEF Contains
<1>3. ASSUME g = <<f>>  PROVE Contains(g \o s, f)
  <2>1. Len(g) = 1 /\ g[1] = f  BY <1>3
  <2>2. 1 \in 1..(Len(g) + Len(s)) /\ 1 <= Len(g)  BY <1>1, <2>1
  <2>3. (g \o s)[1] = f  BY <1>1, <2>1, <2>2
  <2> QED  BY <1>1, <2>2, <2>3 DEF Contains
<1> QED  BY <1>2, <1>3

\* From any place before the last copy, the loop gets to one.
LEMMA RepeatsAreFound ==
  ASSUME NEW f \in Frames, NEW t, NEW m, NEW k, Repeated(t, m, f, k),
         HeaderSize + MaxPayload + TrailerSize - 1 <= Len(Encode(f)) * k
  PROVE  \A p \in 1..(m + (Len(Encode(f)) * k + 1)) :
           Contains(Drain[From(t, p)].frames, f)
<1> DEFINE e == Encode(f)
           l == Len(e)
           n == Len(t)
           z == m + (l * k + 1)
           P == {s \in Bytes : \A p \in 1..z : s = From(t, p) => Contains(Drain[s].frames, f)}
           G == [j \in 1..(n + 1) |-> Drain[From(t, j)].frames]
<1>1. /\ t \in Bytes /\ m \in Nat /\ k \in Nat /\ n = m + (l * k + l)
      /\ l \in Nat /\ l > HeaderSize
      /\ HeaderSize + MaxPayload + TrailerSize - 1 <= l * k
  BY EncodeIs DEF Repeated
<1> HIDE DEF l
<1>2. l * k \in Nat /\ l > 5 /\ MaxPayload \in Nat
  <2>1. l > 5  BY <1>1 DEF HeaderSize
  <2>2. l * k \in Nat  BY <1>1
  <2> QED  BY <2>1, <2>2, BytesAre
<1>3. z \in 1..(n + 1) /\ z <= n /\ n \in Nat /\ z \in Nat /\ z > m /\ z = (n + 1) - l
  BY <1>1, <1>2
<1>4. SofAt(t, z)
  <2>1. k \in 0..k  BY <1>1
  <2> QED  BY <2>1, CopyIsFound DEF l
<1>5. ASSUME NEW s \in Bytes, \A c \in Bytes : Len(c) < Len(s) => c \in P
      PROVE  s \in P
  <2> SUFFICES ASSUME NEW p \in 1..z, s = From(t, p)
               PROVE  Contains(Drain[s].frames, f)
    OBVIOUS
  <2> HIDE DEF z, P, n
  <2>1. p \in 1..(n + 1) /\ p \in Nat /\ p <= z  BY <1>3
  <2>2. Found(G, t, p) = Drain[s].frames
    <3>1. \A j \in 1..(n + 1) : j > p => G[j] = Drain[From(t, j)].frames  OBVIOUS
    <3> HIDE DEF G
    <3> QED  BY <1>1, <2>1, <3>1, FoundIs DEF n
  <2> DEFINE sofs == {j \in p..n : SofAt(t, j)}
             at == Min(sofs)
             b == From(t, at)
  <2>3. z \in sofs  BY <1>3, <1>4, <2>1
  <2>4. at \in p..n /\ SofAt(t, at) /\ at <= z
    <3>1. sofs \in SUBSET Nat  BY <1>3, <2>1
    <3>2. at \in sofs /\ \A y \in sofs : at <= y  BY <2>3, <3>1, MinIs
    <3> QED  BY <2>3, <3>2
  <2>5. Found(G, t, p) =
          IF Len(b) < HeaderSize THEN <<>>
          ELSE IF ~SoundHeader(b) THEN G[at + 1]
          ELSE IF Len(b) < FrameLength(b) THEN <<>>
          ELSE First(b) \o G[at + FrameLength(b)]
    BY <2>3 DEF Found, First, n
  <2> HIDE DEF sofs, at, G
  <2>6. at \in Nat /\ at \in 1..(n + 1) /\ p <= at /\ at <= n  BY <1>3, <2>1, <2>4
  <2>7. b \in Bytes /\ Len(b) = n + 1 - at /\ Len(b) \in Nat
    BY <1>1, <2>6, FromIs DEF n
  <2> HIDE DEF b
  <2>8. Len(b) >= l /\ ~(Len(b) < HeaderSize) /\ Len(b) >= HeaderSize
    <3>1. Len(b) >= l
      <4>1. n + 1 - z = l  BY <1>1, <1>3
      <4> QED  BY <1>1, <1>3, <2>4, <2>6, <2>7, <4>1
    <3> QED  BY <1>1, <1>2, <2>7, <3>1 DEF HeaderSize
  \* Further on, before the last copy, the frame is found.
  <2>9. ASSUME NEW j \in Nat, j > p, j <= z
        PROVE  G[j] \in Seq(Frame) /\ Contains(G[j], f)
    <3>1. j \in 1..(n + 1) /\ j \in 1..z  BY <1>3, <2>1, <2>9
    <3>2. G[j] = Drain[From(t, j)].frames  BY <3>1 DEF G
    <3>3. From(t, j) \in Bytes /\ Len(From(t, j)) = n + 1 - j
          /\ Len(s) = n + 1 - p
      BY <1>1, <2>1, <3>1, FromIs DEF n
    <3>4. Len(From(t, j)) < Len(s)  BY <1>3, <2>1, <2>9, <3>3
    <3>5. From(t, j) \in P  BY <1>5, <3>3, <3>4
    <3>6. Contains(Drain[From(t, j)].frames, f)  BY <3>1, <3>5 DEF P
    <3>7. Drain[From(t, j)].frames \in Seq(Frame)
      BY <3>3, DrainRests, ReaderIs DEF Resting
    <3> QED  BY <3>2, <3>6, <3>7
  <2>10. CASE ~SoundHeader(b) /\ at <= m
    <3>1. at + 1 \in Nat /\ at + 1 > p /\ at + 1 <= z  BY <1>1, <1>3, <2>1, <2>6, <2>10
    <3>2. Contains(G[at + 1], f)  BY <2>9, <3>1
    <3>3. Found(G, t, p) = G[at + 1]  BY <2>5, <2>8, <2>10
    <3> QED  BY <2>2, <3>2, <3>3
  <2>11. CASE SoundHeader(b) /\ at <= m
    <3> DEFINE w == FrameLength(b)
    <3>1. w \in Nat /\ w > 0 /\ w <= HeaderSize + MaxPayload + TrailerSize
      <4>1. b[4] \in Nat  BY <2>7, <2>8, HeaderIs, BytesAre
      <4>2. b[4] <= MaxPayload  BY <2>11 DEF SoundHeader
      <4> QED  BY <1>2, <4>1, <4>2 DEF FrameLength, HeaderSize, TrailerSize
    <3>2. w <= l * k + 1
      BY <1>1, <1>2, <3>1 DEF HeaderSize, TrailerSize
    <3> HIDE DEF w
    <3>3. at + w \in Nat /\ at + w > p /\ at + w <= z
      <4>1. z = m + (l * k + 1)  BY DEF z
      <4> QED  BY <1>1, <1>2, <2>1, <2>6, <2>11, <3>1, <3>2, <4>1
    <3>4. w <= Len(b)  BY <1>3, <2>6, <2>7, <3>1, <3>3
    <3>5. Whole(b)  BY <2>8, <2>11, <3>1, <3>4, <2>7 DEF Whole, w
    <3>6. First(b) \in Seq(Frame)  BY <2>7, <3>5, WholeIs
    <3>7. ~(Len(b) < w)  BY <2>7, <3>1, <3>4
    <3>8. Found(G, t, p) = First(b) \o G[at + w]  BY <2>5, <2>8, <2>11, <3>7 DEF w
    <3>9. G[at + w] \in Seq(Frame) /\ Contains(G[at + w], f)  BY <2>9, <3>3
    <3>10. Contains(First(b) \o G[at + w], f)  BY <3>6, <3>9, ContainsIs
    <3> QED  BY <2>2, <3>8, <3>10
  <2>12. CASE at > m
    <3>1. PICK i \in 0..k : at = m + (l * i + 1)
      <4>1. at \in 1..Len(t)
        <5>1. at \in 1..n  BY <2>6, <1>3
        <5> QED  BY <5>1 DEF n
      <4> QED  BY <2>4, <2>12, <4>1, StartsOfCopies DEF l
    <3>2. Whole(b) /\ First(b) = <<f>>
      BY <3>1, CopyIsFound DEF l, b
    <3>3. /\ First(b) \in Seq(Frame) /\ FrameLength(b) \in Nat /\ FrameLength(b) > HeaderSize
          /\ FrameLength(b) <= Len(b)
      BY <2>7, <3>2, WholeIs
    <3> DEFINE j == at + FrameLength(b)
    <3>4. j \in 1..(n + 1)  BY <1>3, <2>6, <2>7, <3>3 DEF HeaderSize
    <3>5. G[j] \in Seq(Frame)
      <4> HIDE DEF j
      <4>1. G[j] = Drain[From(t, j)].frames  BY <3>4 DEF G
      <4>2. From(t, j) \in Bytes  BY <1>1, <3>4, FromIs DEF n
      <4> QED  BY <4>1, <4>2, DrainRests, ReaderIs DEF Resting
    <3>6. SoundHeader(b) /\ ~(Len(b) < FrameLength(b))  BY <2>7, <3>2, <3>3 DEF Whole
    <3>7. Found(G, t, p) = First(b) \o G[j]  BY <2>5, <2>8, <3>6
    <3> HIDE DEF j
    <3>8. Contains(First(b) \o G[j], f)  BY <3>2, <3>3, <3>5, ContainsIs
    <3> QED  BY <2>2, <3>7, <3>8
  <2>13. at <= m \/ at > m  BY <1>1, <2>6
  <2> QED  BY <2>10, <2>11, <2>12, <2>13
<1> HIDE DEF P
<1>6. Bytes \subseteq P  BY <1>5, ByLength
<1>7. ASSUME NEW p \in 1..z  PROVE Contains(Drain[From(t, p)].frames, f)
  <2>1. p \in 1..(n + 1)
    <3> HIDE DEF z, n
    <3> QED  BY <1>3
  <2>2. From(t, p) \in Bytes  BY <1>1, <2>1, FromIs
  <2>3. From(t, p) \in P  BY <1>6, <2>2
  <2> QED  BY <2>3 DEF P
<1> QED  BY <1>7 DEF l

\* A reader at rest that is sent k + 1 copies is a line of the form Repeated.
LEMMA CopiesRepeat ==
  ASSUME NEW f \in Frames, NEW b \in Bytes, NEW k \in Nat,
         \A q \in 2..Len(Encode(f)) : ~SofAt(Encode(f), q)
  PROVE  Repeated(b \o Copies(Encode(f), k + 1), Len(b), f, k)
<1> DEFINE e == Encode(f)
           l == Len(e)
           c == Copies(e, k + 1)
           m == Len(b)
           t == b \o c
<1>1. e \in Bytes /\ l \in Nat /\ l > 0 /\ l > HeaderSize
  <2>1. e \in Bytes /\ l \in Nat /\ l > HeaderSize  BY EncodeIs
  <2> HIDE DEF l
  <2>2. l > 0  BY <2>1 DEF HeaderSize
  <2> QED  BY <2>1, <2>2
<1>2. k + 1 \in Nat /\ (k + 1) - 1 = k  OBVIOUS
<1>3. /\ c \in Bytes /\ l * (k + 1) \in Nat /\ Len(c) = l * (k + 1)
      /\ \A i \in 0..((k + 1) - 1) : \A q \in 1..l :
           l * i + q \in 1..(l * (k + 1)) /\ c[l * i + q] = e[q]
  BY <1>1, <1>2, CopiesAre
<1>4. \A i \in 0..k : \A q \in 1..l :
        l * i + q \in 1..Len(c) /\ c[l * i + q] = e[q]
  <2> HIDE DEF c, l
  <2> QED  BY <1>2, <1>3
<1>5. l * (k + 1) = l * k + l
  <2> HIDE DEF l
  <2> QED  BY <1>1
<1> HIDE DEF c
<1>6. t \in Bytes /\ m \in Nat /\ Len(t) = m + Len(c) /\ Len(c) \in Nat
      /\ \A j \in 1..(m + Len(c)) : t[j] = IF j <= m THEN b[j] ELSE c[j - m]
  BY <1>3, ConcatProperties, LenProperties DEF Bytes
<1> HIDE DEF t, m
<1>7. ASSUME NEW i \in 0..k, NEW q \in 1..l  PROVE t[m + (l * i + q)] = e[q]
  <2> DEFINE j == l * i + q
  <2>1. j \in 1..Len(c) /\ c[j] = e[q]  BY <1>4
  <2> HIDE DEF j
  <2>2. m + j \in 1..(m + Len(c)) /\ ~(m + j <= m) /\ (m + j) - m = j  BY <1>6, <2>1
  <2>3. t[m + j] = c[j]  BY <1>6, <2>2
  <2> QED  BY <2>1, <2>3 DEF j
<1>8. Len(t) = m + (l * k + l)  BY <1>3, <1>5, <1>6
<1> QED  BY <1>6, <1>7, <1>8 DEF Repeated, l, e, t, m, c

\* Repeats get through: from any state the two readers can reach, a frame without
\* a SOF inside it that is sent Enough times is among those the parser finds,
\* whatever frames, lengths and checksums there are (docs/protocol.md:98).
THEOREM RepeatsHeard == Spec => []RepeatsGetThrough
<1>1. Inv => RepeatsGetThrough
  <2> SUFFICES ASSUME Inv,
                      NEW f \in Frames,
                      \A i \in 2..Len(Encode(f)) : ~SofAt(Encode(f), i)
               PROVE  Contains(PushAll([parser EXCEPT !.frames = <<>>],
                                 FlattenSeq([i \in 1..Enough(f) |-> Encode(f)])).frames, f)
    BY DEF RepeatsGetThrough
  <2> DEFINE e == Encode(f)
             b == parser.buffer
  <2>1. Resting(parser)  BY DrainRests DEF Inv
  <2>2. /\ b \in Bytes /\ Kept(b) = b /\ Waits(b)
        /\ [parser EXCEPT !.frames = <<>>] = [buffer |-> b, frames |-> <<>>]
    BY <2>1, ReaderIs DEF Resting
  <2>3. [parser EXCEPT !.frames = <<>>] = Drain[b]  BY <2>2, DrainWaits
  <2>4. PICK k \in Nat : /\ Enough(f) = k + 1
                         /\ HeaderSize + MaxPayload + TrailerSize - 1 <= Len(Encode(f)) * k
    BY EnoughIs
  <2>5. e \in Bytes /\ Len(e) > 0
    <3>1. e \in Bytes /\ Len(e) \in Nat /\ Len(e) > HeaderSize  BY EncodeIs
    <3> HIDE DEF e
    <3> QED  BY <3>1 DEF HeaderSize
  <2> DEFINE c == Copies(e, k + 1)
             t == b \o c
  <2>6. FlattenSeq([i \in 1..Enough(f) |-> e]) = c
    <3>1. k + 1 \in Nat /\ k + 1 > 0  OBVIOUS
    <3>2. FlattenSeq([i \in 1..(k + 1) |-> e]) = Copies(e, k + 1)
      BY <2>5, <3>1, FlattenIs
    <3> QED  BY <2>4, <3>2
  <2>7. c \in Bytes
    <3>1. k + 1 \in Nat  OBVIOUS
    <3> QED  BY <2>5, <3>1, CopiesAre
  <2>8. Repeated(t, Len(b), f, k)  BY <2>2, CopiesRepeat
  <2>9. Contains(Drain[t].frames, f)
    <3>1. \A p \in 1..(Len(b) + (Len(Encode(f)) * k + 1)) :
            Contains(Drain[From(t, p)].frames, f)
      BY <2>4, <2>8, RepeatsAreFound
    <3>2. 1 \in 1..(Len(b) + (Len(Encode(f)) * k + 1))
      <4> DEFINE n == Len(b)
                 l == Len(Encode(f))
      <4>1. n \in Nat /\ l \in Nat  BY <2>2, EncodeIs, LenProperties DEF Bytes
      <4> HIDE DEF n, l
      <4>2. l * k \in Nat  BY <4>1
      <4>3. 1 \in 1..(n + (l * k + 1))  BY <4>1, <4>2
      <4> QED  BY <4>3 DEF n, l
    <3>3. t \in Bytes  BY <2>8 DEF Repeated
    <3>4. From(t, 1) = t  BY <3>3, FromFirst
    <3> HIDE DEF t
    <3> QED  BY <3>1, <3>2, <3>4
  <2>10. PushAll(Drain[b], c) = Drain[t]  BY <2>2, <2>7, PushAllIs
  <2> HIDE DEF c, t
  <2> QED  BY <2>3, <2>6, <2>9, <2>10
<1> QED  BY <1>1, InvHolds, PTL
=============================================================================
