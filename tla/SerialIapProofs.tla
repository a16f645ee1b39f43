-------------------------- MODULE SerialIapProofs --------------------------
(***************************************************************************)
(* What programming and erasing make of a slot, and of what requests and   *)
(* responses are made: the types both implementations rest on.             *)
(***************************************************************************)
EXTENDS SerialIap, OtaDataProofs

\* Programming a byte gives a byte.
LEMMA BurnType ==
  ASSUME NEW x \in Byte, NEW y \in Byte
  PROVE  Burn(x, y) \in Byte
BY IapAssumption DEF Burn

\* Programming a slot gives the contents of a slot.
LEMMA ProgramType ==
  ASSUME NEW c \in Cells, NEW at \in Nat, NEW data \in Seq(Byte)
  PROVE  Program(c, at, data) \in Cells
<1>1. \A i \in 1..SlotSize :
        i \in (at + 1)..(at + Len(data)) => data[i - at] \in Byte
  BY IapAssumption
<1>2. \A i \in 1..SlotSize : c[i] \in Byte  BY DEF Cells
<1>3. \A i \in 1..SlotSize :
        i \in (at + 1)..(at + Len(data)) => Burn(c[i], data[i - at]) \in Byte
  BY <1>1, <1>2, BurnType
<1> QED  BY <1>2, <1>3 DEF Program, Cells

\* So does a write that stops in the middle.
LEMMA TornProgramType ==
  ASSUME NEW c \in Cells, NEW at \in Nat, NEW data \in Seq(Byte),
         NEW x \in TornProgram(c, at, data)
  PROVE  x \in Cells
<1>1. PICK k \in 0..Len(data) : x = Program(c, at, SubSeq(data, 1, k))
  BY DEF TornProgram
<1>2. SubSeq(data, 1, k) \in Seq(Byte)  OBVIOUS
<1> QED  BY <1>1, <1>2, ProgramType

\* Erasing a slot gives the contents of a slot.
LEMMA EraseToType ==
  ASSUME NEW c \in Cells, NEW n
  PROVE  EraseTo(c, n) \in Cells
BY IapAssumption DEF EraseTo, Cells

\* So does an erase that stops in the middle.
LEMMA TornEraseType ==
  ASSUME NEW c \in Cells, NEW n, NEW x \in TornErase(c, n)
  PROVE  x \in Cells
BY IapAssumption DEF TornErase, Cells

\* What is remembered of a request is a request.
LEMMA KeyType ==
  ASSUME NEW f \in Frame
  PROVE  Key(f) \in Frame
BY DEF Key, Frame

\* It has the sequence number and the command of the request.
LEMMA KeyKeeps ==
  ASSUME NEW f \in Frame
  PROVE  Key(f).seq = f.seq /\ Key(f).command = f.command
BY DEF Key, Frame

\* A response is made of a status, a sequence number and an offset.
LEMMA ResponseType ==
  ASSUME NEW status \in Statuses, NEW e \in 0..(SeqMod - 1), NEW o \in Nat
  PROVE  Response(status, e, o) \in Reply
BY DEF Response, Reply

\* ------------------------------------------------------------- write units --
\* A multiple has no remainder.
LEMMA MultipleIsWhole ==
  ASSUME NEW a \in Nat \ {0}, NEW q \in Nat
  PROVE  (a * q) % a = 0
OBVIOUS

\* What has no remainder is a multiple.
LEMMA WholeIsMultiple ==
  ASSUME NEW a \in Nat \ {0}, NEW n \in Nat, n % a = 0
  PROVE  \E q \in Nat : n = a * q
<1>1. n \div a \in Nat /\ n = a * (n \div a)  OBVIOUS
<1> QED  BY <1>1

\* Whole units add up to whole units.
LEMMA UnitsAdd ==
  ASSUME NEW a \in Nat \ {0}, NEW m \in Nat, NEW n \in Nat, m % a = 0, n % a = 0
  PROVE  (m + n) % a = 0
<1>1. PICK p \in Nat : m = a * p  BY WholeIsMultiple
<1>2. PICK q \in Nat : n = a * q  BY WholeIsMultiple
<1>3. m + n = a * (p + q)  BY <1>1, <1>2
<1>4. p + q \in Nat  OBVIOUS
<1> QED  BY <1>3, <1>4, MultipleIsWhole

\* Less than one unit more, in whole units, is no more at all.
LEMMA WholeOrder ==
  ASSUME NEW a \in Nat \ {0}, NEW m \in Nat, NEW n \in Nat,
         m % a = 0, n % a = 0, m < n + a
  PROVE  m <= n
<1>1. PICK p \in Nat : m = a * p  BY WholeIsMultiple
<1>2. PICK q \in Nat : n = a * q  BY WholeIsMultiple
<1>3. SUFFICES ASSUME p >= q + 1 PROVE FALSE
  <2>1. p <= q => a * p <= a * q  OBVIOUS
  <2> QED  BY <2>1, <1>1, <1>2
<1>4. a * p >= a * (q + 1)  BY <1>3
<1>5. a * (q + 1) = a * q + a  OBVIOUS
<1> QED  BY <1>1, <1>2, <1>4, <1>5

\* erase_target_range erases whole write units, and all that was asked for.
LEMMA EraseEndWhole ==
  ASSUME NEW n \in Nat
  PROVE  EraseEnd(n) \in Nat /\ EraseEnd(n) % Align = 0 /\ n <= EraseEnd(n)
<1> DEFINE q == (n + Sector - 1) \div Sector
<1>1. Align \in Nat \ {0} /\ Sector \in Nat \ {0} /\ Sector % Align = 0  BY IapAssumption
<1>2. q \in Nat  BY <1>1
<1>3. n + Sector - 1 = (Sector * q) + ((n + Sector - 1) % Sector) /\ (n + Sector - 1) % Sector < Sector  BY <1>1
<1>4. PICK b \in Nat : Sector = Align * b  BY <1>1, WholeIsMultiple
<1>5. q * Sector = Align * (b * q)  BY <1>1, <1>2, <1>4
<1>6. b * q \in Nat  BY <1>2, <1>4
<1>7. (q * Sector) % Align = 0  BY <1>1, <1>5, <1>6, MultipleIsWhole
<1>8. q * Sector \in Nat /\ n <= q * Sector
  BY <1>1, <1>2, <1>3
<1> QED  BY <1>7, <1>8 DEF EraseEnd
=============================================================================
