--------------------------- MODULE OtaDataProofs ---------------------------
(***************************************************************************)
(* What the boot selection arithmetic guarantees, for every content of the *)
(* two entries.                                                            *)
(***************************************************************************)
EXTENDS OtaData, TLAPS

\* The selection is a slot of the partition table or the factory image.
LEMMA BootIndexType ==
  ASSUME NEW d \in Otadata
  PROVE  BootIndex(d) \in Slots \cup {Factory}
<1> USE OtaDataAssumption DEF Otadata, Entries, BootIndex, ActiveEntry, Valid,
        Blank, Slots, Factory
<1>1. CASE AppCount = 0  BY <1>1
<1>2. CASE AppCount = 1  BY <1>2
<1>3. CASE AppCount = 2  BY <1>3
<1> QED  BY <1>1, <1>2, <1>3

\* choose_target never picks the slot the selection names.
LEMMA ChooseTargetType ==
  ASSUME NEW d \in Otadata
  PROVE  /\ ChooseTarget(BootIndex(d)) \in Slots \cup {NoTarget}
         /\ ChooseTarget(BootIndex(d)) # BootIndex(d)
<1>1. BootIndex(d) \in Slots \cup {Factory}  BY BootIndexType
<1> QED
  BY <1>1, OtaDataAssumption DEF ChooseTarget, NoTarget, Factory, Slots

\* The entry a commit works on is never the one in force: erasing it keeps the
\* selection, and keeps it the entry to be written.
LEMMA EraseNextKeepsSelection ==
  ASSUME NEW d \in Otadata
  PROVE  LET e == [d EXCEPT ![NextEntry(d)] = Blank] IN
         /\ e \in Otadata
         /\ BootIndex(e) = BootIndex(d)
         /\ NextEntry(e) = NextEntry(d)
         /\ \A t \in Slots : NextSeq(e, t) = NextSeq(d, t)
<1> DEFINE e == [d EXCEPT ![NextEntry(d)] = Blank]
<1> USE OtaDataAssumption DEF Otadata, Entries, NextEntry, ActiveEntry, Valid, Blank
<1>1. e \in Otadata  OBVIOUS
<1>2. ActiveEntry(e) = ActiveEntry(d)  OBVIOUS
<1>3. ActiveEntry(d) # -1 => e[ActiveEntry(d)] = d[ActiveEntry(d)]  OBVIOUS
<1>4. BootIndex(e) = BootIndex(d)  BY <1>2, <1>3 DEF BootIndex
<1>5. \A t \in Slots : NextSeq(e, t) = NextSeq(d, t)  BY <1>2, <1>3 DEF NextSeq
<1> QED  BY <1>1, <1>2, <1>4, <1>5

\* A commit that does not overflow selects the target, unless the new sequence
\* is the erased value; then the old selection stays.
LEMMA CommitSelects ==
  ASSUME NEW d \in Otadata, NEW t \in Slots, t # BootIndex(d),
         AppCount = 2, ~SeqOverflows(d, t)
  PROVE  LET e == [d EXCEPT ![NextEntry(d)] = NextSeq(d, t)] IN
         /\ e \in Otadata
         /\ IF NextSeq(d, t) # Blank THEN BootIndex(e) = t
            ELSE BootIndex(e) = BootIndex(d)
<1> DEFINE e == [d EXCEPT ![NextEntry(d)] = NextSeq(d, t)]
<1> USE OtaDataAssumption DEF Otadata, Entries, Slots
<1>1. CASE ActiveEntry(d) = -1
  <2>1. NextSeq(d, t) = t + 1  BY <1>1 DEF NextSeq
  <2>2. NextEntry(d) = 0  BY <1>1 DEF NextEntry
  <2>3. d[0] = Blank /\ d[1] = Blank  BY <1>1 DEF ActiveEntry, Valid, Blank
  <2>4. e \in Otadata /\ e[0] = t + 1 /\ e[1] = Blank
    BY <2>1, <2>2, <2>3
  <2>5. BootIndex(e) = t  
    BY <2>4 DEF BootIndex, ActiveEntry, Valid, Blank
  <2> QED  BY <2>1, <2>4, <2>5 DEF Blank
<1>2. CASE ActiveEntry(d) \in Entries
  <2> DEFINE a == d[ActiveEntry(d)]
             s == NextSeq(d, t)
  <2>1. a \in 1..(SeqMax - 1)  BY <1>2 DEF ActiveEntry, Valid, Blank
  <2>2. (a - 1) % 2 # t  BY <1>2 DEF BootIndex
  <2>3. s \in Nat /\ s > a /\ (s - 1) % 2 = t
    BY <2>1, <2>2, <1>2 DEF NextSeq
  <2>4. s \in 1..SeqMax  BY <2>3, <2>1 DEF SeqOverflows
  <2>5. e \in Otadata  BY <2>4, <1>2 DEF NextEntry
  <2>6. e[ActiveEntry(d)] = a /\ e[1 - ActiveEntry(d)] = s
    BY <1>2, <2>4 DEF NextEntry
  <2>7. CASE s = Blank
    <3>1. ActiveEntry(e) = ActiveEntry(d)
      BY <1>2, <2>1, <2>5, <2>6, <2>7 DEF ActiveEntry, Valid, Blank
    <3> QED  BY <3>1, <2>5, <2>6, <2>7, <1>2 DEF BootIndex
  <2>8. CASE s # Blank
    <3>1. ActiveEntry(e) = 1 - ActiveEntry(d)
      BY <1>2, <2>1, <2>3, <2>5, <2>6, <2>8 DEF ActiveEntry, Valid, Blank
    <3>2. BootIndex(e) = (s - 1) % 2
      BY <3>1, <2>6, <1>2 DEF BootIndex
    <3> QED  BY <3>2, <2>3, <2>5, <2>8
  <2> QED  BY <2>7, <2>8
<1> QED  BY <1>1, <1>2 DEF ActiveEntry

\* The new sequence is the erased value only when the one in force is the last
\* but one that an entry can hold; that entry is not the one written.
LEMMA SequenceRunsOut ==
  ASSUME NEW d \in Otadata, NEW t \in Slots, t # BootIndex(d),
         AppCount = 2, NextSeq(d, t) = Blank
  PROVE  \E e \in Entries : e # NextEntry(d) /\ d[e] = SeqMax - 1
<1> USE OtaDataAssumption DEF Otadata, Entries, Slots
<1>1. ActiveEntry(d) \in Entries
  BY DEF ActiveEntry, NextSeq, Blank
<1> DEFINE a == d[ActiveEntry(d)]
<1>2. a \in 1..(SeqMax - 1)  BY <1>1 DEF ActiveEntry, Valid, Blank
<1>3. (a - 1) % 2 # t  BY <1>1 DEF BootIndex
<1>4. a = SeqMax - 1  BY <1>1, <1>2, <1>3 DEF NextSeq, Blank
<1> QED  BY <1>1, <1>4 DEF NextEntry

\* The new sequence is never 0, whatever the target.
LEMMA NextSeqType ==
  ASSUME NEW d \in Otadata, NEW t \in Slots, AppCount = 2
  PROVE  NextSeq(d, t) \in Nat \ {0}
<1> USE OtaDataAssumption DEF Otadata, Entries, Slots
<1>1. CASE ActiveEntry(d) = -1  BY <1>1 DEF NextSeq
<1>2. CASE ActiveEntry(d) \in Entries
  <2>1. d[ActiveEntry(d)] \in Nat  BY <1>2
  <2> QED  BY <1>2, <2>1 DEF NextSeq
<1> QED  BY <1>1, <1>2 DEF ActiveEntry

\* So any sequence below the erased value makes a record.
LEMMA CommitType ==
  ASSUME NEW d \in Otadata, NEW t \in Slots, AppCount = 2, ~SeqOverflows(d, t)
  PROVE  [d EXCEPT ![NextEntry(d)] = NextSeq(d, t)] \in Otadata
<1>1. NextSeq(d, t) \in 1..SeqMax
  BY NextSeqType, OtaDataAssumption DEF SeqOverflows
<1> QED  BY <1>1 DEF Otadata, Entries, NextEntry
=============================================================================
