------------------------ MODULE CalculationsTheorems ------------------------
(***************************************************************************)
(* Proofs about Calculations: HexFile for any area, any bytes and any       *)
(* records, and BootCrc for any width, any pages and any words.             *)
(***************************************************************************)
EXTENDS Calculations, SequenceTheorems, FiniteSetTheorems, TLAPS

(***************************************************************************)
(* HexFile.                                                                 *)
(***************************************************************************)

(* What the tool has loaded is what the file says so far of the user's area, *)
(* data elsewhere has been noticed, and what was noticed has been agreed to  *)
(* by the time the image is sealed.                                         *)
HexIInv ==
  /\ Hex!TypeOK
  /\ extended <=> upper # 0
  /\ step # "idle" => ~active
  /\ \A a \in Hex!User : loaded[a] = file[<<0, a>>]
  /\ active => \A a \in {Top, Top + 1} : loaded[a] = "crc"
  /\ \A a \in (0 .. Space - 1) \ Hex!User : file[<<0, a>>] # Blank => outOfBounds
  /\ outOfBounds /\ (step = "sealing" \/ active) => agreed

LEMMA NoDataType ==
  ASSUME Hex!HexAssumption
  PROVE  /\ Hex!NoData \in [DOMAIN Hex!NoData -> Byte \cup {Blank}]
         /\ DOMAIN Hex!NoData = ({0} \cup Uppers) \X (0 .. Space - 1)
         /\ \A a \in 0 .. Space - 1 : Hex!NoData[<<0, a>>] = Blank
         /\ Hex!User \subseteq 0 .. Space - 1 /\ Hex!User \subseteq Base .. Top + 1
         /\ Top \in Base .. Top + 1 /\ Top + 1 \in Base .. Top + 1
         /\ Top \notin Hex!User /\ Top + 1 \notin Hex!User
         /\ \A a \in Base .. Top + 1 : a \in Hex!User \/ a \in {Top, Top + 1}
BY DEF Hex!HexAssumption, Hex!NoData, Hex!User

LEMMA HexInitInv ==
  ASSUME Hex!HexAssumption, Hex!Init
  PROVE  HexIInv
<1> USE NoDataType DEF Hex!Init
<1>1. loaded \in [Base .. Top + 1 -> Byte \cup {Blank, Hex!Crc}]
  OBVIOUS
<1>2. Hex!TypeOK
  <2>1. outOfBounds \in BOOLEAN /\ extended \in BOOLEAN /\ active \in BOOLEAN /\ agreed \in BOOLEAN
    OBVIOUS
  <2>2. count \in 0 .. MaxRecords /\ upper \in {0} \cup Uppers /\ step = "idle"
    BY DEF Hex!HexAssumption
  <2>3. QED  BY <1>1, <2>1, <2>2 DEF Hex!TypeOK
<1>3. \A a \in Hex!User : loaded[a] = file[<<0, a>>]
  OBVIOUS
<1>4. QED  BY <1>2, <1>3 DEF HexIInv

LEMMA HexInvProperties ==
  ASSUME Hex!HexAssumption, HexIInv
  PROVE  Hex!ImageIsTheFile /\ Hex!AsksOutOfBounds
<1>1. Hex!ImageIsTheFile
  BY NoDataType DEF HexIInv, Hex!ImageIsTheFile, Hex!Crc
<1>2. Hex!AsksOutOfBounds
  BY DEF HexIInv, Hex!AsksOutOfBounds
<1>3. QED  BY <1>1, <1>2

(* A data record: nothing is lost of the user's area, and nothing outside   *)
(* of it goes unnoticed.                                                    *)
LEMMA HexData ==
  ASSUME Hex!HexAssumption, HexIInv,
         NEW start \in Starts, NEW length \in Lengths, NEW bytes \in [1 .. length -> Byte],
         Hex!DataRecord(start, bytes)
  PROVE  HexIInv'
<1> DEFINE covered == Hex!Covered(start, bytes)
<1>1. /\ step = "reading" /\ step' = step /\ count' = count + 1 /\ count < MaxRecords
      /\ active' = active /\ agreed' = agreed /\ extended' = extended /\ upper' = upper
      /\ file' = [place \in DOMAIN file |->
                    IF place[1] = upper /\ place[2] \in covered
                      THEN bytes[place[2] - start + 1] ELSE file[place]]
  BY DEF Hex!DataRecord, Hex!NextRecord
<1>2. ~active /\ upper \in {0} \cup Uppers /\ count \in 0 .. MaxRecords /\ MaxRecords \in Nat
      /\ file \in [DOMAIN Hex!NoData -> Byte \cup {Blank}]
      /\ loaded \in [Base .. Top + 1 -> Byte \cup {Blank, Hex!Crc}]
      /\ start \in Int /\ length \in Nat
  BY <1>1 DEF HexIInv, Hex!TypeOK, Hex!HexAssumption
<1>3. bytes \in Seq(Byte) /\ Len(bytes) = length
  <2>1. bytes \in Seq(Byte)
    BY <1>2, SeqDef, Zenon
  <2>2. DOMAIN bytes = 1 .. Len(bytes) /\ Len(bytes) \in Nat
    BY <2>1, LenProperties
  <2>3. QED  BY <1>2, <2>1, <2>2
<1>4. covered = start .. start + length - 1
  BY <1>3 DEF Hex!Covered
<1>5. \A a \in covered : bytes[a - start + 1] \in Byte
  <2>1. TAKE a \in covered
  <2>2. a - start + 1 \in 1 .. length
    BY <1>2, <1>4
  <2>3. QED  BY <2>2
<1> HIDE DEF covered
<1>6. file' \in [DOMAIN Hex!NoData -> Byte \cup {Blank}]
  BY <1>1, <1>2, <1>5
<1>7. \A a \in 0 .. Space - 1 :
        file'[<<0, a>>] = IF upper = 0 /\ a \in covered THEN bytes[a - start + 1] ELSE file[<<0, a>>]
  BY <1>1, <1>2, NoDataType
<1>8. CASE extended
  <2>1. loaded' = loaded /\ outOfBounds' = outOfBounds /\ upper # 0
    BY <1>8 DEF Hex!DataRecord, HexIInv
  <2>2. \A a \in 0 .. Space - 1 : file'[<<0, a>>] = file[<<0, a>>]
    BY <1>7, <2>1
  <2>3. QED  BY <1>1, <1>2, <1>6, <2>1, <2>2, NoDataType DEF HexIInv, Hex!TypeOK, Hex!User
<1>9. CASE ~extended
  <2>1. /\ upper = 0
        /\ loaded' = [a \in DOMAIN loaded |->
                        IF a \in covered /\ Hex!InBounds(a) THEN bytes[a - start + 1] ELSE loaded[a]]
        /\ outOfBounds' = (outOfBounds \/ \E a \in covered : ~Hex!InBounds(a))
    BY <1>9 DEF Hex!DataRecord, Hex!Loads, HexIInv, covered
  <2>2. loaded' \in [Base .. Top + 1 -> Byte \cup {Blank, Hex!Crc}] /\ outOfBounds' \in BOOLEAN
    BY <1>2, <1>5, <2>1
  <2>3. \A a \in Hex!User : loaded'[a] = file'[<<0, a>>]
    BY <1>2, <1>7, <2>1, NoDataType DEF HexIInv, Hex!InBounds
  <2>4. \A a \in (0 .. Space - 1) \ Hex!User : file'[<<0, a>>] # Blank => outOfBounds'
    BY <1>7, <2>1 DEF HexIInv, Hex!InBounds
  <2>5. Hex!TypeOK'
    BY <1>1, <1>2, <1>6, <2>2 DEF HexIInv, Hex!TypeOK
  <2>6. QED  BY <1>1, <1>2, <2>3, <2>4, <2>5, NoDataType DEF HexIInv, Hex!User
<1>10. QED  BY <1>8, <1>9

LEMMA HexNextInv ==
  ASSUME Hex!HexAssumption, 0 \notin Uppers, HexIInv, Hex!Next
  PROVE  HexIInv'
<1>1. CASE Hex!Press
  <2>1. /\ step' = "choosing" /\ ~active' /\ ~outOfBounds' /\ ~extended' /\ ~agreed'
        /\ active' \in BOOLEAN /\ outOfBounds' \in BOOLEAN /\ extended' \in BOOLEAN /\ agreed' \in BOOLEAN
        /\ loaded' = [a \in Base .. Top + 1 |-> Blank]
        /\ file' = Hex!NoData /\ upper' = 0 /\ count' = 0
    BY <1>1 DEF Hex!Press
  <2>2. loaded' \in [Base .. Top + 1 -> Byte \cup {Blank, Hex!Crc}]
    BY <2>1
  <2>3. Hex!TypeOK'
    BY <2>1, <2>2, NoDataType DEF Hex!TypeOK, Hex!HexAssumption
  <2>4. \A a \in Hex!User : loaded'[a] = file'[<<0, a>>]
    BY <2>1, NoDataType
  <2>5. QED  BY <2>1, <2>3, <2>4, NoDataType DEF HexIInv, Hex!User
<1>2. CASE Hex!ChooseNone \/ Hex!Choose
  <2>1. /\ step = "choosing" /\ step' \in {"idle", "reading"}
        /\ UNCHANGED <<loaded, outOfBounds, extended, active, file, upper, count, agreed>>
    BY <1>2 DEF Hex!ChooseNone, Hex!Choose
  <2>2. ~active'
    BY <2>1 DEF HexIInv
  <2>3. QED  BY <2>1, <2>2 DEF HexIInv, Hex!TypeOK, Hex!User
<1>3. ASSUME NEW start \in Starts, NEW length \in Lengths, NEW bytes \in [1 .. length -> Byte],
             Hex!DataRecord(start, bytes)
      PROVE  HexIInv'
  BY <1>3, HexData
<1>4. ASSUME NEW u \in Uppers, Hex!ExtendedRecord(u)
      PROVE  HexIInv'
  BY <1>4 DEF Hex!ExtendedRecord, Hex!NextRecord, HexIInv, Hex!TypeOK, Hex!User, Hex!HexAssumption
<1>5. CASE Hex!EndOfFile
  BY <1>5 DEF Hex!EndOfFile, HexIInv, Hex!TypeOK, Hex!User
<1>6. CASE Hex!Agree \/ Hex!Refuse
  <2>1. /\ step = "asking" /\ step' \in {"idle", "sealing"} /\ (step' = "sealing" => agreed')
        /\ agreed' \in BOOLEAN
        /\ UNCHANGED <<loaded, outOfBounds, extended, active, file, upper, count>>
    BY <1>6 DEF Hex!Agree, Hex!Refuse, HexIInv, Hex!TypeOK
  <2>2. ~active'
    BY <2>1 DEF HexIInv
  <2>3. QED  BY <2>1, <2>2 DEF HexIInv, Hex!TypeOK, Hex!User
<1>7. CASE Hex!Seal
  <2>1. /\ step = "sealing" /\ step' = "idle" /\ active' = TRUE
        /\ loaded' = [loaded EXCEPT ![Top] = Hex!Crc, ![Top + 1] = Hex!Crc]
        /\ UNCHANGED <<outOfBounds, extended, file, upper, count, agreed>>
    BY <1>7 DEF Hex!Seal
  <2>2. /\ loaded' \in [Base .. Top + 1 -> Byte \cup {Blank, Hex!Crc}]
        /\ \A a \in Hex!User : loaded'[a] = loaded[a]
        /\ \A a \in {Top, Top + 1} : loaded'[a] = Hex!Crc
    BY <2>1, NoDataType DEF HexIInv, Hex!TypeOK
  <2>3. QED  BY <2>1, <2>2 DEF HexIInv, Hex!TypeOK, Hex!User, Hex!Crc
<1>8. QED  BY <1>1, <1>2, <1>3, <1>4, <1>5, <1>6, <1>7 DEF Hex!Next

(***************************************************************************)
(* BootCrc: one word through the inner loop.                                *)
(***************************************************************************)

Bits == 0 .. Width - 1

(* What holds at 0 and is handed on from each number to the next holds at N: *)
(* otherwise adding one would map a finite set into itself without 0.       *)
LEMMA Counting ==
  ASSUME NEW N \in Nat, NEW A \in SUBSET (0 .. N), 0 \in A, \A i \in A : i < N => i + 1 \in A
  PROVE  N \in A
<1> SUFFICES ASSUME N \notin A PROVE FALSE
  OBVIOUS
<1> DEFINE next == [i \in A |-> i + 1]
<1>1. IsFiniteSet(A) /\ Cardinality(A) \in Nat
  <2>1. IsFiniteSet(0 .. N)
    BY FS_Interval
  <2>2. IsFiniteSet(A)
    BY <2>1, FS_Subset
  <2>3. QED  BY <2>2, FS_CardinalityType
<1>2. IsFiniteSet(A \ {0}) /\ Cardinality(A \ {0}) = Cardinality(A) - 1
  BY <1>1, FS_RemoveElement
<1>3. Cardinality(A \ {0}) < Cardinality(A)
  BY <1>1, <1>2
<1>4. next \in [A -> A \ {0}]
  OBVIOUS
<1>5. \E i, j \in A : i # j /\ next[i] = next[j]
  <2> HIDE DEF next
  <2> QED  BY <1>1, <1>2, <1>3, <1>4, FS_PigeonHole
<1>6. QED  BY <1>5

(* The intermediate sums of the loop, up to bit n.                          *)
IsLoop(after, sum, data, n) ==
  after = [index \in 0 .. n |->
             IF index = 0 THEN sum ELSE UNION {Crc!Fed(s, index - 1 \in data) : s \in {after[index - 1]}}]

LEMMA LoopExists ==
  ASSUME NEW n \in Nat, NEW sum, NEW data
  PROVE  \E after : IsLoop(after, sum, data, n)
<1> DEFINE A == {i \in 0 .. n : \E after : IsLoop(after, sum, data, i)}
<1>1. 0 \in A
  <2>1. IsLoop([index \in 0 .. 0 |-> sum], sum, data, 0)
    BY DEF IsLoop
  <2>2. QED  BY <2>1
<1>2. ASSUME NEW i \in A, i < n PROVE i + 1 \in A
  <2>1. PICK after : IsLoop(after, sum, data, i)
    OBVIOUS
  <2> DEFINE further == [index \in 0 .. i + 1 |->
                           IF index = i + 1 THEN UNION {Crc!Fed(s, i \in data) : s \in {after[i]}} ELSE after[index]]
  <2>2. i \in Nat
    OBVIOUS
  <2>3. \A index \in 0 .. i : further[index] = after[index]
    BY <2>2
  <2>4. ASSUME NEW index \in 0 .. i + 1
        PROVE  further[index] =
                 IF index = 0 THEN sum ELSE UNION {Crc!Fed(s, index - 1 \in data) : s \in {further[index - 1]}}
    <3>1. CASE index = i + 1
      <4>1. further[index] = UNION {Crc!Fed(s, i \in data) : s \in {after[i]}}
        BY <3>1
      <4>2. index - 1 = i /\ index # 0 /\ further[i] = after[i]
        BY <3>1, <2>2, <2>3
      <4>3. QED  BY <4>1, <4>2
    <3>2. CASE index # i + 1
      <4>1. index \in 0 .. i /\ (index # 0 => index - 1 \in 0 .. i)
        BY <2>2, <3>2
      <4>2. after[index] =
                 IF index = 0 THEN sum ELSE UNION {Crc!Fed(s, index - 1 \in data) : s \in {after[index - 1]}}
        BY <2>1, <4>1 DEF IsLoop
      <4> HIDE DEF further
      <4>3. QED  BY <4>1, <4>2, <2>3
    <3>3. QED  BY <3>1, <3>2
  <2>5. IsLoop(further, sum, data, i + 1)
    <3>1. further = [index \in 0 .. i + 1 |-> further[index]]
      OBVIOUS
    <3> HIDE DEF further
    <3>2. QED  BY <2>4, <3>1 DEF IsLoop
  <2>6. i + 1 \in 0 .. n
    BY <1>2, <2>2
  <2>7. QED  BY <2>5, <2>6
<1>3. n \in A
  <2> HIDE DEF A
  <2>1. A \in SUBSET (0 .. n)
    BY DEF A
  <2>2. QED  BY <1>1, <1>2, <2>1, Counting
<1>4. QED  BY <1>3

(* The loop, step by step: one Fed for each bit, lowest first.              *)
LEMMA UpdatedSteps ==
  ASSUME Width \in Nat, NEW sum, NEW data
  PROVE  \E after : /\ after[0] = sum /\ after[Width] = Crc!Updated(sum, data)
                    /\ \A i \in Bits : after[i + 1] = Crc!Fed(after[i], i \in data)
<1> DEFINE loop == CHOOSE after : IsLoop(after, sum, data, Width)
<1>1. IsLoop(loop, sum, data, Width)
  BY LoopExists
<1>2. loop[Width] = Crc!Updated(sum, data)
  BY DEF Crc!Updated, IsLoop
<1> HIDE DEF loop
<1>3. \A index \in 0 .. Width :
        loop[index] = IF index = 0 THEN sum ELSE UNION {Crc!Fed(s, index - 1 \in data) : s \in {loop[index - 1]}}
  BY <1>1 DEF IsLoop
<1>4. loop[0] = sum
  BY <1>3
<1>5. ASSUME NEW i \in Bits PROVE loop[i + 1] = Crc!Fed(loop[i], i \in data)
  <2>1. i + 1 \in 0 .. Width /\ i + 1 # 0 /\ (i + 1) - 1 = i
    BY DEF Bits
  <2>2. loop[i + 1] = UNION {Crc!Fed(s, i \in data) : s \in {loop[i]}}
    BY <1>3, <2>1
  <2>3. QED  BY <2>2
<1>6. QED  BY <1>2, <1>4, <1>5

(* One bit through the shift register: what falls out decides whether the   *)
(* polynomial goes in.                                                      *)
LEMMA FedType ==
  ASSUME Crc!CrcAssumption, NEW sum \in SUBSET Bits, NEW one
  PROVE  Crc!Fed(sum, one) \in SUBSET Bits
<1>1. Crc!Shifted(sum) \in SUBSET Bits
  <2>1. \A bit \in sum \ {0} : bit - 1 \in Bits
    BY DEF Bits, Crc!CrcAssumption
  <2>2. QED  BY <2>1 DEF Crc!Shifted
<1>2. QED  BY <1>1 DEF Crc!Fed, Crc!Xor, Bits, Crc!CrcAssumption

(* The polynomial's highest bit shows what fell out, so that nothing is     *)
(* lost: different sums stay different, and a different bit of data makes   *)
(* them different.                                                          *)
LEMMA FedShowsFallout ==
  ASSUME Crc!CrcAssumption, Width - 1 \in Poly, NEW sum \in SUBSET Bits, NEW one \in BOOLEAN
  PROVE  Width - 1 \in Crc!Fed(sum, one) <=> ((0 \in sum) # one)
<1>1. Width - 1 \notin Crc!Shifted(sum)
  <2>1. \A bit \in sum : bit \in Int /\ bit < Width /\ bit - 1 # Width - 1
    BY DEF Bits, Crc!CrcAssumption
  <2>2. QED  BY <2>1 DEF Crc!Shifted
<1>2. CASE (0 \in sum) # one
  BY <1>1, <1>2 DEF Crc!Fed, Crc!Xor
<1>3. CASE ~((0 \in sum) # one)
  BY <1>1, <1>3 DEF Crc!Fed, Crc!Xor
<1>4. QED  BY <1>2, <1>3

LEMMA ShiftedInjective ==
  ASSUME NEW s \in SUBSET Int, NEW t \in SUBSET Int, 0 \in s <=> 0 \in t, Crc!Shifted(s) = Crc!Shifted(t)
  PROVE  s \subseteq t
<1> SUFFICES ASSUME NEW bit \in s PROVE bit \in t
  OBVIOUS
<1>1. CASE bit = 0
  BY <1>1
<1>2. CASE bit # 0
  <2>1. bit - 1 \in Crc!Shifted(t)
    BY <1>2 DEF Crc!Shifted
  <2>2. PICK other \in t \ {0} : bit - 1 = other - 1
    BY <2>1 DEF Crc!Shifted
  <2>3. QED  BY <2>2
<1>3. QED  BY <1>1, <1>2

LEMMA FedInjective ==
  ASSUME Crc!CrcAssumption, Width - 1 \in Poly, NEW s \in SUBSET Bits, NEW t \in SUBSET Bits, s # t,
         NEW one \in BOOLEAN
  PROVE  Crc!Fed(s, one) # Crc!Fed(t, one)
<1> SUFFICES ASSUME Crc!Fed(s, one) = Crc!Fed(t, one) PROVE FALSE
  OBVIOUS
<1>1. ((0 \in s) # one) <=> ((0 \in t) # one)
  BY FedShowsFallout
<1>2. 0 \in s <=> 0 \in t
  BY <1>1
<1>3. Crc!Shifted(s) = Crc!Shifted(t)
  <2>1. CASE (0 \in s) # one
    <3>1. Crc!Xor(Crc!Shifted(s), Poly) = Crc!Xor(Crc!Shifted(t), Poly)
      BY <1>1, <2>1 DEF Crc!Fed
    <3>2. QED  BY <3>1 DEF Crc!Xor
  <2>2. CASE ~((0 \in s) # one)
    BY <1>1, <2>2 DEF Crc!Fed
  <2>3. QED  BY <2>1, <2>2
<1>4. s \in SUBSET Int /\ t \in SUBSET Int
  BY DEF Bits
<1>5. s \subseteq t /\ t \subseteq s
  BY <1>2, <1>3, <1>4, ShiftedInjective
<1>6. QED  BY <1>5

LEMMA FedNotices ==
  ASSUME Crc!CrcAssumption, Width - 1 \in Poly, NEW s \in SUBSET Bits,
         NEW one \in BOOLEAN, NEW other \in BOOLEAN, one # other
  PROVE  Crc!Fed(s, one) # Crc!Fed(s, other)
<1>1. ((0 \in s) # one) # ((0 \in s) # other)
  OBVIOUS
<1>2. QED  BY <1>1, FedShowsFallout

(* The loop over a whole word.                                              *)

LEMMA UpdatedLoop ==
  ASSUME Crc!CrcAssumption, NEW sum \in SUBSET Bits, NEW data
  PROVE  \E after \in [0 .. Width -> SUBSET Bits] :
           /\ after[0] = sum /\ after[Width] = Crc!Updated(sum, data)
           /\ \A i \in Bits : after[i + 1] = Crc!Fed(after[i], i \in data)
<1>0. Width \in Nat
  BY DEF Crc!CrcAssumption
<1>1. PICK after : /\ after[0] = sum /\ after[Width] = Crc!Updated(sum, data)
                   /\ \A i \in Bits : after[i + 1] = Crc!Fed(after[i], i \in data)
  BY <1>0, UpdatedSteps
<1>2. ASSUME NEW n \in 0 .. Width PROVE after[n] \in SUBSET Bits
  <2> DEFINE A == {i \in 0 .. n : after[i] \in SUBSET Bits}
  <2>1. 0 \in A
    BY <1>1
  <2>2. ASSUME NEW i \in A, i < n PROVE i + 1 \in A
    <3>1. i \in Bits /\ i + 1 \in 0 .. n
      BY <1>0, <2>2 DEF Bits
    <3>2. after[i + 1] = Crc!Fed(after[i], i \in data)
      BY <1>1, <3>1
    <3>3. QED  BY <3>1, <3>2, FedType
  <2>3. A \in SUBSET (0 .. n)
    OBVIOUS
  <2>4. n \in A
    <3> HIDE DEF A
    <3> QED  BY <2>1, <2>2, <2>3, Counting
  <2>5. QED  BY <2>4
<1>3. DEFINE loop == [i \in 0 .. Width |-> after[i]]
<1>4. loop \in [0 .. Width -> SUBSET Bits] /\ loop[0] = sum /\ loop[Width] = Crc!Updated(sum, data)
  BY <1>0, <1>1, <1>2
<1>5. ASSUME NEW i \in Bits PROVE loop[i + 1] = Crc!Fed(loop[i], i \in data)
  <2>1. i \in 0 .. Width /\ i + 1 \in 0 .. Width
    BY <1>0 DEF Bits
  <2>2. loop[i] = after[i] /\ loop[i + 1] = after[i + 1]
    BY <2>1
  <2> HIDE DEF loop
  <2>3. QED  BY <1>1, <2>2
<1>6. QED
  <2> HIDE DEF loop
  <2> QED  BY <1>4, <1>5

LEMMA UpdatedType ==
  ASSUME Crc!CrcAssumption, NEW sum \in SUBSET Bits, NEW data
  PROVE  Crc!Updated(sum, data) \in SUBSET Bits
<1>1. PICK after \in [0 .. Width -> SUBSET Bits] : after[Width] = Crc!Updated(sum, data)
  BY UpdatedLoop
<1>2. QED  BY <1>1 DEF Crc!CrcAssumption

Feeds(after, data, m, n) == \A i \in m .. n - 1 : after[i + 1] = Crc!Fed(after[i], i \in data)
Agree(d, e, m, n) == \A i \in m .. n - 1 : i \in d <=> i \in e

(* Up to a bit at which the data differ, two loops agree.                   *)
LEMMA LoopsAgree ==
  ASSUME NEW n \in Nat, NEW f, NEW g, f[0] = g[0], NEW d, NEW e,
         Feeds(f, d, 0, n), Feeds(g, e, 0, n), Agree(d, e, 0, n)
  PROVE  f[n] = g[n]
<1> DEFINE A == {i \in 0 .. n : f[i] = g[i]}
<1>1. 0 \in A
  OBVIOUS
<1>2. ASSUME NEW i \in A, i < n PROVE i + 1 \in A
  <2>1. i \in 0 .. n - 1 /\ i + 1 \in 0 .. n
    BY <1>2
  <2>2. (i \in d) = (i \in e) /\ f[i + 1] = Crc!Fed(f[i], i \in d) /\ g[i + 1] = Crc!Fed(g[i], i \in e)
    BY <2>1 DEF Feeds, Agree
  <2>3. QED  BY <2>1, <2>2
<1>3. A \in SUBSET (0 .. n)
  OBVIOUS
<1>4. n \in A
  <2> HIDE DEF A
  <2> QED  BY <1>1, <1>2, <1>3, Counting
<1>5. QED  BY <1>4

(* Once two sums differ, the same data leave them different.                *)
LEMMA LoopsDiffer ==
  ASSUME Crc!CrcAssumption, Width - 1 \in Poly, NEW m \in 0 .. Width,
         NEW f \in [0 .. Width -> SUBSET Bits], NEW g \in [0 .. Width -> SUBSET Bits], f[m] # g[m],
         NEW d, NEW e, Feeds(f, d, m, Width), Feeds(g, e, m, Width), Agree(d, e, m, Width)
  PROVE  f[Width] # g[Width]
<1>0. Width \in Nat /\ Width - m \in Nat /\ m \in Nat
  BY DEF Crc!CrcAssumption
<1> DEFINE A == {k \in 0 .. Width - m : f[m + k] # g[m + k]}
<1>1. 0 \in A
  BY <1>0
<1>2. ASSUME NEW k \in A, k < Width - m PROVE k + 1 \in A
  <2>1. PICK i \in m .. Width - 1 : i = m + k
    BY <1>0, <1>2
  <2>2. i \in 0 .. Width /\ f[i] \in SUBSET Bits /\ g[i] \in SUBSET Bits /\ f[i] # g[i] /\ i + 1 = m + (k + 1)
    BY <1>0, <2>1
  <2>3. (i \in d) = (i \in e) /\ (i \in d) \in BOOLEAN
    BY DEF Agree
  <2>4. Crc!Fed(f[i], i \in d) # Crc!Fed(g[i], i \in d)
    BY <2>2, <2>3, FedInjective
  <2>5. f[i + 1] # g[i + 1]
    BY <2>3, <2>4 DEF Feeds
  <2>6. QED  BY <1>0, <1>2, <2>2, <2>5
<1>3. A \in SUBSET (0 .. Width - m)
  OBVIOUS
<1>4. Width - m \in A
  <2> HIDE DEF A
  <2> QED  BY <1>0, <1>1, <1>2, <1>3, Counting
<1>5. m + (Width - m) = Width
  BY <1>0
<1>6. QED  BY <1>4, <1>5

(* Bits of the data beyond the width do not matter.                         *)
LEMMA UpdatedLow ==
  ASSUME Crc!CrcAssumption, NEW sum \in SUBSET Bits, NEW data
  PROVE  Crc!Updated(sum, Crc!Low(data)) = Crc!Updated(sum, data)
<1>0. Width \in Nat
  BY DEF Crc!CrcAssumption
<1>1. PICK f \in [0 .. Width -> SUBSET Bits] :
        /\ f[0] = sum /\ f[Width] = Crc!Updated(sum, Crc!Low(data))
        /\ \A i \in Bits : f[i + 1] = Crc!Fed(f[i], i \in Crc!Low(data))
  BY UpdatedLoop
<1>2. PICK g \in [0 .. Width -> SUBSET Bits] :
        /\ g[0] = sum /\ g[Width] = Crc!Updated(sum, data)
        /\ \A i \in Bits : g[i + 1] = Crc!Fed(g[i], i \in data)
  BY UpdatedLoop
<1>3. \A i \in 0 .. Width - 1 : i \in Crc!Low(data) <=> i \in data
  BY DEF Crc!Low
<1>4. f[Width] = g[Width]
  <2>1. f[0] = g[0]
    BY <1>1, <1>2
  <2>2. Feeds(f, Crc!Low(data), 0, Width) /\ Feeds(g, data, 0, Width) /\ Agree(Crc!Low(data), data, 0, Width)
    BY <1>1, <1>2, <1>3 DEF Bits, Feeds, Agree
  <2>3. QED  BY <1>0, <2>1, <2>2, LoopsAgree, Zenon
<1>5. QED  BY <1>1, <1>2, <1>4

(* Different sums stay different over a word.                               *)
LEMMA UpdatedInjective ==
  ASSUME Crc!CrcAssumption, Width - 1 \in Poly, NEW s \in SUBSET Bits, NEW t \in SUBSET Bits, s # t, NEW data
  PROVE  Crc!Updated(s, data) # Crc!Updated(t, data)
<1>0. 0 \in 0 .. Width
  BY DEF Crc!CrcAssumption
<1>1. PICK f \in [0 .. Width -> SUBSET Bits] :
        /\ f[0] = s /\ f[Width] = Crc!Updated(s, data)
        /\ \A i \in Bits : f[i + 1] = Crc!Fed(f[i], i \in data)
  BY UpdatedLoop
<1>2. PICK g \in [0 .. Width -> SUBSET Bits] :
        /\ g[0] = t /\ g[Width] = Crc!Updated(t, data)
        /\ \A i \in Bits : g[i + 1] = Crc!Fed(g[i], i \in data)
  BY UpdatedLoop
<1>3. f[Width] # g[Width]
  <2>1. f[0] # g[0]
    BY <1>1, <1>2
  <2>2. Feeds(f, data, 0, Width) /\ Feeds(g, data, 0, Width) /\ Agree(data, data, 0, Width)
    BY <1>1, <1>2 DEF Bits, Feeds, Agree
  <2>3. QED  BY <1>0, <2>1, <2>2, LoopsDiffer, Zenon
<1>4. QED  BY <1>1, <1>2, <1>3

(* A word that differs in one bit changes the sum.                          *)
LEMMA UpdatedNotices ==
  ASSUME Crc!CrcAssumption, Width - 1 \in Poly, NEW s \in SUBSET Bits, NEW data \in SUBSET Bits, NEW bit \in Bits
  PROVE  Crc!Updated(s, Crc!Xor(data, {bit})) # Crc!Updated(s, data)
<1> DEFINE spoilt == Crc!Xor(data, {bit})
<1>0. Width \in Nat /\ bit \in Nat /\ bit + 1 \in 0 .. Width
  BY DEF Crc!CrcAssumption, Bits
<1>1. /\ \A i \in Bits \ {bit} : i \in spoilt <=> i \in data
      /\ (bit \in spoilt) # (bit \in data)
  BY DEF Crc!Xor
<1> HIDE DEF spoilt
<1>2. PICK f \in [0 .. Width -> SUBSET Bits] :
        /\ f[0] = s /\ f[Width] = Crc!Updated(s, spoilt)
        /\ \A i \in Bits : f[i + 1] = Crc!Fed(f[i], i \in spoilt)
  BY UpdatedLoop
<1>3. PICK g \in [0 .. Width -> SUBSET Bits] :
        /\ g[0] = s /\ g[Width] = Crc!Updated(s, data)
        /\ \A i \in Bits : g[i + 1] = Crc!Fed(g[i], i \in data)
  BY UpdatedLoop
<1>4. f[bit] = g[bit]
  <2>1. \A i \in 0 .. bit - 1 : i \in Bits \ {bit}
    BY <1>0 DEF Bits
  <2>2. Feeds(f, spoilt, 0, bit) /\ Feeds(g, data, 0, bit) /\ Agree(spoilt, data, 0, bit)
    BY <1>1, <1>2, <1>3, <2>1 DEF Feeds, Agree
  <2>3. f[0] = g[0]
    BY <1>2, <1>3
  <2>4. QED  BY <1>0, <2>2, <2>3, LoopsAgree, Zenon
<1>5. f[bit + 1] # g[bit + 1]
  <2>1. f[bit] \in SUBSET Bits
    BY <1>0, <1>2 DEF Bits
  <2>2. Crc!Fed(f[bit], bit \in spoilt) # Crc!Fed(f[bit], bit \in data)
    <3>1. (bit \in spoilt) \in BOOLEAN /\ (bit \in data) \in BOOLEAN
      OBVIOUS
    <3>2. QED  BY <1>1, <2>1, <3>1, FedNotices, Zenon
  <2>3. QED  BY <1>2, <1>3, <1>4, <2>2
<1>6. \A i \in bit + 1 .. Width - 1 : i \in Bits \ {bit}
  BY <1>0 DEF Bits
<1>7. f[Width] # g[Width]
  <2>1. Feeds(f, spoilt, bit + 1, Width) /\ Feeds(g, data, bit + 1, Width) /\ Agree(spoilt, data, bit + 1, Width)
    BY <1>1, <1>2, <1>3, <1>6 DEF Feeds, Agree
  <2>2. QED  BY <1>0, <1>5, <2>1, LoopsDiffer, Zenon
<1>8. QED  BY <1>2, <1>3, <1>7 DEF spoilt

(***************************************************************************)
(* BootCrc: the two loops side by side.                                     *)
(***************************************************************************)

First == FirstPage * Page
Here == hi * Page + lo                               \* the word the boot loader reads next
Spoilt(a) == changed.address \in First .. a

(* trail is the sum before each word, as the tool has it; the boot loader's *)
(* is the same as long as it has not read the changed word, and another     *)
(* ever after.                                                              *)
CrcTrail(trail) ==
  /\ trail \in [Crc!Address -> SUBSET Bits] /\ trail[First] = {} /\ trail[address] = hostCrc
  /\ \A a \in First .. address - 1 : trail[a + 1] = Crc!Updated(trail[a], image[a])
  /\ pc = "checking" /\ Here <= sealedAt =>
       /\ ~Spoilt(Here - 1) => crc = trail[Here]
       /\ Spoilt(Here - 1) /\ Width - 1 \in Poly => crc # trail[Here]

(* The flash is the image, but for the changed bit.                         *)
Programmed ==
  /\ address = sealedAt /\ image[sealedAt] = hostCrc
  /\ \A a \in Crc!Address :
       flash[a] = IF a = changed.address THEN Crc!Xor(Crc!Low(image[a]), {changed.bit}) ELSE Crc!Low(image[a])

Decided ==
  /\ ~Spoilt(sealedAt) => passedCrc
  /\ Spoilt(sealedAt) /\ Width - 1 \in Poly => sealedAt \notin matched

CrcIInv ==
  /\ Crc!TypeOK
  /\ address <= sealedAt
  /\ changed = Crc!Nothing \/ (changed.address \in Crc!Address /\ changed.bit \in Bits)
  /\ pc = "sealing" => changed = Crc!Nothing
  /\ pc # "sealing" => Programmed
  /\ pc \in {"sealing", "programmed"} => matched = {}
  /\ pc = "checking" => hi <= LastPage
  /\ pc = "checking" /\ Here <= sealedAt => sealedAt \notin matched
  /\ pc = "done" \/ (pc = "checking" /\ Here > sealedAt) => Decided
  /\ \E trail : CrcTrail(trail)

(* Pages and words within them make up the addresses.                       *)
LEMMA PageOrder ==
  ASSUME NEW a \in Nat, NEW b \in Nat, NEW p \in Nat
  PROVE  /\ a * p \in Nat /\ (a + 1) * p = a * p + p
         /\ a <= b => a * p <= b * p
         /\ a < b => a * p + p <= b * p
OBVIOUS

LEMMA PageRemainder ==
  ASSUME NEW p \in Nat \ {0}, NEW i \in 0 .. p - 1
  PROVE  (i + 1) % p = IF i + 1 = p THEN 0 ELSE i + 1
OBVIOUS

LEMMA Places ==
  ASSUME Crc!CrcAssumption
  PROVE  /\ First \in Nat /\ First \in Crc!Address /\ Crc!Address = First .. Crc!LastWord
         /\ Crc!LastWord \in Crc!Address /\ Crc!NormalEnd \in Crc!Address
         /\ Crc!NormalEnd < Crc!LastWord
         /\ -1 \notin Crc!Address
<1>1. FirstPage \in Nat /\ LastPage \in Nat /\ Page \in Nat \ {0} /\ FirstPage <= LastPage /\ Page % 2 = 0
  BY DEF Crc!CrcAssumption
<1>2. PICK f \in Nat, l \in Nat : f = FirstPage * Page /\ l = LastPage * Page /\ (LastPage + 1) * Page = l + Page /\ f <= l
  BY <1>1, PageOrder
<1>3. Page \div 2 \in Nat /\ Page = 2 * (Page \div 2)
  BY <1>1
<1>4. Crc!LastWord = l + Page - 1 /\ Crc!NormalEnd = l + (Page \div 2) - 1 /\ First = f
      /\ Crc!Address = f .. l + Page - 1
  <2>1. Crc!LastWord = l + Page - 1
    BY <1>1, <1>2 DEF Crc!LastWord
  <2>2. Crc!NormalEnd = l + (Page \div 2) - 1
    BY <1>2, Zenon DEF Crc!NormalEnd
  <2>3. First = f
    BY <1>2, Zenon DEF First
  <2>4. Crc!Address = f .. l + Page - 1
    BY <1>1, <1>2 DEF Crc!Address
  <2>5. QED  BY <2>1, <2>2, <2>3, <2>4
<1>5. QED  BY <1>1, <1>2, <1>3, <1>4

LEMMA Increment ==
  ASSUME Crc!CrcAssumption, hi \in FirstPage .. LastPage, lo \in 0 .. Page - 1
  PROVE  /\ Here \in Crc!Address
         /\ Crc!Incremented.hi \in FirstPage .. LastPage + 1 /\ Crc!Incremented.lo \in 0 .. Page - 1
         /\ Crc!Incremented.hi * Page + Crc!Incremented.lo = Here + 1
         /\ Here \in {Crc!NormalEnd, Crc!LastWord} <=> Crc!AtCrc(Crc!Incremented)
         /\ Crc!AtCrc(Crc!Incremented) /\ Crc!Incremented.hi = LastPage + 1 => Here = Crc!LastWord
         /\ ~(Crc!AtCrc(Crc!Incremented) /\ Crc!Incremented.hi = LastPage + 1) =>
              Here # Crc!LastWord /\ Crc!Incremented.hi <= LastPage
<1>1. /\ FirstPage \in Nat /\ LastPage \in Nat /\ Page \in Nat \ {0} /\ FirstPage <= LastPage /\ Page % 2 = 0
      /\ hi \in Nat /\ lo \in Nat
  BY DEF Crc!CrcAssumption
<1>2. PICK f \in Nat, l \in Nat, h \in Nat :
         /\ f = FirstPage * Page /\ l = LastPage * Page /\ h = hi * Page
         /\ (LastPage + 1) * Page = l + Page /\ (hi + 1) * Page = h + Page
         /\ f <= h /\ h <= l /\ (hi < LastPage => h + Page <= l)
  BY <1>1, PageOrder
<1>3. Page \div 2 \in Nat /\ Page = 2 * (Page \div 2)
  BY <1>1
<1>4. Crc!LastWord = l + Page - 1 /\ Crc!NormalEnd = l + (Page \div 2) - 1 /\ Here = h + lo
      /\ Crc!Address = f .. l + Page - 1
  <2>1. Crc!LastWord = l + Page - 1
    BY <1>1, <1>2 DEF Crc!LastWord
  <2>2. Crc!NormalEnd = l + (Page \div 2) - 1
    BY <1>2, Zenon DEF Crc!NormalEnd
  <2>3. Here = h + lo
    BY <1>2, Zenon DEF Here
  <2>4. Crc!Address = f .. l + Page - 1
    BY <1>1, <1>2 DEF Crc!Address
  <2>5. QED  BY <2>1, <2>2, <2>3, <2>4
<1>5. (hi = LastPage => h = l) /\ Here \in Crc!Address
  BY <1>1, <1>2, <1>4
<1>6. CASE lo + 1 = Page
  <2>1. Crc!Incremented.lo = 0 /\ Crc!Incremented.hi = hi + 1
    BY <1>1, <1>6, PageRemainder DEF Crc!Incremented
  <2>2. Crc!Incremented.hi * Page + Crc!Incremented.lo = Here + 1
    BY <1>1, <1>2, <1>4, <1>6, <2>1
  <2>3. Crc!AtCrc(Crc!Incremented) <=> hi = LastPage
    BY <1>1, <1>3, <2>1 DEF Crc!AtCrc
  <2>4. Here = Crc!LastWord <=> hi = LastPage
    BY <1>1, <1>2, <1>4, <1>5, <1>6
  <2>5. Here # Crc!NormalEnd
    BY <1>1, <1>2, <1>3, <1>4, <1>5, <1>6
  <2>6. QED  BY <1>1, <1>5, <2>1, <2>2, <2>3, <2>4, <2>5
<1>7. CASE lo + 1 # Page
  <2>1. Crc!Incremented.lo = lo + 1 /\ Crc!Incremented.hi = hi /\ lo + 1 < Page
    BY <1>1, <1>7, PageRemainder DEF Crc!Incremented
  <2>2. Crc!Incremented.hi * Page + Crc!Incremented.lo = Here + 1
    BY <1>1, <1>2, <1>4, <2>1
  <2>3. Crc!AtCrc(Crc!Incremented) <=> lo + 1 = Page \div 2 /\ hi = LastPage
    BY <1>1, <1>3, <2>1 DEF Crc!AtCrc
  <2>4. Here = Crc!NormalEnd <=> lo + 1 = Page \div 2 /\ hi = LastPage
    BY <1>1, <1>2, <1>3, <1>4, <1>5, <2>1
  <2>5. Here # Crc!LastWord
    BY <1>1, <1>2, <1>3, <1>4, <1>5, <2>1
  <2>6. QED  BY <1>1, <1>5, <2>1, <2>2, <2>3, <2>4, <2>5
<1>8. QED  BY <1>6, <1>7

LEMMA CrcInitInv ==
  ASSUME Crc!CrcAssumption, Crc!Init
  PROVE  CrcIInv
<1>0. FirstPage \in Nat /\ LastPage \in Nat /\ Page \in Nat \ {0} /\ FirstPage <= LastPage /\ Width \in Nat \ {0}
  BY DEF Crc!CrcAssumption
<1>1. /\ address = First /\ hostCrc = {} /\ pc = "sealing" /\ changed = Crc!Nothing /\ matched = {}
      /\ hi = FirstPage /\ lo = 0 /\ crc = {} /\ passedCrc \in BOOLEAN
      /\ sealedAt \in {Crc!NormalEnd, Crc!LastWord}
  BY DEF Crc!Init, First
<1>2. /\ image \in [Crc!Address -> SUBSET (0 .. Width + 1)]
      /\ flash \in [Crc!Address -> SUBSET (0 .. Width - 1)]
  BY DEF Crc!Init, Crc!CrcAssumption
<1>3. First <= sealedAt
  BY <1>1, Places
<1>4. changed \in [address : Crc!Address \cup {-1}, bit : -1 .. Width - 1]
  BY <1>0, <1>1 DEF Crc!Nothing
<1>5. Crc!TypeOK
  BY <1>0, <1>1, <1>2, <1>4, Places DEF Crc!TypeOK
<1>6. CrcTrail([a \in Crc!Address |-> {}])
  <2>1. [a \in Crc!Address |-> {}] \in [Crc!Address -> SUBSET Bits]
    OBVIOUS
  <2>2. First .. address - 1 = {} /\ [a \in Crc!Address |-> {}][First] = {}
    BY <1>1, Places
  <2>3. QED  BY <1>1, <2>1, <2>2 DEF CrcTrail
<1>7. QED  BY <1>1, <1>3, <1>5, <1>6 DEF CrcIInv

LEMMA CrcInvProperties ==
  ASSUME Crc!CrcAssumption, CrcIInv
  PROVE  Crc!SealedStarts /\ (Width - 1 \in Poly => Crc!OneBitIsNoticed)
<1>1. sealedAt \in Nat /\ First \in Nat
  BY Places DEF CrcIInv, Crc!TypeOK
<1>2. Crc!SealedStarts
  <2> SUFFICES ASSUME pc = "done", changed = Crc!Nothing \/ changed.address > sealedAt PROVE passedCrc
    BY DEF Crc!SealedStarts
  <2>1. ~Spoilt(sealedAt)
    <3>1. CASE changed = Crc!Nothing
      BY <1>1, <3>1 DEF Spoilt, Crc!Nothing
    <3>2. CASE changed.address > sealedAt
      <4>1. changed = Crc!Nothing \/ changed.address \in Int
        BY Places DEF CrcIInv
      <4>2. QED  BY <1>1, <3>1, <3>2, <4>1 DEF Spoilt
    <3>3. QED  BY <3>1, <3>2
  <2>2. QED  BY <2>1 DEF CrcIInv, Decided
<1>3. Width - 1 \in Poly => Crc!OneBitIsNoticed
  BY DEF Crc!OneBitIsNoticed, CrcIInv, Decided, Spoilt, First
<1>4. QED  BY <1>2, <1>3

(* The tool adds one word to the trail.                                     *)
LEMMA CrcSealWord ==
  ASSUME Crc!CrcAssumption, CrcIInv, Crc!SealWord
  PROVE  CrcIInv'
<1>1. /\ pc = "sealing" /\ address # sealedAt
      /\ hostCrc' = Crc!Updated(hostCrc, image[address]) /\ address' = address + 1
      /\ UNCHANGED <<image, flash, hi, lo, crc, passedCrc, pc, sealedAt, changed, matched>>
  BY DEF Crc!SealWord
<1>2. /\ address \in Crc!Address /\ sealedAt \in Crc!Address /\ address + 1 \in Crc!Address
      /\ address + 1 <= sealedAt /\ hostCrc \in SUBSET Bits /\ address \in Nat /\ First <= address
  BY <1>1, Places DEF CrcIInv, Crc!TypeOK, Bits
<1>3. hostCrc' \in SUBSET Bits
  BY <1>1, <1>2, UpdatedType
<1>4. PICK trail : CrcTrail(trail)
  BY DEF CrcIInv
<1>5. PICK longer \in [Crc!Address -> SUBSET Bits] :
        /\ longer[address + 1] = hostCrc'
        /\ \A a \in First .. address : longer[a] = trail[a]
  <2>1. trail \in [Crc!Address -> SUBSET Bits]
    BY <1>4 DEF CrcTrail
  <2>2. \A a \in First .. address : a \in Crc!Address /\ a # address + 1
    BY <1>2, Places
  <2>3. [trail EXCEPT ![address + 1] = hostCrc'] \in [Crc!Address -> SUBSET Bits]
    BY <1>2, <1>3, <2>1
  <2>4. QED  BY <1>2, <2>1, <2>2, <2>3
<1>6. \A a \in First .. address : longer[a + 1] = Crc!Updated(longer[a], image[a])
  <2>1. TAKE a \in First .. address
  <2>2. CASE a = address
    BY <1>1, <1>2, <1>4, <1>5, <2>2, Places DEF CrcTrail
  <2>3. CASE a # address
    <3>1. a \in First .. address - 1 /\ a + 1 \in First .. address
      BY <1>2, <2>3, Places
    <3>2. QED  BY <1>4, <1>5, <3>1 DEF CrcTrail
  <2>4. QED  BY <2>2, <2>3
<1>7. CrcTrail(longer)'
  <2>1. longer[First] = {}
    BY <1>2, <1>4, <1>5, Places DEF CrcTrail
  <2>2. First .. address' - 1 = First .. address
    BY <1>1, <1>2
  <2>3. longer[address'] = hostCrc' /\ pc' # "checking"
    BY <1>1, <1>5
  <2>4. \A a \in First .. address' - 1 : longer[a + 1] = Crc!Updated(longer[a], image'[a])
    BY <1>1, <1>6, <2>2
  <2>5. QED  BY <1>5, <2>1, <2>3, <2>4 DEF CrcTrail
<1>8. Crc!TypeOK'
  BY <1>1, <1>2, <1>3 DEF CrcIInv, Crc!TypeOK, Bits
<1>9. QED  BY <1>1, <1>2, <1>7, <1>8 DEF CrcIInv

LEMMA CrcSeal ==
  ASSUME Crc!CrcAssumption, CrcIInv, Crc!Seal
  PROVE  CrcIInv'
<1>1. /\ pc = "sealing" /\ pc' = "programmed" /\ address = sealedAt
      /\ image' = [image EXCEPT ![address] = hostCrc]
      /\ flash' = [a \in Crc!Address |-> Crc!Low(image'[a])]
      /\ UNCHANGED <<address, hostCrc, hi, lo, crc, passedCrc, sealedAt, changed, matched>>
  BY DEF Crc!Seal
<1>2. /\ address \in Crc!Address /\ address \in Nat /\ hostCrc \in SUBSET Bits
      /\ image \in [Crc!Address -> SUBSET (0 .. Width + 1)] /\ changed = Crc!Nothing
  <2>1. /\ address \in Crc!Address /\ hostCrc \in SUBSET Bits
        /\ image \in [Crc!Address -> SUBSET (0 .. Width + 1)]
    BY DEF CrcIInv, Crc!TypeOK, Bits
  <2>2. address \in Nat
    BY <2>1, Places
  <2>3. changed = Crc!Nothing
    BY <1>1 DEF CrcIInv
  <2>4. QED  BY <2>1, <2>2, <2>3
<1>3. hostCrc \in SUBSET (0 .. Width + 1)
  BY <1>2 DEF Bits, Crc!CrcAssumption
<1>4. image' \in [Crc!Address -> SUBSET (0 .. Width + 1)] /\ image'[sealedAt'] = hostCrc'
  BY <1>1, <1>2, <1>3
<1>5. flash' \in [Crc!Address -> SUBSET (0 .. Width - 1)]
  BY <1>1 DEF Crc!Low
<1>6. Crc!TypeOK'
  BY <1>1, <1>2, <1>4, <1>5 DEF CrcIInv, Crc!TypeOK
<1>7. Programmed'
  <2>1. \A a \in Crc!Address : a # changed'.address
    BY <1>1, <1>2, Places DEF Crc!Nothing
  <2>2. QED  BY <1>1, <1>4, <2>1 DEF Programmed
<1>8. PICK trail : CrcTrail(trail)
  BY DEF CrcIInv
<1>9. CrcTrail(trail)'
  <2>1. \A a \in First .. address - 1 : image'[a] = image[a]
    <3>1. \A a \in First .. address - 1 : a \in Crc!Address /\ a # address
      BY <1>2, Places
    <3>2. QED  BY <1>1, <1>2, <3>1
  <2>2. QED  BY <1>1, <1>8, <2>1 DEF CrcTrail
<1>10. QED  BY <1>1, <1>2, <1>6, <1>7, <1>9 DEF CrcIInv

LEMMA CrcChange ==
  ASSUME Crc!CrcAssumption, CrcIInv, NEW a \in Crc!Address, NEW bit \in 0 .. Width - 1, Crc!Change(a, bit)
  PROVE  CrcIInv'
<1>1. /\ pc = "programmed" /\ changed = Crc!Nothing
      /\ flash' = [flash EXCEPT ![a] = Crc!Xor(flash[a], {bit})]
      /\ changed' = [address |-> a, bit |-> bit]
      /\ UNCHANGED <<image, address, hostCrc, hi, lo, crc, passedCrc, pc, sealedAt, matched>>
  BY DEF Crc!Change
<1>2. flash \in [Crc!Address -> SUBSET (0 .. Width - 1)] /\ Crc!Xor(flash[a], {bit}) \in SUBSET (0 .. Width - 1)
  BY DEF CrcIInv, Crc!TypeOK, Crc!Xor
<1>3. changed' \in [address : Crc!Address \cup {-1}, bit : -1 .. Width - 1]
  BY <1>1 DEF Crc!CrcAssumption
<1>4. flash' \in [Crc!Address -> SUBSET (0 .. Width - 1)]
  BY <1>1, <1>2
<1>5. Crc!TypeOK'
  BY <1>1, <1>3, <1>4 DEF CrcIInv, Crc!TypeOK
<1>6. Programmed'
  <2>1. changed'.address = a /\ changed'.bit = bit /\ changed.address \notin Crc!Address
    BY <1>1, Places DEF Crc!Nothing
  <2>2. \A b \in Crc!Address : flash[b] = Crc!Low(image[b])
    BY <1>1, <2>1 DEF CrcIInv, Programmed
  <2>3. \A b \in Crc!Address : flash'[b] = IF b = a THEN Crc!Xor(flash[b], {bit}) ELSE flash[b]
    BY <1>1, <1>2
  <2>4. QED  BY <1>1, <2>1, <2>2, <2>3 DEF CrcIInv, Programmed
<1>7. PICK trail : CrcTrail(trail)
  BY DEF CrcIInv
<1>8. CrcTrail(trail)'
  BY <1>1, <1>7 DEF CrcTrail
<1>9. changed'.address \in Crc!Address /\ changed'.bit \in Bits
  BY <1>1 DEF Bits
<1>10. QED  BY <1>1, <1>5, <1>6, <1>8, <1>9 DEF CrcIInv

LEMMA CrcPowerUp ==
  ASSUME Crc!CrcAssumption, CrcIInv, Crc!PowerUp
  PROVE  CrcIInv'
<1>0. FirstPage \in Nat /\ LastPage \in Nat /\ Page \in Nat \ {0} /\ FirstPage <= LastPage
  BY DEF Crc!CrcAssumption
<1>1. /\ pc = "programmed" /\ pc' = "checking"
      /\ hi' = FirstPage /\ lo' = 0 /\ crc' = {} /\ ~passedCrc' /\ passedCrc' \in BOOLEAN
      /\ UNCHANGED <<image, address, hostCrc, flash, sealedAt, changed, matched>>
  BY DEF Crc!PowerUp
<1>2. Here' = First /\ First \in Nat /\ First <= sealedAt
  <2>1. FirstPage * Page \in Nat /\ FirstPage * Page + 0 = FirstPage * Page
    BY <1>0, PageOrder
  <2>2. Here' = FirstPage * Page + 0
    BY <1>1 DEF Here
  <2>3. QED  BY <2>1, <2>2, Places DEF First, CrcIInv, Crc!TypeOK
<1>3. Crc!TypeOK'
  BY <1>0, <1>1 DEF CrcIInv, Crc!TypeOK
<1>4. ~Spoilt(Here - 1)'
  BY <1>1, <1>2 DEF Spoilt
<1>5. PICK trail : CrcTrail(trail)
  BY DEF CrcIInv
<1>6. CrcTrail(trail)'
  BY <1>1, <1>2, <1>4, <1>5 DEF CrcTrail
<1>7. Programmed' /\ matched' = {} /\ hi' <= LastPage
  BY <1>0, <1>1 DEF CrcIInv, Programmed
<1>8. sealedAt' \notin matched' /\ ~(Here' > sealedAt')
  <2>1. sealedAt \in Nat
    BY Places DEF CrcIInv, Crc!TypeOK
  <2>2. QED  BY <1>1, <1>2, <1>7, <2>1
<1>9. QED  BY <1>1, <1>3, <1>6, <1>7, <1>8 DEF CrcIInv

(* The boot loader reads one word, before, at or behind the CRC.            *)
LEMMA CrcCheckWord ==
  ASSUME Crc!CrcAssumption, CrcIInv, Crc!CheckWord
  PROVE  CrcIInv'
<1> DEFINE next == Crc!Incremented
           data == flash[Here]
           ends == Crc!AtCrc(next) /\ next.hi = LastPage + 1
<1>1. /\ pc = "checking" /\ lo' = next.lo /\ hi' = next.hi
      /\ passedCrc' = (passedCrc \/ (Crc!AtCrc(next) /\ data = crc))
      /\ matched' = IF Crc!AtCrc(next) /\ data = crc THEN matched \cup {Here} ELSE matched
      /\ crc' = IF ends THEN crc ELSE Crc!Updated(crc, data)
      /\ pc' = IF ends THEN "done" ELSE "checking"
      /\ UNCHANGED <<image, address, hostCrc, flash, sealedAt, changed>>
  BY DEF Crc!CheckWord, Here
<1>2. /\ hi \in FirstPage .. LastPage /\ lo \in 0 .. Page - 1
      /\ crc \in SUBSET Bits /\ hostCrc \in SUBSET Bits
      /\ flash \in [Crc!Address -> SUBSET Bits] /\ image \in [Crc!Address -> SUBSET (0 .. Width + 1)]
      /\ sealedAt \in {Crc!NormalEnd, Crc!LastWord} /\ passedCrc \in BOOLEAN
      /\ matched \subseteq {Crc!NormalEnd, Crc!LastWord}
  <2>1. hi \in FirstPage .. LastPage + 1 /\ hi <= LastPage /\ LastPage \in Nat /\ FirstPage \in Nat
    BY <1>1 DEF CrcIInv, Crc!TypeOK, Crc!CrcAssumption
  <2>2. QED  BY <2>1 DEF CrcIInv, Crc!TypeOK, Bits
<1>3. /\ Here \in Crc!Address /\ Here' = Here + 1
      /\ next.hi \in FirstPage .. LastPage + 1 /\ next.lo \in 0 .. Page - 1
      /\ Here \in {Crc!NormalEnd, Crc!LastWord} <=> Crc!AtCrc(next)
      /\ ends => Here = Crc!LastWord
      /\ ~ends => Here # Crc!LastWord /\ next.hi <= LastPage
  BY <1>1, <1>2, Increment DEF Here
<1>4. /\ Here \in Nat /\ sealedAt \in Crc!Address /\ sealedAt \in Nat /\ First \in Nat /\ First <= Here
      /\ Here <= Crc!LastWord /\ sealedAt <= Crc!LastWord
      /\ changed = Crc!Nothing \/ changed.address \in Nat
      /\ changed = Crc!Nothing => changed.address = -1
      /\ Crc!LastWord \in Nat
  BY <1>2, <1>3, Places DEF CrcIInv, Crc!Nothing
<1>5. Crc!Updated(crc, data) \in SUBSET Bits
  BY <1>2, UpdatedType
<1>6. data \in SUBSET Bits
  BY <1>2, <1>3
<1>7. Programmed /\ Programmed'
  BY <1>1 DEF CrcIInv, Programmed
<1>8. Crc!AtCrc(next) \in BOOLEAN
  BY DEF Crc!AtCrc
<1> HIDE DEF next, data, ends
<1>9. matched' \subseteq {Crc!NormalEnd, Crc!LastWord}
  <2>1. CASE Here \in {Crc!NormalEnd, Crc!LastWord}
    BY <1>1, <1>2, <2>1
  <2>2. CASE Here \notin {Crc!NormalEnd, Crc!LastWord}
    BY <1>1, <1>2, <1>3, <2>2
  <2>3. QED  BY <2>1, <2>2
<1>10. crc' \in SUBSET Bits /\ passedCrc' \in BOOLEAN /\ pc' \in {"checking", "done"}
  BY <1>1, <1>2, <1>5, <1>8
<1>11. Crc!TypeOK'
  BY <1>1, <1>3, <1>9, <1>10 DEF CrcIInv, Crc!TypeOK, Bits
<1>12. PICK trail : CrcTrail(trail)
  BY DEF CrcIInv
<1>13. pc' = "checking" => ~ends /\ hi' <= LastPage
  BY <1>1, <1>3
<1>14. ends => Here = Crc!LastWord
  BY <1>3
<1>15. Spoilt(sealedAt)' = Spoilt(sealedAt) /\ \A a \in Nat : Spoilt(a)' = Spoilt(a)
  BY <1>1 DEF Spoilt
(* Before the CRC: the two sums go on together, or apart.                   *)
<1>16. CASE Here < sealedAt
  <2>1. ~ends /\ pc' = "checking" /\ Here' <= sealedAt /\ crc' = Crc!Updated(crc, data)
    BY <1>1, <1>3, <1>4, <1>16
  <2>2. sealedAt \notin matched
    BY <1>1, <1>4, <1>16 DEF CrcIInv
  <2>3. sealedAt \notin matched'
    BY <1>1, <1>4, <1>16, <2>2
  <2>4. /\ trail \in [Crc!Address -> SUBSET Bits]
        /\ trail[Here + 1] = Crc!Updated(trail[Here], image[Here])
        /\ ~Spoilt(Here - 1) => crc = trail[Here]
        /\ Spoilt(Here - 1) /\ Width - 1 \in Poly => crc # trail[Here]
    <3>1. Here \in First .. address - 1
      BY <1>4, <1>7, <1>16 DEF Programmed
    <3>2. QED  BY <1>1, <1>4, <1>12, <1>16, <3>1 DEF CrcTrail
  <2>5. trail[Here] \in SUBSET Bits
    BY <1>3, <2>4
  <2>6. trail[Here + 1] = Crc!Updated(trail[Here], Crc!Low(image[Here]))
    BY <2>4, <2>5, UpdatedLow
  <2>7. data = IF Here = changed.address THEN Crc!Xor(Crc!Low(image[Here]), {changed.bit}) ELSE Crc!Low(image[Here])
    BY <1>3, <1>7 DEF Programmed, data
  <2>8. Spoilt(Here) <=> Spoilt(Here - 1) \/ Here = changed.address
    BY <1>4 DEF Spoilt
  <2>9. ~Spoilt(Here) => crc' = trail[Here + 1]
    BY <2>1, <2>4, <2>6, <2>7, <2>8
  <2>10. Spoilt(Here) /\ Width - 1 \in Poly => crc' # trail[Here + 1]
    <3> SUFFICES ASSUME Spoilt(Here), Width - 1 \in Poly PROVE crc' # trail[Here + 1]
      OBVIOUS
    <3>1. CASE Here = changed.address
      <4>1. ~Spoilt(Here - 1)
        BY <1>4, <3>1 DEF Spoilt
      <4>2. changed.bit \in Bits
        BY <1>4, <3>1 DEF CrcIInv
      <4>3. Crc!Low(image[Here]) \in SUBSET Bits
        BY DEF Crc!Low, Bits
      <4>4. crc = trail[Here] /\ data = Crc!Xor(Crc!Low(image[Here]), {changed.bit})
        BY <2>4, <2>7, <3>1, <4>1
      <4>5. Crc!Updated(trail[Here], data) # Crc!Updated(trail[Here], Crc!Low(image[Here]))
        BY <2>5, <4>2, <4>3, <4>4, UpdatedNotices
      <4>6. QED  BY <2>1, <2>6, <4>4, <4>5
    <3>2. CASE Here # changed.address
      <4>1. crc # trail[Here] /\ data = Crc!Low(image[Here])
        BY <2>4, <2>7, <2>8, <3>2
      <4>2. Crc!Updated(crc, data) # Crc!Updated(trail[Here], data)
        BY <1>2, <2>5, <4>1, UpdatedInjective
      <4>3. QED  BY <2>1, <2>6, <4>1, <4>2
    <3>3. QED  BY <3>1, <3>2
  <2>11. (Spoilt(Here - 1))' <=> Spoilt(Here)
    BY <1>1, <1>3, <1>4 DEF Spoilt
  <2>12. ~(Here' > sealedAt')
    BY <1>1, <1>3, <1>4, <1>16
  <2>13. CrcTrail(trail)'
    BY <1>1, <1>3, <1>12, <2>9, <2>10, <2>11 DEF CrcTrail
  <2>14. QED  BY <1>1, <1>4, <1>7, <1>11, <1>13, <2>1, <2>3, <2>12, <2>13 DEF CrcIInv
(* At the CRC.                                                              *)
<1>17. CASE Here = sealedAt
  <2>1. Crc!AtCrc(next)
    BY <1>2, <1>3, <1>17
  <2>2. /\ sealedAt \notin matched
        /\ trail[Here] = hostCrc
        /\ ~Spoilt(Here - 1) => crc = hostCrc
        /\ Spoilt(Here - 1) /\ Width - 1 \in Poly => crc # hostCrc
    BY <1>1, <1>4, <1>7, <1>12, <1>17 DEF CrcIInv, CrcTrail, Programmed
  <2>3. Crc!Low(image[Here]) = hostCrc
    BY <1>2, <1>7, <1>17 DEF Programmed, Crc!Low, Bits
  <2>4. data = IF Here = changed.address THEN Crc!Xor(hostCrc, {changed.bit}) ELSE hostCrc
    BY <1>3, <1>7, <2>3 DEF Programmed, data
  <2>5. Spoilt(Here) <=> Spoilt(Here - 1) \/ Here = changed.address
    BY <1>4 DEF Spoilt
  <2>6. ~Spoilt(Here) => data = crc
    BY <2>2, <2>4, <2>5
  <2>7. Spoilt(Here) /\ Width - 1 \in Poly => data # crc
    <3>1. CASE Here = changed.address
      <4>1. ~Spoilt(Here - 1)
        BY <1>4, <3>1 DEF Spoilt
      <4>2. data # hostCrc
        BY <2>4, <3>1 DEF Crc!Xor
      <4>3. QED  BY <2>2, <4>1, <4>2
    <3>2. CASE Here # changed.address
      BY <2>2, <2>4, <2>5, <3>2
    <3>3. QED  BY <3>1, <3>2
  <2>8. Decided'
    <3>1. ~Spoilt(sealedAt) => passedCrc'
      BY <1>1, <1>17, <2>1, <2>6
    <3>2. Spoilt(sealedAt) /\ Width - 1 \in Poly => sealedAt \notin matched'
      BY <1>1, <1>17, <2>2, <2>7
    <3>3. QED  BY <1>1, <1>15, <3>1, <3>2 DEF Decided
  <2>9. ~(Here' <= sealedAt')
    BY <1>1, <1>3, <1>4, <1>17
  <2>10. CrcTrail(trail)'
    BY <1>1, <1>4, <1>12, <2>9 DEF CrcTrail
  <2>11. QED  BY <1>1, <1>4, <1>7, <1>11, <1>13, <2>8, <2>9, <2>10 DEF CrcIInv
(* Behind it, only the other place of a CRC can still be met.               *)
<1>18. CASE Here > sealedAt
  <2>1. Decided
    BY <1>1, <1>18 DEF CrcIInv
  <2>2. (passedCrc => passedCrc') /\ (sealedAt \notin matched => sealedAt \notin matched')
    <3>1. Here # sealedAt
      BY <1>4, <1>18
    <3>2. QED  BY <1>1, <1>2, <3>1
  <2>3. Decided'
    BY <1>1, <1>15, <2>1, <2>2 DEF Decided
  <2>4. ~(Here' <= sealedAt')
    BY <1>1, <1>3, <1>4, <1>18
  <2>5. CrcTrail(trail)'
    BY <1>1, <1>4, <1>12, <2>4 DEF CrcTrail
  <2>6. QED  BY <1>1, <1>4, <1>7, <1>11, <1>13, <2>3, <2>4, <2>5 DEF CrcIInv
<1>19. QED  BY <1>4, <1>16, <1>17, <1>18

(***************************************************************************)
(* The theorems.                                                            *)
(***************************************************************************)

LEMMA CrcStepInv ==
  ASSUME Crc!CrcAssumption, CrcIInv, Crc!Next
  PROVE  CrcIInv'
<1>1. CASE Crc!SealWord
  BY <1>1, CrcSealWord
<1>2. CASE Crc!Seal
  BY <1>2, CrcSeal
<1>3. ASSUME NEW a \in Crc!Address, NEW bit \in 0 .. Width - 1, Crc!Change(a, bit)
      PROVE  CrcIInv'
  BY <1>3, CrcChange
<1>4. CASE Crc!PowerUp
  BY <1>4, CrcPowerUp
<1>5. CASE Crc!CheckWord
  BY <1>5, CrcCheckWord
<1>6. QED  BY <1>1, <1>2, <1>3, <1>4, <1>5 DEF Crc!Next

LEMMA CrcUnchanged ==
  ASSUME CrcIInv, UNCHANGED crcVars
  PROVE  CrcIInv'
<1>1. UNCHANGED <<image, address, hostCrc, flash, hi, lo, crc, passedCrc, pc, sealedAt, changed, matched>>
  BY DEF crcVars
<1>2. PICK trail : CrcTrail(trail)
  BY DEF CrcIInv
<1>3. CrcTrail(trail)'
  BY <1>1, <1>2 DEF CrcTrail, Spoilt, Here
<1>4. QED  BY <1>1, <1>3 DEF CrcIInv, Crc!TypeOK, Programmed, Decided, Spoilt, Here

LEMMA HexUnchanged ==
  ASSUME HexIInv, UNCHANGED hexVars
  PROVE  HexIInv'
BY DEF hexVars, HexIInv, Hex!TypeOK

LEMMA CrcInvariant == Spec => []CrcIInv
<1>1. Init => CrcIInv
  BY CalculationsAssumption, CrcInitInv DEF Init
<1>2. CrcIInv /\ [Next]_vars => CrcIInv'
  BY CalculationsAssumption, CrcStepInv, CrcUnchanged DEF Next, vars
<1>3. QED  BY <1>1, <1>2, PTL DEF Spec

LEMMA HexInvariant ==
  ASSUME 0 \notin Uppers
  PROVE  Spec => []HexIInv
<1>1. Init => HexIInv
  BY CalculationsAssumption, HexInitInv DEF Init
<1>2. HexIInv /\ [Next]_vars => HexIInv'
  BY CalculationsAssumption, HexNextInv, HexUnchanged DEF Next, vars
<1>3. QED  BY <1>1, <1>2, PTL DEF Spec

(* hex_button_cb() and main() agree on the CRC for every image, every       *)
(* width, every polynomial and every number of pages: what was sealed and   *)
(* is as it was starts.                                                     *)
THEOREM SealedAlwaysStarts == Spec => []SealedStarts
<1>1. CrcIInv => SealedStarts
  BY CalculationsAssumption, CrcInvProperties DEF SealedStarts
<1>2. QED  BY <1>1, CrcInvariant, PTL

(* A polynomial with the highest bit, as 0x23B1 has it for fourteen, lets   *)
(* no changed bit through, in whichever word and whatever the others say.   *)
THEOREM OneBitAlwaysNoticed ==
  ASSUME Width - 1 \in Poly
  PROVE  Spec => []OneBitIsNoticed
<1>1. CrcIInv => OneBitIsNoticed
  BY CalculationsAssumption, CrcInvProperties DEF OneBitIsNoticed
<1>2. QED  BY <1>1, CrcInvariant, PTL

(* What hex_button_cb() makes of any file whose extended addresses are not  *)
(* 0 is what the file says of the user's area.                              *)
THEOREM ImageAlwaysTheFile ==
  ASSUME 0 \notin Uppers
  PROVE  Spec => []ImageIsTheFile
<1>1. HexIInv => ImageIsTheFile
  BY CalculationsAssumption, HexInvProperties DEF ImageIsTheFile
<1>2. QED  BY <1>1, HexInvariant, PTL

(* And it never drops data of such a file without asking.                   *)
THEOREM AlwaysAsksOutOfBounds ==
  ASSUME 0 \notin Uppers
  PROVE  Spec => []AsksOutOfBounds
<1>1. HexIInv => AsksOutOfBounds
  BY CalculationsAssumption, HexInvProperties DEF AsksOutOfBounds
<1>2. QED  BY <1>1, HexInvariant, PTL

=============================================================================
