-------------------------- MODULE ProofBuilderProofs --------------------------
(***************************************************************************)
(* Proofs about ProofBuilder for every block size a Go slice can have.     *)
(*                                                                         *)
(* The argument: rlp.EncodeToBytes is injective on indexes (RlpInjective),*)
(* so the loop of receiptsTrie never updates a key twice, and the trie it  *)
(* has built after i iterations maps the key of every j < i to receipt j   *)
(* (TrieInv).                                                              *)
(***************************************************************************)
EXTENDS ProofBuilder, TLAPS

USE ProofBuilderAssumption

\* The indexes of seven bytes or fewer: 0 .. 256^7 - 1.  The provers'
\* integer encoding breaks on terms of the size of 256^8, so the proofs
\* stop at seven bytes, 2^56 receipts, a bound no block comes near.
Index == {n \in Nat : n < Weight[7]}

-----------------------------------------------------------------------------
(* The weights and bytes of an index                                        *)

\* The table of weights up to 256^7, evaluated.
LEMMA WeightValues ==
    /\ Weight[0] = 1 /\ Weight[1] = 256 /\ Weight[2] = 65536
    /\ Weight[3] = 16777216 /\ Weight[4] = 4294967296
    /\ Weight[5] = 1099511627776 /\ Weight[6] = 281474976710656
    /\ Weight[7] = 72057594037927936
<1>1. Weight[0] = 1 BY DEF Weight
<1>2. Weight[1] = 256 BY DEF Weight
<1>3. Weight[2] = 65536 BY DEF Weight
<1>4. Weight[3] = 16777216 BY DEF Weight
<1>5. Weight[4] = 4294967296 BY DEF Weight
<1>6. Weight[5] = 1099511627776 BY DEF Weight
<1>7. Weight[6] = 281474976710656 BY DEF Weight
<1>8. Weight[7] = 72057594037927936 BY DEF Weight
<1>9. QED BY <1>1, <1>2, <1>3, <1>4, <1>5, <1>6, <1>7, <1>8

LEMMA ByteIndex ==
    ASSUME NEW j \in 0..7
    PROVE  j = 0 \/ j = 1 \/ j = 2 \/ j = 3 \/ j = 4 \/ j = 5 \/ j = 6 \/ j = 7
OBVIOUS

LEMMA WeightType == \A j \in 0..7 : Weight[j] \in Nat \ {0}
BY WeightValues, ByteIndex

LEMMA WeightMonotone ==
    ASSUME NEW l \in 0..7, NEW m \in 0..7, l <= m
    PROVE  Weight[l] <= Weight[m]
BY WeightValues, ByteIndex

\* Dividing by 256^j is dividing by 256^(j+1) and reading byte j.
LEMMA Split ==
    ASSUME NEW a \in Nat, NEW j \in 0..6
    PROVE  a \div Weight[j] = 256 * (a \div Weight[j + 1]) + Byte(a, j)
<1>1. CASE j = 0
    <2>1. Weight[j] = 1 /\ Weight[j + 1] = 256
        BY <1>1, WeightValues
    <2>2. a \div 1 = 256 * (a \div 256) + ((a \div 1) % 256)
        OBVIOUS
    <2>3. QED BY <2>1, <2>2 DEF Byte
<1>2. CASE j = 1
    <2>1. Weight[j] = 256 /\ Weight[j + 1] = 65536
        BY <1>2, WeightValues
    <2>2. a \div 256 = 256 * (a \div 65536) + ((a \div 256) % 256)
        OBVIOUS
    <2>3. QED BY <2>1, <2>2 DEF Byte
<1>3. CASE j = 2
    <2>1. Weight[j] = 65536 /\ Weight[j + 1] = 16777216
        BY <1>3, WeightValues
    <2>2. a \div 65536 = 256 * (a \div 16777216) + ((a \div 65536) % 256)
        OBVIOUS
    <2>3. QED BY <2>1, <2>2 DEF Byte
<1>4. CASE j = 3
    <2>1. Weight[j] = 16777216 /\ Weight[j + 1] = 4294967296
        BY <1>4, WeightValues
    <2>2. a \div 16777216 = 256 * (a \div 4294967296) + ((a \div 16777216) % 256)
        OBVIOUS
    <2>3. QED BY <2>1, <2>2 DEF Byte
<1>5. CASE j = 4
    <2>1. Weight[j] = 4294967296 /\ Weight[j + 1] = 1099511627776
        BY <1>5, WeightValues
    <2>2. a \div 4294967296 = 256 * (a \div 1099511627776) + ((a \div 4294967296) % 256)
        OBVIOUS
    <2>3. QED BY <2>1, <2>2 DEF Byte
<1>6. CASE j = 5
    <2>1. Weight[j] = 1099511627776 /\ Weight[j + 1] = 281474976710656
        BY <1>6, WeightValues
    <2>2. a \div 1099511627776 = 256 * (a \div 281474976710656) + ((a \div 1099511627776) % 256)
        OBVIOUS
    <2>3. QED BY <2>1, <2>2 DEF Byte
<1>7. CASE j = 6
    <2>1. Weight[j] = 281474976710656 /\ Weight[j + 1] = 72057594037927936
        BY <1>7, WeightValues
    <2>2. a \div 281474976710656 = 256 * (a \div 72057594037927936) + ((a \div 281474976710656) % 256)
        OBVIOUS
    <2>3. QED BY <2>1, <2>2 DEF Byte
<1>8. QED BY <1>1, <1>2, <1>3, <1>4, <1>5, <1>6, <1>7

\* Two indexes with the same seven low bytes are equal.
LEMMA BytesDetermine ==
    ASSUME NEW a \in Index, NEW b \in Index,
           \A j \in 0..6 : Byte(a, j) = Byte(b, j)
    PROVE  a = b
<1> DEFINE q(x, j) == x \div Weight[j]
<1>0. a \in Nat /\ b \in Nat
    BY WeightValues DEF Index
<1>7. q(a, 7) = 0 /\ q(b, 7) = 0
    BY WeightValues DEF Index
<1>6. q(a, 6) = q(b, 6)  BY <1>0, <1>7, Split
<1>5. q(a, 5) = q(b, 5)  BY <1>0, <1>6, Split
<1>4. q(a, 4) = q(b, 4)  BY <1>0, <1>5, Split
<1>3. q(a, 3) = q(b, 3)  BY <1>0, <1>4, Split
<1>2. q(a, 2) = q(b, 2)  BY <1>0, <1>3, Split
<1>1. q(a, 1) = q(b, 1)  BY <1>0, <1>2, Split
<1>8. q(a, 0) = q(b, 0)  BY <1>0, <1>1, Split
<1>9. QED BY <1>0, <1>8, WeightValues

\* A byte above the significant ones is zero.
LEMMA HighByteZero ==
    ASSUME NEW n \in Nat, NEW l \in 0..7, n < Weight[l], NEW m \in l..6
    PROVE  Byte(n, m) = 0
<1>1. Weight[l] <= Weight[m]
    BY WeightMonotone
<1>2. n < Weight[m] /\ Weight[m] \in Nat \ {0}
    BY <1>1, WeightType
<1>3. n \div Weight[m] = 0
    BY <1>2
<1>4. QED BY <1>3 DEF Byte

\* ByteLen(n) is the number of significant bytes of an index.
LEMMA ByteLenSpec ==
    ASSUME NEW n \in Index
    PROVE  /\ ByteLen(n) \in 0..7
           /\ n < Weight[ByteLen(n)]
           /\ n > 0 => ByteLen(n) > 0
<1>0. n \in Nat /\ n < Weight[7]
    BY WeightValues DEF Index
<1>1. \E l \in 0..8 : n < Weight[l] /\ (l = 0 \/ Weight[l - 1] <= n)
    <2>1. CASE n < Weight[0] BY <2>1
    <2>2. CASE Weight[0] <= n /\ n < Weight[1] BY <2>2
    <2>3. CASE Weight[1] <= n /\ n < Weight[2] BY <2>3
    <2>4. CASE Weight[2] <= n /\ n < Weight[3] BY <2>4
    <2>5. CASE Weight[3] <= n /\ n < Weight[4] BY <2>5
    <2>6. CASE Weight[4] <= n /\ n < Weight[5] BY <2>6
    <2>7. CASE Weight[5] <= n /\ n < Weight[6] BY <2>7
    <2>8. CASE Weight[6] <= n /\ n < Weight[7] BY <2>8
    <2>9. QED BY <1>0, <2>1, <2>2, <2>3, <2>4, <2>5, <2>6, <2>7, <2>8,
          WeightValues
<1>2. /\ ByteLen(n) \in 0..8
      /\ n < Weight[ByteLen(n)]
      /\ (ByteLen(n) = 0 \/ Weight[ByteLen(n) - 1] <= n)
    BY <1>1 DEF ByteLen
<1>3. ByteLen(n) # 8
    <2> SUFFICES ASSUME ByteLen(n) = 8 PROVE FALSE
        OBVIOUS
    <2>1. Weight[7] <= n
        BY <1>2
    <2>2. QED BY <1>0, <2>1, WeightValues
<1>4. ByteLen(n) = 0 => n = 0
    <2> SUFFICES ASSUME ByteLen(n) = 0 PROVE n = 0
        OBVIOUS
    <2>1. n < Weight[0]
        BY <1>2
    <2>2. QED BY <1>0, <2>1, WeightValues
<1>5. QED BY <1>2, <1>3, <1>4

\* The RLP encoding of an index of 128 or more is the length prefix
\* followed by the significant bytes, most significant first.
LEMMA RlpShape ==
    ASSUME NEW n \in Index, n >= 128
    PROVE  /\ RlpUint(n) \in Seq(Nat)
           /\ Len(RlpUint(n)) = 1 + ByteLen(n)
           /\ RlpUint(n)[1] = 128 + ByteLen(n)
           /\ \A j \in 1..ByteLen(n) : RlpUint(n)[1 + j] = Byte(n, ByteLen(n) - j)
           /\ ByteLen(n) \in 1..7
<1>1. ByteLen(n) \in 1..7
    BY ByteLenSpec, WeightValues DEF Index
<1>2. BigEndian(n) \in Seq(Nat) /\ Len(BigEndian(n)) = ByteLen(n)
    <2>1. \A j \in 1..ByteLen(n) : Byte(n, ByteLen(n) - j) \in Nat
        BY <1>1, WeightType DEF Byte, Index
    <2> DEFINE L == ByteLen(n)
    <2>2. BigEndian(n) = [j \in 1..L |-> Byte(n, L - j)]
        BY DEF BigEndian
    <2>3. [j \in 1..L |-> Byte(n, L - j)] \in Seq(Nat)
          /\ Len([j \in 1..L |-> Byte(n, L - j)]) = L
        BY <1>1, <2>1, SMTT(30)
    <2>4. QED BY <2>2, <2>3
<1>3. RlpUint(n) = <<128 + ByteLen(n)>> \o BigEndian(n)
    <2>1. n # 0 /\ ~(n < 128)
        BY DEF Index
    <2>2. RlpUint(n) = <<128 + Len(BigEndian(n))>> \o BigEndian(n)
        BY <2>1 DEF RlpUint
    <2>3. QED BY <1>2, <2>2
<1>4. QED BY <1>1, <1>2, <1>3 DEF BigEndian

\* rlp.EncodeToBytes is injective on indexes: no two indexes of a block
\* share a key.
LEMMA RlpInjective ==
    ASSUME NEW a \in Index, NEW b \in Index, RlpUint(a) = RlpUint(b)
    PROVE  a = b
<1>0. a \in Nat /\ b \in Nat
    BY WeightValues DEF Index
<1>1. CASE a < 128 /\ b < 128
    BY <1>0, <1>1 DEF RlpUint
<1>2. CASE a < 128 /\ b >= 128
    <2>1. Len(RlpUint(a)) = 1
        BY <1>2 DEF RlpUint
    <2>2. Len(RlpUint(b)) >= 2
        BY <1>2, RlpShape
    <2>3. QED BY <2>1, <2>2
<1>3. CASE a >= 128 /\ b < 128
    <2>1. Len(RlpUint(b)) = 1
        BY <1>3 DEF RlpUint
    <2>2. Len(RlpUint(a)) >= 2
        BY <1>3, RlpShape
    <2>3. QED BY <2>1, <2>2
<1>4. CASE a >= 128 /\ b >= 128
    <2>0. /\ RlpUint(a)[1] = 128 + ByteLen(a) /\ ByteLen(a) \in 1..7
          /\ RlpUint(b)[1] = 128 + ByteLen(b) /\ ByteLen(b) \in 1..7
        BY <1>4, RlpShape
    <2>1. ByteLen(a) = ByteLen(b)
        BY <2>0
    <2> DEFINE L == ByteLen(a)
    <2>2. L \in 1..7 /\ a < Weight[L] /\ b < Weight[L]
        BY <1>4, <2>1, RlpShape, ByteLenSpec
    <2>3. \A j \in 0..6 : Byte(a, j) = Byte(b, j)
        <3> SUFFICES ASSUME NEW j \in 0..6 PROVE Byte(a, j) = Byte(b, j)
            OBVIOUS
        <3>1. CASE j < L
            <4>1. L - j \in 1..L
                BY <2>2, <3>1
            <4>2. /\ RlpUint(a)[1 + (L - j)] = Byte(a, L - (L - j))
                  /\ RlpUint(b)[1 + (L - j)] = Byte(b, ByteLen(b) - (L - j))
                BY <1>4, <2>1, <4>1, RlpShape
            <4>3. L - (L - j) = j /\ ByteLen(b) - (L - j) = j
                BY <2>1, <2>2
            <4>4. QED BY <4>2, <4>3
        <3>2. CASE j >= L
            BY <1>0, <2>2, <3>2, HighByteZero
        <3>3. QED BY <3>1, <3>2, <2>2
    <2>4. QED BY <2>3, BytesDetermine
<1>5. QED BY <1>0, <1>1, <1>2, <1>3, <1>4

-----------------------------------------------------------------------------
(* The trie of receiptsTrie                                                 *)

\* After i iterations the trie holds exactly the keys of 0 .. i - 1, each
\* bound to its own receipt.
TrieInv ==
    /\ pc \in {"update", "done", "err"}
    /\ i \in 0..NumReceipts
    /\ pc = "done" => i = NumReceipts
    /\ DOMAIN tr = {RlpUint(j) : j \in 0..(i - 1)}
    /\ \A j \in 0..(i - 1) : tr[RlpUint(j)] = j

LEMMA TrieInit == Init => TrieInv
BY DEF Init, TrieInv

LEMMA TrieStep ==
    ASSUME NumReceipts <= Weight[7], TrieInv, [Next]_vars
    PROVE  TrieInv'
<1>1. CASE Update
    <2>1. /\ pc = "update" /\ i \in 0..(NumReceipts - 1)
          /\ i' = i + 1 /\ pc' = pc
          /\ tr' = TrieUpdate(tr, RlpUint(i), i)
        BY <1>1 DEF Update, TrieInv, Receipts
    <2>2. \A j \in 0..i : j \in Index
        BY <2>1, WeightValues DEF Index
    <2>3. DOMAIN tr' = {RlpUint(j) : j \in 0..i}
        BY <2>1 DEF TrieInv, TrieUpdate
    <2>4. ASSUME NEW j \in 0..(i - 1) PROVE RlpUint(j) # RlpUint(i)
        <3> SUFFICES ASSUME RlpUint(j) = RlpUint(i) PROVE FALSE
            OBVIOUS
        <3>1. j \in Index /\ i \in Index
            BY <2>1, <2>2
        <3>2. j = i
            BY <3>1, RlpInjective
        <3>3. QED BY <2>1, <3>2
    <2>5. \A j \in 0..i : tr'[RlpUint(j)] = j
        <3> SUFFICES ASSUME NEW j \in 0..i PROVE tr'[RlpUint(j)] = j
            OBVIOUS
        <3>1. CASE j = i
            BY <2>1, <3>1 DEF TrieUpdate
        <3>2. CASE j # i
            <4>1. j \in 0..(i - 1) /\ RlpUint(j) # RlpUint(i)
                BY <2>1, <2>4, <3>2
            <4>2. RlpUint(j) \in DOMAIN tr /\ tr[RlpUint(j)] = j
                BY <4>1 DEF TrieInv
            <4>3. QED BY <2>1, <4>1, <4>2 DEF TrieUpdate
        <3>3. QED BY <3>1, <3>2
    <2>6. QED BY <2>1, <2>3, <2>5 DEF TrieInv
<1>2. CASE EncodeFail
    BY <1>2 DEF EncodeFail, TrieInv
<1>3. CASE Commit
    BY <1>3 DEF Commit, TrieInv
<1>4. CASE Terminated \/ UNCHANGED vars
    BY <1>4 DEF Terminated, vars, TrieInv
<1>5. QED BY <1>1, <1>2, <1>3, <1>4 DEF Next

\* For every block of fewer than 2^56 receipts, the trie receiptsTrie
\* commits proves every receipt at the key of its own index: the loop of
\* utils.go:70-84 never overwrites one receipt with another.
THEOREM ProvableAtIndexInvariant ==
    ASSUME NumReceipts <= Weight[7]
    PROVE  Spec => []ProvableAtIndex
<1>1. TrieInv => ProvableAtIndex
    BY DEF TrieInv, ProvableAtIndex, ReceiptProof, Receipts
<1>2. QED BY <1>1, TrieInit, TrieStep, PTL DEF Spec

====
