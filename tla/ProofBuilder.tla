---------------------------- MODULE ProofBuilder ----------------------------
(***************************************************************************)
(* receiptsTrie and receiptProof of src/cmd/btpsimple/module/hmny/utils.go.*)
(*                                                                         *)
(* receiptsTrie inserts receipt i of a block under the key                 *)
(* rlp.EncodeToBytes(uint64(i)) and commits; receiptProof proves a key of  *)
(* the committed trie. The Merkle-Patricia trie is modelled by what it     *)
(* stores, a map from byte strings to values, and a proof by the value it  *)
(* proves for its key (or absence). The RLP encoding of an unsigned        *)
(* integer is modelled byte by byte, since it decides which keys collide.  *)
(* The pooled memorydb under the trie's node database is not modelled: no  *)
(* property here depends on where committed nodes are cached.              *)
(***************************************************************************)
EXTENDS Naturals, Sequences

CONSTANTS
    NumReceipts,    \* receipts in the block
    Absent          \* what a proof of a key not in the trie proves

ASSUME ProofBuilderAssumption ==
    /\ NumReceipts \in Nat
    /\ Absent \notin Nat

\* Receipt i, abstracted to its position in the block.
Receipts == [i \in 0..(NumReceipts - 1) |-> i]

\* 256^j for j \in 0..8, the weights of the bytes of a uint64, written as
\* products: TLC only computes the entries it uses.
Weight == [j \in 0..8 |->
            CASE j = 0 -> 1
              [] j = 1 -> 256
              [] j = 2 -> 256 * 256
              [] j = 3 -> 256 * 256 * 256
              [] j = 4 -> 256 * 256 * 256 * 256
              [] j = 5 -> 256 * 256 * 256 * 256 * 256
              [] j = 6 -> 256 * 256 * 256 * 256 * 256 * 256
              [] j = 7 -> 256 * 256 * 256 * 256 * 256 * 256 * 256
              [] j = 8 -> 256 * 256 * 256 * 256 * 256 * 256 * 256 * 256]

\* Byte j of n, counting from the least significant one.
Byte(n, j) == (n \div Weight[j]) % 256

\* The number of bytes of n without leading zeros.
ByteLen(n) == CHOOSE l \in 0..8 : n < Weight[l] /\ (l = 0 \/ Weight[l - 1] <= n)

\* Big-endian bytes of n without leading zeros.
BigEndian(n) == [j \in 1..ByteLen(n) |-> Byte(n, ByteLen(n) - j)]

\* rlp.EncodeToBytes of a uint64: 0x80 for zero, the byte itself below
\* 0x80, else a length prefix 0x80 + len followed by the big-endian bytes.
RlpUint(n) ==
    IF n = 0 THEN <<128>>
    ELSE IF n < 128 THEN <<n>>
    ELSE <<128 + Len(BigEndian(n))>> \o BigEndian(n)

VARIABLES
    pc,     \* "update", "commit", "done" or "err"
    i,      \* index of the next receipt the loop inserts
    tr      \* the trie: key -> receipt

vars == <<pc, i, tr>>

\* receiptProof(receiptTrie, key): the value the proof proves for key.
ReceiptProof(t, key) == IF key \in DOMAIN t THEN t[key] ELSE Absent

\* tr.Update(key, value): bind key to value, replacing any earlier value.
TrieUpdate(t, key, value) ==
    [x \in DOMAIN t \cup {key} |-> IF x = key THEN value ELSE t[x]]

\* trie.New over an empty root: the empty trie.
Init ==
    /\ pc = "update"
    /\ i = 0
    /\ tr = <<>>

\* The loop keyed by the low byte of the index instead of the uint64.
UpdateLowByte ==
    /\ pc = "update" /\ i < NumReceipts
    /\ tr' = TrieUpdate(tr, RlpUint(i % 256), Receipts[i])
    /\ i' = i + 1
    /\ UNCHANGED pc

\* One iteration of the loop: tr.Update(rlp(uint64(i)), rlp(receipt)).
Update ==
    /\ pc = "update" /\ i < NumReceipts
    /\ tr' = TrieUpdate(tr, RlpUint(i), Receipts[i])
    /\ i' = i + 1
    /\ UNCHANGED pc

\* rlp.EncodeToBytes fails for the path or the receipt: return nil, err.
EncodeFail ==
    /\ pc = "update" /\ i < NumReceipts
    /\ pc' = "err"
    /\ UNCHANGED <<i, tr>>

\* The loop is over: commit.
Commit ==
    /\ pc = "update" /\ i = NumReceipts
    /\ pc' \in {"done", "err"}
    /\ UNCHANGED <<i, tr>>

Terminated ==
    /\ pc \in {"done", "err"}
    /\ UNCHANGED vars

Next == Update \/ EncodeFail \/ Commit \/ Terminated

Spec == Init /\ [][Next]_vars

\* Every receipt of a block whose trie was built is proved at its own
\* index: no two indexes share a key, so no Update overwrote another.
ProvableAtIndex ==
    pc = "done" =>
        \A j \in 0..(NumReceipts - 1) : ReceiptProof(tr, RlpUint(j)) = Receipts[j]

=============================================================================
