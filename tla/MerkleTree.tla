----------------------------- MODULE MerkleTree -----------------------------
(***************************************************************************)
(* The Merkle tree the veNEAR contract keeps its accounts in, and the      *)
(* proofs the voting contract checks against its snapshots.                *)
(*                                                                         *)
(* Hashes are abstract and injective: the zero hash is the empty tuple, a  *)
(* leaf's hash the tuple of its value, a node's the pair below it.  Only   *)
(* the path of the leaf that changed is rehashed, as in the code, so the   *)
(* stored hashes may be compared with a tree hashed from scratch.          *)
(***************************************************************************)
EXTENDS Integers, Sequences, SequencesExt, FiniteSetsExt

CONSTANTS
    Keys,        \* account ids
    Values,      \* account values
    Globals,     \* global states
    MaxHeight    \* bound on the block height

ASSUME MerkleAssumption ==
    Keys # {} /\ Values # {} /\ Globals # {} /\ MaxHeight \in Nat

VARIABLES
    root,
    data,              \* the value of each leaf; leaf i of the code is data[i + 1]
    hashes,            \* hashes of nodes <<height, index>>, sparse
    accounts,          \* index of each account
    global_state,
    previous_snapshot,
    last_block_height,
    block_height,      \* env::block_height()
    ended              \* history: data and global state when the last block ended

vars == <<root, data, hashes, accounts, global_state, previous_snapshot,
          last_block_height, block_height, ended>>

-----------------------------------------------------------------------------
length == Len(data)

ZeroHash == <<>>

internal_hash_value(d, i) == IF i < Len(d) THEN <<d[i + 1]>> ELSE ZeroHash

\* Fault: one level short at the powers of two.
tree_height_Short(n) ==
    IF n = 0 THEN 0 ELSE 1 + Min({k \in 0..n : 2^(k + 1) > n})

\* 33 less the leading zeros of the last index: levels of the tree, leaves included.
tree_height(n) == IF n = 0 THEN 0 ELSE 1 + Min({k \in 0..n : 2^k >= n})

internal_get_hash(hs, h, i) ==
    IF <<h, i>> \in DOMAIN hs THEN hs[<<h, i>>] ELSE ZeroHash

internal_set_hash(hs, h, i, x) ==
    [n \in DOMAIN hs \cup {<<h, i>>} |-> IF n = <<h, i>> THEN x ELSE hs[n]]

Rehash(hs, h, i) ==
    internal_set_hash(hs, h, i,
        <<internal_get_hash(hs, h - 1, 2 * i), internal_get_hash(hs, h - 1, 2 * i + 1)>>)

\* The path of leaf i, from the leaf up.
internal_post_update(hs, d, i) ==
    FoldLeft(LAMBDA acc, h : Rehash(acc, h, i \div 2^h),
             internal_set_hash(hs, 0, i, internal_hash_value(d, i)),
             [k \in 1..(tree_height(Len(d)) - 1) |-> k])

Snapshot == [root |-> root, length |-> length,
             block_height |-> last_block_height, global |-> global_state]

NoSnapshot == [root |-> ZeroHash, length |-> 0, block_height |-> 0,
               global |-> CHOOSE g \in Globals : TRUE]

\* Fault: every change of the tree takes a snapshot, within a block as well.
internal_pre_update_Always ==
    /\ previous_snapshot' = Snapshot
    /\ last_block_height' = block_height

internal_pre_update ==
    /\ previous_snapshot' = IF last_block_height # block_height
                            THEN Snapshot ELSE previous_snapshot
    /\ last_block_height' = block_height

get_snapshot ==
    IF last_block_height # block_height THEN Snapshot ELSE previous_snapshot

-----------------------------------------------------------------------------
set_global_state(g) ==
    /\ internal_pre_update
    /\ global_state' = g
    /\ UNCHANGED <<root, data, hashes, accounts, block_height, ended>>

set(k, v) ==
    LET index == IF k \in DOMAIN accounts THEN accounts[k] ELSE length
        d     == IF k \in DOMAIN accounts THEN [data EXCEPT ![index + 1] = v]
                 ELSE Append(data, v)
        hs    == internal_post_update(hashes, d, index)
    IN  /\ internal_pre_update
        /\ data' = d
        /\ accounts' = [x \in DOMAIN accounts \cup {k} |->
                          IF x = k THEN index ELSE accounts[x]]
        /\ hashes' = hs
        /\ root' = internal_get_hash(hs, tree_height(Len(d)) - 1, 0)
        /\ UNCHANGED <<global_state, block_height, ended>>

NextBlock ==
    /\ block_height < MaxHeight
    /\ block_height' = block_height + 1
    /\ ended' = [data |-> data, global |-> global_state]
    /\ UNCHANGED <<root, data, hashes, accounts, global_state,
                   previous_snapshot, last_block_height>>

\* get_proof: the siblings on the path of a leaf, in the present tree.
get_proof(k) ==
    [index |-> accounts[k],
     path |-> [h \in 1..(tree_height(length) - 1) |->
                 LET i == accounts[k] \div 2^(h - 1)
                 IN  internal_get_hash(hashes, h - 1, IF i % 2 = 0 THEN i + 1 ELSE i - 1)]]

is_valid(proof, r, n, value) ==
    /\ proof.index < n
    /\ Len(proof.path) + 1 = tree_height(n)
    /\ r = FoldLeft(LAMBDA hash, h :
                      IF (proof.index \div 2^(h - 1)) % 2 = 0
                      THEN <<hash, proof.path[h]>> ELSE <<proof.path[h], hash>>,
                    <<value>>, [h \in 1..Len(proof.path) |-> h])

Init ==
    /\ root = ZeroHash
    /\ data = <<>>
    /\ hashes = [n \in {} |-> ZeroHash]
    /\ accounts = [k \in {} |-> 0]
    /\ global_state \in Globals
    /\ previous_snapshot = NoSnapshot
    /\ last_block_height = 1
    /\ block_height = 1
    /\ ended = [data |-> <<>>, global |-> NoSnapshot.global]

Next ==
    \/ \E k \in Keys, v \in Values : set(k, v)
    \/ \E g \in Globals : set_global_state(g)
    \/ NextBlock

Spec == Init /\ [][Next]_vars

-----------------------------------------------------------------------------
(* Properties. *)

\* A tree hashed from scratch: node i at height h covers the leaves from
\* i * 2^h on; it is zero when there is none of them.
TreeHash(d) ==
    LET top == tree_height(Len(d)) - 1
        node[h \in 0..top, i \in 0..Len(d)] ==
            IF i * 2^h >= Len(d) THEN ZeroHash
            ELSE IF h = 0 THEN <<d[i + 1]>>
            ELSE <<node[h - 1, 2 * i],
                   IF (2 * i + 1) * 2^(h - 1) >= Len(d) THEN ZeroHash
                   ELSE node[h - 1, 2 * i + 1]>>
    IN  IF d = <<>> THEN ZeroHash ELSE node[top, 0]

\* A proof taken now is accepted for the value of its account and for no other
\* value, at every size of the tree (get_proof and MerkleProof::is_valid).
ProofsAreExact ==
    \A k \in DOMAIN accounts, v \in Values :
        is_valid(get_proof(k), root, length, v) <=> v = data[accounts[k] + 1]

\* From its second block on the snapshot is the tree and the global state as
\* they were when the block before the present one ended, whatever was changed
\* in the present block and in which order (internal_pre_update).
SnapshotIsLastBlock ==
    block_height > 1 =>
        /\ get_snapshot.root = TreeHash(ended.data)
        /\ get_snapshot.length = Len(ended.data)
        /\ get_snapshot.global = ended.global
        /\ get_snapshot.block_height < block_height
=============================================================================
