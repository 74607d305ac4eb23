--------------------------------- MODULE Merkle --------------------------------
(***************************************************************************)
(* The Merkle tree over the hashes of an audit trail, and the proofs that   *)
(* an event is in it.  A hash of two hashes is the term that records them. *)
(***************************************************************************)
EXTENDS Naturals, Sequences, SequencesExt

hash_pair(left, right) == <<"pair", left, right>>

\* One layer up; an odd element at the end is paired with itself.
NextLayer(layer) ==
  [i \in 1..((Len(layer) + 1) \div 2) |->
     hash_pair(layer[2 * i - 1], layer[IF 2 * i <= Len(layer) THEN 2 * i ELSE 2 * i - 1])]

\* MerkleTree::build, for at least one leaf
RECURSIVE Layers(_)
Layers(layer) == IF Len(layer) = 1 THEN <<layer>> ELSE <<layer>> \o Layers(NextLayer(layer))

root(layers) == Last(layers)[1]

\* The element of the layer that hangs over leaf index (counted from 0)
Above(index, k) == index \div 2^(k - 1)

SiblingAfter(layer, i) == layer[IF i + 1 < Len(layer) THEN i + 2 ELSE i + 1]
\* The sibling of element i (counted from 0), or itself where it has none
Sibling(layer, i) ==
  LET s == IF i % 2 = 0 THEN i + 1 ELSE i - 1
  IN layer[IF s < Len(layer) THEN s + 1 ELSE i + 1]

proof(layers, index) ==
  [k \in 1..(Len(layers) - 1) |->
     [hash |-> Sibling(layers[k], Above(index, k)),
      position |-> IF Above(index, k) % 2 = 0 THEN "right" ELSE "left"]]

verify_proof(leaf, nodes, top) ==
  top = FoldLeft(LAMBDA h, n : IF n.position = "left" THEN hash_pair(n.hash, h) ELSE hash_pair(h, n.hash),
                 leaf, nodes)
================================================================================
