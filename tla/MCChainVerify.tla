---------------------------- MODULE MCChainVerify ----------------------------
(***************************************************************************)
(* Small instances of ChainVerify: every sequence, up to a length, over a  *)
(* pool of sample records.                                                 *)
(***************************************************************************)
EXTENDS ChainVerify, SampleRecords

CONSTANT MaxLength

UpTo(n, S) == UNION {[1 .. m -> S] : m \in 0 .. n}

StructureChains == UpTo(MaxLength, StructurePool)
KeyChains == UpTo(MaxLength, KeyPool)
AllChains == StructureChains \union KeyChains
=============================================================================
