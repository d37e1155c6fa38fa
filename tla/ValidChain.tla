------------------------------ MODULE ValidChain ------------------------------
(***************************************************************************)
(* What a valid chain is, said about the records alone: no carried values, *)
(* no cache, no order of checking.  ChainVerify is compared with these     *)
(* definitions; they follow the comment of Verify (chain.go:131-142) and   *)
(* the resolver it is given.                                               *)
(***************************************************************************)
EXTENDS WorkspaceKeys

\* The record before record i; before the first there is only GENESIS.
Predecessor(records, i) ==
    IF i = 1 THEN [seq |-> 0, id |-> Nil, chain_hash |-> Genesis]
             ELSE records[i - 1]

\* Record i follows the record before it.
Follows(records, i) ==
    /\ records[i].seq = Successor(Predecessor(records, i).seq)
    /\ DerefOrNull(records[i].previous_id) = DerefOrNull(Predecessor(records, i).id)
    /\ records[i].previous_chain_hash = Predecessor(records, i).chain_hash

\* A record's id and chain_hash are the digests of its own content.
SelfConsistent(r) ==
    /\ r.id = IdOf(CanonicalPayload(r))
    /\ r.chain_hash = ChainHashOf(r.previous_chain_hash, r.id)

Sound(records, i) == Follows(records, i) /\ SelfConsistent(records[i])

\* A record's hmac was made with the DEK that its key_id names in the bundle.
Signed(r, bundle, kek) ==
    /\ r.hmac # Nil /\ r.key_id # Nil
    /\ Usable(bundle, kek, r.key_id)
    /\ r.hmac = MacOf(FirstRecord(bundle, r.key_id).envelope.dek, r.id, r.chain_hash)

\* Record i has its place in an accepted chain.
Acceptable(records, i, bundle, kek, strict) ==
    /\ Sound(records, i)
    /\ IF records[i].hmac = Nil THEN ~strict ELSE Signed(records[i], bundle, kek)

\* The length of a Go slice is an int.
IsChain(c) == c \in Seq(Record) /\ Len(c) <= MaxInt
===============================================================================
