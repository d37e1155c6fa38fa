---------------------------- MODULE SampleRecords ----------------------------
(***************************************************************************)
(* Records and key bundles for the small instances: the records of a chain *)
(* the daemon wrote, and variants in which one thing is wrong.             *)
(***************************************************************************)
EXTENDS ChainWriter

CONSTANTS b1, b2, k1, k2, k3, K1, K2, d1, d2, d3, Junk

Lowest == -4

R1 == SealFirst(b1)
R2 == SealAfter(R1, b1)
R3 == SealAfter(R2, b1)

\* Signed records, and records with one structural fault.
StructurePool ==
    {Sign(R1, d1, k1), R2, Sign(R2, d1, k1), Sign(R3, d1, k1),
     Seal(1, b1, NullText, Genesis),            \* previous_id "null"
     [R2 EXCEPT !.body = b2],                   \* payload altered
     SealAfter(R1, b2),                         \* ... and id, chain_hash redone
     [R2 EXCEPT !.chain_hash = Junk],           \* chain_hash altered
     Seal(2, b1, R1.id, Junk),                  \* link to another chain_hash
     Seal(2, b1, Junk, R1.chain_hash),          \* link to another id
     Seal(3, b1, R1.id, R1.chain_hash),         \* a number skipped
     Seal(MaxInt, b1, Nil, Genesis),            \* the last number of all
     SealAfter([R3 EXCEPT !.seq = MinInt - 1], b1)}  \* the number after it

\* Intact records with every outcome of the HMAC check.
KeyPool ==
    {Sign(R1, d1, k1), R1, SignWithFallback(R1, d1),
     Sign(R1, d2, k1), Sign(R2, d1, k1), Sign(R2, d2, k2), Sign(R2, d3, k3),
     [R2 EXCEPT !.key_id = k1], [R2 EXCEPT !.hmac = Junk, !.key_id = k1],
     Sign(R3, d1, k1), Sign(R3, d2, k2)}

Atoms == {Genesis, NullText, Junk}

\* The ids and chain hashes of chains of up to n records, and the MACs on them.
\* TLC tests membership in these sets without listing them.
Digests[n \in 0 .. 6] ==
    IF n = 0 THEN [ids |-> Atoms, hashes |-> Atoms]
    ELSE LET Before == Digests[n - 1]
             Payloads == [seq : Numbers, body : Bodies,
                          previous_id : Before.ids \union {Nil},
                          previous_chain_hash : Before.hashes]
             Ids == Atoms \union ({"id"} \X Payloads)
         IN  [ids |-> Ids, hashes |-> Atoms \union ({"chain"} \X Before.hashes \X Ids)]
AllTexts ==
    LET D == Digests[6]
    IN  D.ids \union D.hashes \union ({"mac"} \X Deks \X D.ids \X D.hashes)

Spoilt(keyId, state) ==
    [key_id |-> keyId, key_state |-> state, envelope |-> Corrupt]

\* No bundle, an empty one, a rotated one, one with an envelope spoilt, one
\* wrapped under two KEKs.
UniqueBundles ==
    {Nil, <<>>,
     <<Wrapped(k1, "archived", K1, d1), Wrapped(k2, "active", K1, d2)>>,
     <<Spoilt(k1, "revoked"), Wrapped(k2, "active", K1, d2)>>,
     <<Wrapped(k2, "rotating", K2, d2), Wrapped(k1, "active", K1, d1)>>}

\* One key_id on two records: ParseBundle lets it through.
RepeatedKeyBundles ==
    {<<Wrapped(k1, "revoked", K1, d1), Wrapped(k1, "active", K1, d1)>>,
     <<Wrapped(k1, "archived", K1, d1), Wrapped(k1, "active", K1, d2)>>,
     <<Spoilt(k1, "revoked"), Wrapped(k1, "active", K1, d1)>>}

AllBundles == UniqueBundles \union RepeatedKeyBundles
=============================================================================
