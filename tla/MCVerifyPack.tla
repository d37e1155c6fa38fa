----------------------------- MODULE MCVerifyPack -----------------------------
(***************************************************************************)
(* Small instances of VerifyPack: packs whose chain is any sequence of at  *)
(* most two sample records or three lines, good and bad, with every        *)
(* condition of the other files.                                           *)
(***************************************************************************)
EXTENDS VerifyPack, SampleRecords

CONSTANT t1

ChainPool ==
    {Sign(R1, d1, k1), R1, SignWithFallback(R1, d1), Sign(R2, d1, k1),
     Sign(R2, d2, k2), R2, [R2 EXCEPT !.body = b2],
     Seal(3, b1, R1.id, R1.chain_hash)}

APack(manifest, chain, keys) ==
    [manifest |-> manifest, tenant |-> t1, chain |-> chain, keys |-> keys]

GoodChain == <<Sign(R1, d1, k1), Sign(R2, d2, k2)>>
RotatedBundle == <<Wrapped(k1, "archived", K1, d1), Wrapped(k2, "active", K1, d2)>>

\* Lines that parse, not all as they were meant, and lines that do not.
Without(line, fields) == [f \in DOMAIN line \ fields |-> line[f]]

LinePool ==
    {Without(R1, {"hmac", "key_id"}), R2, Blank, BadLine, TooLong,
     Without(R2, {"previous_id"}), [R1 EXCEPT !.id = Nil], [R1 EXCEPT !.seq = Junk],
     [SealFirst(b2) EXCEPT !.body = Nil]}

LineChains ==
    UNION {[1 .. n -> LinePool] : n \in 1 .. 2} \union
    {<<first, line, R2>> : first \in {R1, BadLine}, line \in LinePool}

SamplePacks ==
    {APack(m, GoodChain, RotatedBundle) : m \in ManifestConditions} \union
    {APack("ok", c, RotatedBundle) : c \in {Absent} \union LineChains} \union
    {APack("ok", c, k) :
        c \in UNION {[1 .. n -> ChainPool] : n \in 0 .. 2},
        k \in {Absent, BadKeys, RotatedBundle} \union RepeatedKeyBundles}
===============================================================================
