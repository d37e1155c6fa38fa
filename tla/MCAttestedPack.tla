---------------------------- MODULE MCAttestedPack ----------------------------
(***************************************************************************)
(* Small instances of AttestedPack.                                        *)
(***************************************************************************)
EXTENDS AttestedPack, SampleRecords

CONSTANT d4

TwoKeys == [k \in {k1, k2} |-> IF k = k1 THEN d1 ELSE d2]

\* Bodies may be exchanged, and the keys together with their key_ids.
BodyOrders == {<<b1, b2>>, <<b2, b1>>}
KeyOrders == {<<k1, k2, d1, d2>>, <<k2, k1, d2, d1>>}
Interchangeable ==
    {(b1 :> p[1] @@ b2 :> p[2] @@ k1 :> q[1] @@ k2 :> q[2] @@ d1 :> q[3] @@ d2 :> q[4]) :
        p \in BodyOrders, q \in KeyOrders}
===============================================================================
