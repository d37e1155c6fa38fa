------------------------------ MODULE MCSelfTest ------------------------------
(***************************************************************************)
(* The self-test as it is; TLC needs to know which texts may come up.      *)
(***************************************************************************)
EXTENDS SelfTest

Lowest == -4

Drawn == BuildChain(<<OldKey, OldKey, NewKey, NewKey>>) \o BuildChain(<<Nil, Nil, Nil>>)
             \o BuildChain(OneKey)

RecordTexts ==
    {Genesis, NullText, TamperedText} \union
    {Drawn[n].id : n \in DOMAIN Drawn} \union
    {Drawn[n].chain_hash : n \in DOMAIN Drawn} \union
    {Drawn[n].hmac : n \in {m \in DOMAIN Drawn : Drawn[m].hmac # Nil}}
===============================================================================
