------------------------------ MODULE ChainWriter ------------------------------
(***************************************************************************)
(* How a chain is written: BuildChain and BundleFromDEKs of                *)
(* internal/fixturegen/fixturegen.go, which append records and export keys *)
(* as the daemon does.                                                     *)
(***************************************************************************)
EXTENDS ValidChain

\* A record as it is sealed: id and chain_hash are computed from the rest.
Seal(seq, body, prevID, prevChainHash) ==
    LET payload == [seq |-> seq, body |-> body, previous_id |-> prevID,
                    previous_chain_hash |-> prevChainHash]
        id == IdOf(payload)
    IN  [seq                 |-> seq,
         body                |-> body,
         previous_id         |-> prevID,
         previous_chain_hash |-> prevChainHash,
         id                  |-> id,
         chain_hash          |-> ChainHashOf(prevChainHash, id),
         hmac                |-> Nil,
         key_id              |-> Nil]

\* The record that follows r, and the first one of all.
SealAfter(r, body) == Seal(r.seq + 1, body, r.id, r.chain_hash)
SealFirst(body) == Seal(1, body, Nil, Genesis)

SignSwapped(r, dek, keyId) ==       \* mutant: the two fields exchanged
    [r EXCEPT !.hmac = keyId, !.key_id = MacOf(dek, r.id, r.chain_hash)]

\* The record signed with a DEK, which stamps its key_id ...
Sign(r, dek, keyId) ==
    [r EXCEPT !.hmac = MacOf(dek, r.id, r.chain_hash), !.key_id = keyId]

\* ... or with the daemon's fallback key, which has none.
SignWithFallback(r, key) == [r EXCEPT !.hmac = MacOf(key, r.id, r.chain_hash)]

\* encryptDEK: a DEK wrapped for export, with its key_id and key_state.
Wrapped(keyId, state, kek0, dek) ==
    [key_id |-> keyId, key_state |-> state, envelope |-> [kek |-> kek0, dek |-> dek]]
================================================================================
