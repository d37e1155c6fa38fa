---------------------------- MODULE WorkspaceKeys ----------------------------
(***************************************************************************)
(* The key bundle (keys.json) and the resolver of internal/keys/keys.go.   *)
(*                                                                         *)
(* A bundle is the sequence of key records in file order.  An envelope is  *)
(* the AES-GCM wrapping of a data key (DEK) under a workspace key (KEK):   *)
(* it opens only under the KEK that sealed it.  Corrupt stands for every   *)
(* envelope that never opens: fields that are not hex, a nonce or tag of   *)
(* the wrong length, an altered ciphertext, a DEK that is not 32 bytes.    *)
(***************************************************************************)
EXTENDS ProvenanceRecord, Sequences

CONSTANTS
    Keks,           \* workspace keys
    Deks,           \* data keys
    KeyStates,      \* active, rotating, archived, revoked
    Corrupt,        \* an envelope no KEK opens
    NoState,        \* the empty key_state of a key that is not there
    Bundles         \* the key bundles considered; Nil is a pack without keys

Envelope == [kek : Keks, dek : Deks] \union {Corrupt}

KeyRecord == [key_id : KeyIds, key_state : KeyStates, envelope : Envelope]

\* What ParseBundle lets through, or no bundle.  It checks each record by
\* itself: two records may have one key_id.
KeyBundle == Seq(KeyRecord) \union {Nil}

ASSUME KeysAssumption ==
    /\ Nil \notin Keks /\ Nil \notin Deks /\ Nil \notin Seq(KeyRecord)
    /\ NoState \notin KeyStates
    /\ Corrupt \notin [kek : Keks, dek : Deks]
    /\ \A b \in Bundles : b \in KeyBundle

-----------------------------------------------------------------------------
\* unwrap opens an envelope only with the KEK that sealed it.
Opens(envelope, kek) ==
    /\ kek # Nil
    /\ envelope # Corrupt
    /\ envelope.kek = kek

Holds(bundle, keyId) ==
    /\ bundle # Nil
    /\ \E n \in DOMAIN bundle : bundle[n].key_id = keyId

\* ResolveByID's scan takes the first record with the key_id ...
FirstRecord(bundle, keyId) ==
    bundle[CHOOSE n \in DOMAIN bundle :
              /\ bundle[n].key_id = keyId
              /\ \A m \in DOMAIN bundle : bundle[m].key_id = keyId => n <= m]

\* ... while NewResolver's states map keeps the last one's key_state, and
\* has the empty one for a key_id that is not in it.
LastState(bundle, keyId) ==
    IF ~Holds(bundle, keyId) THEN NoState
    ELSE bundle[CHOOSE n \in DOMAIN bundle :
                   /\ bundle[n].key_id = keyId
                   /\ \A m \in DOMAIN bundle : bundle[m].key_id = keyId => m <= n].key_state

EmptyCache == [keyId \in KeyIds |-> Nil]

-----------------------------------------------------------------------------
(***************************************************************************)
(* ResolveByID.  An answer carries the DEK or Nil, the key_state, and      *)
(* whether unwrap returned an error.  A nil bundle answers as NoopResolver *)
(* does.  A cached DEK is answered with the state of the states map, a     *)
(* scanned one with the state of its own record.                           *)
(***************************************************************************)
Answer(key, state, err) == [key |-> key, state |-> state, err |-> err]

ResolveByID(bundle, kek, cache, keyId) ==
    IF cache[keyId] # Nil
      THEN Answer(cache[keyId], LastState(bundle, keyId), FALSE)
    ELSE IF ~Holds(bundle, keyId)
      THEN Answer(Nil, NoState, FALSE)
    ELSE LET k == FirstRecord(bundle, keyId)
         IN  IF Opens(k.envelope, kek)
               THEN Answer(k.envelope.dek, k.key_state, FALSE)
               ELSE Answer(Nil, k.key_state, TRUE)

\* A DEK is cached when it was unwrapped; a failed unwrap leaves no trace.
OneSlotCache(cache, keyId, answer) ==       \* mutant: one slot for all key_ids
    IF answer.key = Nil THEN cache ELSE [k \in KeyIds |-> answer.key]

NeverCached(cache, keyId, answer) == cache  \* mutant: the DEK is not kept

CacheAfter(cache, keyId, answer) ==
    IF answer.key = Nil THEN cache ELSE [cache EXCEPT ![keyId] = answer.key]

-----------------------------------------------------------------------------
\* The bundle has the key and the KEK opens it.
Usable(bundle, kek, keyId) ==
    Holds(bundle, keyId) /\ Opens(FirstRecord(bundle, keyId).envelope, kek)

\* Of the records with the key_id, the last one or the first has this key_state.
IsStateOf(state, bundle, keyId, last) ==
    LET same == {n \in DOMAIN bundle : bundle[n].key_id = keyId}
    IN  \E n \in same :
           /\ state = bundle[n].key_state
           /\ \A m \in same : IF last THEN m <= n ELSE n <= m

\* Every cached DEK is the one that unwrapping its envelope again would give.
Coherent(bundle, kek, cache) ==
    \A keyId \in KeyIds :
        cache[keyId] # Nil =>
            /\ Usable(bundle, kek, keyId)
            /\ cache[keyId] = FirstRecord(bundle, keyId).envelope.dek
=============================================================================
