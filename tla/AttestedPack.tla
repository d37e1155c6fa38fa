----------------------------- MODULE AttestedPack -----------------------------
(***************************************************************************)
(* A chain on its way from the daemon to the auditor, which is what the    *)
(* verifier is for.  The daemon appends records (BuildChain) and exports   *)
(* them with its keys (BundleFromDEKs, WritePack); the copy changes while  *)
(* it travels, by mistake or by somebody's hand, but without the DEKs and  *)
(* without the workspace KEK; the auditor, who has the KEK from elsewhere, *)
(* verifies what arrives.                                                  *)
(*                                                                         *)
(* A change may recompute every digest -- anybody can hash -- but a new    *)
(* hmac is either a copy of one in the pack or made with a key of one's    *)
(* own, and an envelope that opens with the workspace KEK is one of the    *)
(* daemon's.  That is what HMAC-SHA256 and AES-GCM are trusted for.        *)
(***************************************************************************)
EXTENDS ChainVerify, ChainWriter, SequencesExt

CONSTANTS
    DekOf,          \* the DEK behind each key_id of the daemon
    FallbackKey,    \* the daemon's key for records without key_id
    WorkspaceKek,   \* the KEK that seals the bundle and that the auditor has
    MaxRecords,     \* bound on the records written
    MaxChanges      \* bound on the changes on the way

DaemonDeks == {DekOf[k] : k \in KeyIds} \union {FallbackKey}
ForeignDeks == Deks \ DaemonDeks

ASSUME AttestedPackAssumption ==
    /\ DekOf \in [KeyIds -> Deks] /\ FallbackKey \in Deks
    /\ WorkspaceKek \in Keks
    /\ {"fallback", "none"} \cap KeyIds = {}
    /\ MaxRecords \in Nat /\ MaxChanges \in Nat
    /\ MaxRecords + MaxChanges < MaxInt

VARIABLES
    written,    \* the daemon's chain
    shared,     \* the chain in the pack; the pack's keys are `bundle'
    changes,    \* how many changes the pack has seen
    stage       \* writing, shared, walking

packVars == <<written, shared, changes, stage>>
allVars == <<vars, packVars>>

AttestedInit ==
    /\ written = <<>> /\ shared = <<>> /\ changes = 0 /\ stage = "writing"
    /\ records = <<>> /\ bundle = Nil /\ kek = Nil /\ strict = FALSE
    /\ StartOfWalk

-----------------------------------------------------------------------------
\* One round of BuildChain's loop: signed with a DEK, with the fallback key,
\* or, before attestation was introduced, not at all.
AppendRecord ==
    /\ stage = "writing" /\ Len(written) < MaxRecords
    /\ \E body \in Bodies, signer \in KeyIds \union {"fallback", "none"} :
          LET r == IF written = <<>> THEN SealFirst(body)
                   ELSE SealAfter(written[Len(written)], body)
          IN  written' = Append(written,
                 CASE signer \in KeyIds    -> Sign(r, DekOf[signer], signer)
                   [] signer = "fallback"  -> SignWithFallback(r, FallbackKey)
                   [] signer = "none"      -> r)
    /\ UNCHANGED <<shared, changes, stage, vars>>

\* The key_ids of the DEKs that BuildChain has collected in chain.DEKs.
KeysUsed == {written[n].key_id : n \in DOMAIN written} \ {Nil}

\* BundleFromDEKs: one record for each, with its key_state, in some order.
Exports(states) ==
    LET All == {Wrapped(k, states[k], WorkspaceKek, DekOf[k]) : k \in KeysUsed}
    IN  {b \in [1 .. Cardinality(KeysUsed) -> All] : Range(b) = All}

\* WritePack.  A chain that uses no key may go without keys.json.
Export ==
    /\ stage = "writing"
    /\ shared' = written
    /\ \/ \E states \in [KeysUsed -> KeyStates] : bundle' \in Exports(states)
       \/ KeysUsed = {} /\ bundle' = Nil
    /\ stage' = "shared"
    /\ UNCHANGED <<written, changes, records, kek, strict, cache, walked,
                   carried, errors, statuses, result>>

-----------------------------------------------------------------------------
Rehashed(r) ==
    LET id == IdOf(CanonicalPayload(r))
    IN  [r EXCEPT !.id = id, !.chain_hash = ChainHashOf(r.previous_chain_hash, id)]

\* The record made to follow the one before it.
Relinked(r, prev) ==
    Rehashed([r EXCEPT !.seq = Successor(prev.seq), !.previous_id = prev.id,
                       !.previous_chain_hash = prev.chain_hash])

\* What record n may be replaced with.
Alterations(n) ==
    LET r == shared[n]
    IN  {[r EXCEPT !.body = b] : b \in Bodies}
        \union {Rehashed(r), Relinked(r, Predecessor(shared, n))}
        \union {[r EXCEPT !.hmac = Nil, !.key_id = Nil]}
        \union {[r EXCEPT !.hmac = shared[m].hmac] : m \in DOMAIN shared}
        \union {[r EXCEPT !.key_id = k] : k \in KeyIds}
        \union {Sign(r, dek, k) : dek \in ForeignDeks, k \in KeyIds}

Change ==
    /\ stage = "shared" /\ changes < MaxChanges
    /\ changes' = changes + 1
    /\ UNCHANGED <<written, stage, records, kek, strict, cache, walked, carried,
                   errors, statuses, result>>

AlterRecord ==
    /\ Change
    /\ \E n \in DOMAIN shared : \E r \in Alterations(n) :
          shared' = [shared EXCEPT ![n] = r]
    /\ UNCHANGED bundle

LoseRecord ==
    /\ Change
    /\ \E n \in DOMAIN shared : shared' = RemoveAt(shared, n)
    /\ UNCHANGED bundle

\* A record twice or in another place, or one that nobody signed.
InsertRecord ==
    /\ Change
    /\ \E n \in 1 .. Len(shared) + 1 :
          \E r \in Range(shared) \union
                   {Relinked(SealFirst(b), Predecessor(shared, n)) : b \in Bodies} :
             shared' = InsertAt(shared, n, r)
    /\ UNCHANGED bundle

\* keys.json lost, one of its records lost, relabelled, spoilt or sealed anew,
\* or a record added.
AlterKeys ==
    /\ Change
    /\ bundle # Nil
    /\ LET Sealed == {Corrupt} \union [kek : Keks \ {WorkspaceKek}, dek : ForeignDeks]
       IN  \/ bundle' = Nil
           \/ \E n \in DOMAIN bundle :
                 \/ bundle' = RemoveAt(bundle, n)
                 \/ \E k \in KeyIds : bundle' = [bundle EXCEPT ![n].key_id = k]
                 \/ \E e \in Sealed : bundle' = [bundle EXCEPT ![n].envelope = e]
           \/ \E r \in [key_id : KeyIds, key_state : KeyStates, envelope : Sealed] :
                 bundle' = Append(bundle, r)
    /\ UNCHANGED shared

-----------------------------------------------------------------------------
\* The auditor starts the verifier on what arrived, with the KEK or without.
Submit ==
    /\ stage = "shared"
    /\ records' = shared
    /\ kek' \in {WorkspaceKek, Nil}
    /\ strict' \in BOOLEAN
    /\ stage' = "walking"
    /\ UNCHANGED <<written, shared, changes, bundle, cache, walked, carried,
                   errors, statuses, result>>

Walk ==
    /\ stage = "walking"
    /\ VerifyRecord \/ Return
    /\ UNCHANGED packVars

AttestedNext ==
    \/ AppendRecord \/ Export
    \/ AlterRecord \/ LoseRecord \/ InsertRecord \/ AlterKeys
    \/ Submit \/ Walk

AttestedSpec == AttestedInit /\ [][AttestedNext]_allVars

-----------------------------------------------------------------------------
\* The chain written, the one shared and the one verified have their types.
AttestedTypeOK ==
    /\ TypeOK
    /\ IsChain(written) /\ Len(written) <= MaxRecords
    /\ IsChain(shared)
    /\ changes \in 0 .. MaxChanges
    /\ stage \in {"writing", "shared", "walking"}

\* Record r says what the daemon's n-th record says.
SaysWhatWasWritten(r, n) ==
    /\ n \in DOMAIN written
    /\ CanonicalPayload(r) = CanonicalPayload(written[n])
    /\ r.id = written[n].id
    /\ r.chain_hash = written[n].chain_hash

(***************************************************************************)
(* An attested record is the daemon's: whatever else became of the pack,   *)
(* whatever order its records are in, a record reported as attested says   *)
(* what the daemon wrote under that number.                                *)
(***************************************************************************)
AttestedIsWritten ==
    \A i \in DOMAIN statuses :
        statuses[i].attestation = "attested" =>
            SaysWhatWasWritten(records[i], records[i].seq)

(***************************************************************************)
(* One attested record vouches for all before it: in an accepted chain     *)
(* everything up to the last attested record is the daemon's chain, even   *)
(* the records that are not attested themselves.                           *)
(***************************************************************************)
AttestedPrefixIsWritten ==
    (result # Nil /\ result.ok) =>
        \A i \in DOMAIN statuses :
            statuses[i].attestation = "attested" =>
                \A j \in 1 .. i : SaysWhatWasWritten(records[j], j)

(***************************************************************************)
(* Nothing is refused without reason: a pack that arrives as it was        *)
(* exported is accepted, in strict mode if every record is signed, unless  *)
(* the KEK is missing where it is needed or the fallback key was used.     *)
(***************************************************************************)
UnchangedIsAccepted ==
    (/\ result # Nil /\ changes = 0
     /\ \A n \in DOMAIN written : written[n].hmac # Nil => written[n].key_id # Nil
     /\ kek # Nil \/ KeysUsed = {})
        => (result.ok <=> ~strict \/ \A n \in DOMAIN written : written[n].hmac # Nil)

(***************************************************************************)
(* docs/threat-model.md, "What wotw-verify proves": any change made by     *)
(* somebody without the KEK fails verification.                            *)
(***************************************************************************)
VerifiedIsUnchanged ==
    (result # Nil /\ result.ok /\ strict) => records = written
===============================================================================
