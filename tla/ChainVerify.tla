----------------------------- MODULE ChainVerify -----------------------------
(***************************************************************************)
(* The chain walk of internal/provenance/chain.go: Verify and verifyHMAC,  *)
(* with the resolver it calls.                                             *)
(*                                                                         *)
(* The walk is one pass in file order.  It carries three values from each  *)
(* record to the next -- taken from what the record says, not from what    *)
(* was recomputed -- so that it resynchronises after a bad record, and it  *)
(* never stops early: every record gets a status and every failed check an *)
(* error.                                                                  *)
(***************************************************************************)
EXTENDS ValidChain, FiniteSets, Functions

CONSTANT
    Chains      \* the record lists ReadChainJSONL may hand to Verify

ASSUME ChainsAssumption ==
    \A c \in Chains : IsChain(c)

VARIABLES
    records,        \* the argument of Verify
    bundle, kek,    \* opts.Resolver: the bundle and KEK it was built from ...
    cache,          \* ... and the DEKs it has unwrapped so far
    strict,         \* opts.Strict
    walked,         \* how many records the loop has been through
    prevChainHash, prevID, expectedSeq,     \* carried to the next record
    errors,         \* res.Errors
    statuses,       \* res.Statuses
    result          \* [ok, verified] once Verify has returned, else Nil

inputs == <<records, bundle, kek, strict>>
carried == <<prevChainHash, prevID, expectedSeq>>
vars == <<inputs, cache, walked, carried, errors, statuses, result>>

-----------------------------------------------------------------------------
(***************************************************************************)
(* The checks of one record, in the order of the loop body.                *)
(***************************************************************************)
SeqOKWithGaps(r) == r.seq >= expectedSeq                \* mutant: gaps allowed
SeqOK(r) == r.seq = expectedSeq
PreviousIdOK(r) == DerefOrNull(r.previous_id) = DerefOrNull(prevID)
PreviousChainHashUnchecked(r) == TRUE                   \* mutant: check lost
PreviousChainHashOK(r) == r.previous_chain_hash = prevChainHash
IdTakenIfSigned(r) ==               \* mutant: no rehash where there is an hmac
    r.hmac # Nil \/ r.id = IdOf(CanonicalPayload(r))
IdTakenIfUnsigned(r) ==             \* mutant: no rehash where there is none
    r.hmac = Nil \/ r.id = IdOf(CanonicalPayload(r))
IdOK(r) == r.id = IdOf(CanonicalPayload(r))

\* Recomputed from the record's stored id and its own previous_chain_hash.
ChainHashOK(r) == r.chain_hash = ChainHashOf(r.previous_chain_hash, r.id)

LinkageOK(r) == SeqOK(r) /\ PreviousIdOK(r) /\ PreviousChainHashOK(r)

\* The resolver is asked only for a record with both hmac and key_id.
Resolves(r) == r.hmac # Nil /\ r.key_id # Nil

Resolved(r) ==
    IF Resolves(r) THEN ResolveByID(bundle, kek, cache, r.key_id)
                   ELSE Answer(Nil, NoState, FALSE)

\* verifyHMAC.  Fallback has no key to offer, so an hmac without key_id
\* finds none; an hmac that is not hex decodes to no digest.
HmacOKWithoutKey(r) ==              \* mutant: a key that is not found passes
    LET a == Resolved(r)
    IN  a.key = Nil \/ r.hmac = MacOf(a.key, r.id, r.chain_hash)

HmacOK(r) ==
    LET a == Resolved(r)
    IN  ~a.err /\ a.key # Nil /\ r.hmac = MacOf(a.key, r.id, r.chain_hash)

HmacReason(r) ==
    LET a == Resolved(r)
    IN  CASE a.err                    -> "hmac key lookup failed"
          [] ~a.err /\ a.key = Nil /\ r.key_id # Nil -> "hmac key not found"
          [] ~a.err /\ a.key = Nil /\ r.key_id = Nil -> "no fallback key"
          [] OTHER                    -> "hmac mismatch"

ErrorIfNewSeq(failed, r, reason) ==         \* mutant: one report per seq
    IF failed /\ \A e \in DOMAIN errors : errors[e].seq # r.seq
      THEN <<[seq |-> r.seq, id |-> r.id, reason |-> reason]>> ELSE <<>>

ErrorIf(failed, r, reason) ==
    IF failed THEN <<[seq |-> r.seq, id |-> r.id, reason |-> reason]>> ELSE <<>>

ErrorsOf(r) ==
    ErrorIf(~SeqOK(r), r, "seq mismatch")
    \o ErrorIf(~PreviousIdOK(r), r, "previous_id mismatch")
    \o ErrorIf(~PreviousChainHashOK(r), r, "previous_chain_hash mismatch")
    \o ErrorIf(~IdOK(r), r, "id hash mismatch")
    \o ErrorIf(~ChainHashOK(r), r, "chain_hash mismatch")
    \o ErrorIf(r.hmac # Nil /\ ~HmacOK(r), r, HmacReason(r))
    \o ErrorIf(r.hmac = Nil /\ strict, r, "no hmac in strict mode")

\* A structural failure overrides the outcome of the HMAC check.
Intact(r) == IdOK(r) /\ ChainHashOK(r) /\ LinkageOK(r)

HmacOverridesStructure(r) ==        \* mutant: the cases in the other order
    IF r.hmac # Nil /\ HmacOK(r) THEN "attested"
    ELSE IF Intact(r) /\ r.hmac = Nil THEN "unattested" ELSE "failed"

Attestation(r) ==
    CASE ~Intact(r) \/ (r.hmac # Nil /\ ~HmacOK(r))  -> "failed"
      [] Intact(r) /\ r.hmac # Nil /\ HmacOK(r)      -> "attested"
      [] Intact(r) /\ r.hmac = Nil                   -> "unattested"

StatusOf(r) ==
    [id_ok          |-> IdOK(r),
     chain_hash_ok  |-> ChainHashOK(r),
     linkage_ok     |-> LinkageOK(r),
     hmac_present   |-> r.hmac # Nil,
     hmac_ok        |-> r.hmac # Nil /\ HmacOK(r),
     hmac_key_state |-> Resolved(r).state,
     attestation    |-> Attestation(r)]

-----------------------------------------------------------------------------
\* Verify up to its loop.
StartOfWalk ==
    /\ cache = EmptyCache
    /\ walked = 0
    /\ prevChainHash = Genesis /\ prevID = Nil /\ expectedSeq = 1
    /\ errors = <<>> /\ statuses = <<>>
    /\ result = Nil

Init ==
    /\ records \in Chains
    /\ bundle \in Bundles
    /\ kek \in Keks \union {Nil}
    /\ strict \in BOOLEAN
    /\ StartOfWalk

\* One iteration of the loop.
VerifyRecord ==
    /\ walked < Len(records)
    /\ LET r == records[walked + 1]
       IN  /\ errors' = errors \o ErrorsOf(r)
           /\ statuses' = Append(statuses, StatusOf(r))
           /\ cache' = IF Resolves(r)
                         THEN CacheAfter(cache, r.key_id, Resolved(r))
                         ELSE cache
           /\ prevChainHash' = r.chain_hash
           /\ prevID' = r.id
           /\ expectedSeq' = Successor(r.seq)
    /\ walked' = walked + 1
    /\ UNCHANGED <<inputs, result>>

\* countSeqsWithErrors: records with an error are told apart by their seq.
CountErrors == Len(errors)          \* mutant: errors counted, not records
CountSeqsWithErrors == Cardinality({errors[e].seq : e \in DOMAIN errors})

\* The end of Verify.
Return ==
    /\ walked = Len(records)
    /\ result = Nil
    /\ result' = [ok       |-> errors = <<>>,
                  verified |-> Len(records) - CountSeqsWithErrors]
    /\ UNCHANGED <<inputs, cache, walked, carried, errors, statuses>>

Next == VerifyRecord \/ Return

\* A loop that can take its next step takes it.
Spec == Init /\ [][Next]_vars /\ WF_vars(Next)

-----------------------------------------------------------------------------
Reasons == {"seq mismatch", "previous_id mismatch",
            "previous_chain_hash mismatch", "id hash mismatch",
            "chain_hash mismatch", "hmac key lookup failed",
            "hmac key not found", "no fallback key", "hmac mismatch",
            "no hmac in strict mode"}

RecordError == [seq : Numbers, id : Texts, reason : Reasons]

RecordStatus ==
    [id_ok : BOOLEAN, chain_hash_ok : BOOLEAN, linkage_ok : BOOLEAN,
     hmac_present : BOOLEAN, hmac_ok : BOOLEAN,
     hmac_key_state : KeyStates \union {NoState},
     attestation : {"attested", "unattested", "failed"}]

\* The variables of Verify and of the resolver hold what their Go types hold.
TypeOK ==
    /\ IsChain(records)
    /\ bundle \in KeyBundle
    /\ kek \in Keks \union {Nil}
    /\ strict \in BOOLEAN
    /\ cache \in [KeyIds -> Deks \union {Nil}]
    /\ walked \in 0 .. Len(records)
    /\ prevChainHash \in Texts
    /\ prevID \in Texts \union {Nil}
    /\ expectedSeq \in Numbers
    /\ errors \in Seq(RecordError)
    /\ statuses \in Seq(RecordStatus)
    /\ Len(statuses) = walked
    /\ result = Nil \/ (result.ok \in BOOLEAN /\ result.verified \in Int)

\* The place of record i among the records walked, by the declarative definition.
AcceptableAt(i) == Acceptable(records, i, bundle, kek, strict)

(***************************************************************************)
(* Verify accepts exactly the valid chains: the single pass with values    *)
(* carried along, resynchronisation after a failure and a resolver that    *)
(* remembers, decides what the declarative definition says.                *)
(***************************************************************************)
OkIffValid ==
    result # Nil => (result.ok <=> \A i \in DOMAIN records : AcceptableAt(i))

(***************************************************************************)
(* An accepted chain has neither gaps nor repetitions: seq counts 1, 2,    *)
(* ..., and no id or chain_hash occurs twice.                              *)
(***************************************************************************)
OkIsNumbered ==
    (result # Nil /\ result.ok) =>
        /\ \A i \in DOMAIN records : records[i].seq = i
        /\ IsInjective([i \in DOMAIN records |-> records[i].id])
        /\ IsInjective([i \in DOMAIN records |-> records[i].chain_hash])

\* A status says what the definitions say of record i.
LocalStatus(status, rs, i, b, k) ==
    /\ status.attestation = "attested" <=> Sound(rs, i) /\ Signed(rs[i], b, k)
    /\ status.attestation = "unattested" <=> Sound(rs, i) /\ rs[i].hmac = Nil
    /\ status.linkage_ok <=> Follows(rs, i)
    /\ status.hmac_ok <=> Signed(rs[i], b, k)

(***************************************************************************)
(* A record's status depends on the record, the one before it and the      *)
(* bundle: a failure earlier in the chain neither spreads to a record that *)
(* is in order nor hides one that is not, whichever lookups came first.    *)
(***************************************************************************)
StatusesAreLocal ==
    \A i \in DOMAIN statuses : LocalStatus(statuses[i], records, i, bundle, kek)

\* One of the first n records had the key_id looked up.
LookedUp(keyId, n) ==
    \E j \in 1 .. n : Resolves(records[j]) /\ records[j].key_id = keyId

\* The key_state due to record i: that of the last bundle record with its key_id
\* if the DEK was unwrapped for a record before, else that of the first.
DueState(state, i) ==
    LET keyId == records[i].key_id
        again == Usable(bundle, kek, keyId) /\ LookedUp(keyId, i - 1)
    IN  IF Resolves(records[i]) /\ Holds(bundle, keyId)
          THEN IsStateOf(state, bundle, keyId, again)
          ELSE state = NoState

(***************************************************************************)
(* Which key_state a record is reported with, when the bundle repeats its  *)
(* key_id, is decided by the records before it and by nothing else: every  *)
(* successful lookup but the first has the last state, the first and all   *)
(* the failed ones have the first state, and without a key there is none.  *)
(* (The comment of keys.go:189-190 has no state for a failed lookup.)      *)
(***************************************************************************)
KeyStateFollowsLookups ==
    \A i \in DOMAIN statuses : DueState(statuses[i].hmac_key_state, i)

(***************************************************************************)
(* Every unacceptable record is named by an error, and every error names   *)
(* an unacceptable record: none is passed over, none is blamed wrongly.    *)
(***************************************************************************)
ErrorsNameTheUnacceptable ==
    {[seq |-> errors[e].seq, id |-> errors[e].id] : e \in DOMAIN errors} =
    {[seq |-> records[i].seq, id |-> records[i].id] :
        i \in {j \in 1 .. walked : ~AcceptableAt(j)}}

(***************************************************************************)
(* The verified count never understates the acceptable records, and when   *)
(* no two records claim one seq it is exact.                               *)
(***************************************************************************)
VerifiedCount ==
    result # Nil =>
        LET good == Cardinality({i \in DOMAIN records : AcceptableAt(i)})
        IN  /\ good <= result.verified /\ result.verified <= Len(records)
            /\ IsInjective([i \in DOMAIN records |-> records[i].seq])
                  => result.verified = good

-----------------------------------------------------------------------------
(***************************************************************************)
(* What a comment says of a walk and the code does otherwise.              *)
(***************************************************************************)

(***************************************************************************)
(* keys.go:212-215: outside strict mode a record with an hmac but without  *)
(* a key_id is reported as unattested.                                     *)
(***************************************************************************)
HmacWithoutKeyIdIsUnattested ==
    \A i \in DOMAIN statuses :
        (/\ Sound(records, i) /\ ~strict
         /\ records[i].hmac # Nil /\ records[i].key_id = Nil)
            => statuses[i].attestation = "unattested"
=============================================================================
