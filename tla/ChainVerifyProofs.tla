-------------------------- MODULE ChainVerifyProofs --------------------------
(***************************************************************************)
(* What the chain walk guarantees for every chain, bundle and KEK.         *)
(*                                                                         *)
(* The property of interest, OkIffValid, compares the outcome of the walk  *)
(* with a definition that knows neither the carried values nor the cache.  *)
(* It is not inductive: the invariant below adds that the carried values   *)
(* are those of the record last walked, that the cache is coherent, that   *)
(* the verdicts given so far are those of the definition, and that the     *)
(* errors so far are about the records that the definition refuses.        *)
(***************************************************************************)
EXTENDS ChainVerify, CompliancePackProofs

\* What is carried to record walked + 1 is what record walked says.
Carried ==
    /\ expectedSeq = Successor(Predecessor(records, walked + 1).seq)
    /\ prevID = Predecessor(records, walked + 1).id
    /\ prevChainHash = Predecessor(records, walked + 1).chain_hash

CacheCoherent == Coherent(bundle, kek, cache)

\* A DEK is cached exactly if it can be unwrapped and was looked up before.
CacheRemembers ==
    \A keyId \in KeyIds :
        cache[keyId] # Nil <=> Usable(bundle, kek, keyId) /\ LookedUp(keyId, walked)

\* No error so far exactly when every record so far is acceptable.
ErrorsSoFar == errors = <<>> <=> \A i \in 1 .. walked : AcceptableAt(i)

\* Error e is about record i.
Blames(e, i) == e.seq = records[i].seq /\ e.id = records[i].id

\* The errors so far blame the unacceptable records so far, each and only these.
Blamed ==
    /\ \A e \in DOMAIN errors :
          \E i \in 1 .. walked : ~AcceptableAt(i) /\ Blames(errors[e], i)
    /\ \A i \in 1 .. walked :
          ~AcceptableAt(i) => \E e \in DOMAIN errors : Blames(errors[e], i)

\* The result is that of the whole chain.
ResultOfAll ==
    result # Nil =>
        /\ walked = Len(records)
        /\ result.ok <=> errors = <<>>
        /\ result.verified = Len(records) - CountSeqsWithErrors

Inv ==
    /\ TypeOK
    /\ Carried
    /\ CacheCoherent
    /\ CacheRemembers
    /\ ErrorsSoFar
    /\ Blamed
    /\ StatusesAreLocal
    /\ KeyStateFollowsLookups
    /\ ResultOfAll

-----------------------------------------------------------------------------
\* The next record and what its fields are.
LEMMA NextRecord ==
    ASSUME TypeOK, walked < Len(records)
    PROVE  /\ walked + 1 \in 1 .. Len(records)
           /\ walked + 1 \in DOMAIN records
           /\ records[walked + 1] \in Record
           /\ records \in Seq(Record)
BY DEF TypeOK, IsChain

(***************************************************************************)
(* The checks of the loop body, which compare with carried values and ask  *)
(* a resolver that remembers, decide what the definitions about the        *)
(* records alone say.                                                      *)
(***************************************************************************)
LEMMA HmacCheck ==
    ASSUME TypeOK, CacheCoherent, NEW i \in DOMAIN records,
           records[i] \in Record
    PROVE  /\ Resolved(records[i]).key \in Deks \union {Nil}
           /\ Resolved(records[i]).state \in KeyStates \union {NoState}
           /\ Resolved(records[i]).err \in BOOLEAN
           /\ (records[i].hmac # Nil /\ HmacOK(records[i])) <=> Signed(records[i], bundle, kek)
<1> DEFINE r == records[i]
<1>1. CASE Resolves(r)
  <2>1. r.key_id \in KeyIds
    BY <1>1 DEF Record, Resolves
  <2> DEFINE a == ResolveByID(bundle, kek, cache, r.key_id)
  <2>2. /\ a.key \in Deks \union {Nil}
        /\ a.state \in KeyStates \union {NoState}
        /\ a.err \in BOOLEAN
        /\ a.key # Nil <=> Usable(bundle, kek, r.key_id)
        /\ a.key # Nil =>
              a.key = FirstRecord(bundle, r.key_id).envelope.dek /\ ~a.err
    BY <2>1, ResolveProperties DEF TypeOK, CacheCoherent
  <2>3. Resolved(r) = a
    BY <1>1 DEF Resolved
  <2> HIDE DEF a
  <2>4. (r.hmac # Nil /\ HmacOK(r)) <=> Signed(records[i], bundle, kek)
    BY <1>1, <2>2, <2>3 DEF HmacOK, Signed, Resolves
  <2> QED  BY <2>2, <2>3, <2>4
<1>2. CASE ~Resolves(r)
  BY <1>2 DEF Resolved, Resolves, HmacOK, Signed, Answer
<1> QED  BY <1>1, <1>2

LEMMA StructureChecks ==
    ASSUME TypeOK, Carried, walked < Len(records)
    PROVE  /\ LinkageOK(records[walked + 1]) <=> Follows(records, walked + 1)
           /\ Intact(records[walked + 1]) <=> Sound(records, walked + 1)
<1> DEFINE i == walked + 1
<1>1. LinkageOK(records[i]) <=> Follows(records, i)
  BY DEF Carried, LinkageOK, SeqOK, PreviousIdOK, PreviousChainHashOK, Follows
<1> QED
  BY <1>1 DEF Intact, IdOK, ChainHashOK, Sound, SelfConsistent

\* The next lookup yields the key_state due.
LEMMA ResolvedState ==
    ASSUME TypeOK, CacheCoherent, CacheRemembers, NEW i \in DOMAIN records,
           records[i] \in Record, i = walked + 1
    PROVE  DueState(Resolved(records[i]).state, i)
<1> DEFINE r == records[i]
<1>1. CASE Resolves(r)
  <2>1. r.key_id \in KeyIds
    BY <1>1 DEF Record, Resolves
  <2> DEFINE state == ResolveByID(bundle, kek, cache, r.key_id).state
  <2>2. IF Holds(bundle, r.key_id)
          THEN IsStateOf(state, bundle, r.key_id, cache[r.key_id] # Nil)
          ELSE state = NoState
    BY <2>1, AnswersCarryTheirState DEF TypeOK, CacheCoherent
  <2>3. Resolved(r).state = state
    BY <1>1 DEF Resolved
  <2>4. i - 1 = walked
    BY DEF TypeOK
  <2>5. cache[r.key_id] # Nil <=> Usable(bundle, kek, r.key_id) /\ LookedUp(r.key_id, i - 1)
    BY <2>1, <2>4 DEF CacheRemembers
  <2> HIDE DEF state
  <2> QED  BY <1>1, <2>2, <2>3, <2>5 DEF DueState
<1>2. CASE ~Resolves(r)
  BY <1>2 DEF Resolved, Answer, DueState
<1> QED  BY <1>1, <1>2

\* An error that blames record r.
ErrorOf(r) == {e \in RecordError : e.seq = r.seq /\ e.id = r.id}

\* The errors a record adds: they blame it, and there are none exactly if it
\* is acceptable.
LEMMA ErrorsOfNext ==
    ASSUME TypeOK, Carried, CacheCoherent, walked < Len(records)
    PROVE  /\ ErrorsOf(records[walked + 1]) \in Seq(ErrorOf(records[walked + 1]))
           /\ ErrorsOf(records[walked + 1]) = <<>> <=> AcceptableAt(walked + 1)
<1> DEFINE i == walked + 1
           r == records[i]
<1>1. r \in Record /\ i \in DOMAIN records
  BY NextRecord
<1>2. r.seq \in Numbers /\ r.id \in Texts
  BY <1>1 DEF Record
<1>3. HmacReason(r) \in Reasons
  BY DEF HmacReason, Reasons
<1>4. \A reason \in Reasons :
         /\ ErrorIf(TRUE, r, reason) \in Seq(ErrorOf(r))
         /\ ErrorIf(TRUE, r, reason) # <<>>
         /\ ErrorIf(FALSE, r, reason) = <<>>
         /\ ErrorIf(FALSE, r, reason) \in Seq(ErrorOf(r))
  <2>1. \A reason \in Reasons :
           [seq |-> r.seq, id |-> r.id, reason |-> reason] \in ErrorOf(r)
    BY <1>2 DEF RecordError, ErrorOf
  <2> QED  BY <2>1 DEF ErrorIf
<1> DEFINE e1 == ErrorIf(~SeqOK(r), r, "seq mismatch")
           e2 == ErrorIf(~PreviousIdOK(r), r, "previous_id mismatch")
           e3 == ErrorIf(~PreviousChainHashOK(r), r, "previous_chain_hash mismatch")
           e4 == ErrorIf(~IdOK(r), r, "id hash mismatch")
           e5 == ErrorIf(~ChainHashOK(r), r, "chain_hash mismatch")
           e6 == ErrorIf(r.hmac # Nil /\ ~HmacOK(r), r, HmacReason(r))
           e7 == ErrorIf(r.hmac = Nil /\ strict, r, "no hmac in strict mode")
<1>5. /\ e1 \in Seq(ErrorOf(r)) /\ e2 \in Seq(ErrorOf(r))
      /\ e3 \in Seq(ErrorOf(r)) /\ e4 \in Seq(ErrorOf(r))
      /\ e5 \in Seq(ErrorOf(r)) /\ e6 \in Seq(ErrorOf(r))
      /\ e7 \in Seq(ErrorOf(r))
      /\ e1 = <<>> <=> SeqOK(r)
      /\ e2 = <<>> <=> PreviousIdOK(r)
      /\ e3 = <<>> <=> PreviousChainHashOK(r)
      /\ e4 = <<>> <=> IdOK(r)
      /\ e5 = <<>> <=> ChainHashOK(r)
      /\ e6 = <<>> <=> (r.hmac # Nil => HmacOK(r))
      /\ e7 = <<>> <=> ~(r.hmac = Nil /\ strict)
  <2>0. {"seq mismatch", "previous_id mismatch", "previous_chain_hash mismatch",
         "id hash mismatch", "chain_hash mismatch", "no hmac in strict mode",
         HmacReason(r)} \subseteq Reasons
    BY <1>3 DEF Reasons
  <2>1. e1 \in Seq(ErrorOf(r)) /\ (e1 = <<>> <=> SeqOK(r))
    BY <1>4, <2>0 DEF ErrorIf
  <2>2. e2 \in Seq(ErrorOf(r)) /\ (e2 = <<>> <=> PreviousIdOK(r))
    BY <1>4, <2>0 DEF ErrorIf
  <2>3. e3 \in Seq(ErrorOf(r)) /\ (e3 = <<>> <=> PreviousChainHashOK(r))
    BY <1>4, <2>0 DEF ErrorIf
  <2>4. e4 \in Seq(ErrorOf(r)) /\ (e4 = <<>> <=> IdOK(r))
    BY <1>4, <2>0 DEF ErrorIf
  <2>5. e5 \in Seq(ErrorOf(r)) /\ (e5 = <<>> <=> ChainHashOK(r))
    BY <1>4, <2>0 DEF ErrorIf
  <2>6. e6 \in Seq(ErrorOf(r)) /\ (e6 = <<>> <=> (r.hmac # Nil => HmacOK(r)))
    BY <1>4, <2>0 DEF ErrorIf
  <2>7. e7 \in Seq(ErrorOf(r)) /\ (e7 = <<>> <=> ~(r.hmac = Nil /\ strict))
    BY <1>4, <2>0 DEF ErrorIf
  <2> QED  BY <2>1, <2>2, <2>3, <2>4, <2>5, <2>6, <2>7
<1> HIDE DEF e1, e2, e3, e4, e5, e6, e7
<1>6. \A s, t \in Seq(ErrorOf(r)) :
         s \o t \in Seq(ErrorOf(r)) /\ (s \o t = <<>> <=> s = <<>> /\ t = <<>>)
  BY ConcatProperties, ConcatEqualIffEmpty
<1>7. /\ ErrorsOf(r) \in Seq(ErrorOf(r))
      /\ ErrorsOf(r) = <<>> <=>
            /\ e1 = <<>> /\ e2 = <<>> /\ e3 = <<>> /\ e4 = <<>>
            /\ e5 = <<>> /\ e6 = <<>> /\ e7 = <<>>
  <2>1. ErrorsOf(r) = e1 \o e2 \o e3 \o e4 \o e5 \o e6 \o e7
    BY DEF ErrorsOf, e1, e2, e3, e4, e5, e6, e7
  <2> QED  BY <1>5, <1>6, <2>1
<1>8. ErrorsOf(r) = <<>> <=>
         Intact(r) /\ (IF r.hmac = Nil THEN ~strict ELSE HmacOK(r))
  BY <1>5, <1>7 DEF Intact, LinkageOK
<1> QED
  BY <1>1, <1>7, <1>8, HmacCheck, StructureChecks DEF AcceptableAt, Acceptable

\* Whether a record is acceptable depends on the inputs alone.
LEMMA InputsDecide ==
    ASSUME UNCHANGED inputs, NEW i \in Int
    PROVE  AcceptableAt(i)' <=> AcceptableAt(i)
BY DEF inputs, AcceptableAt

-----------------------------------------------------------------------------
\* Verify's state before its loop, whatever it was called with.
Called ==
    /\ StartOfWalk
    /\ IsChain(records) /\ bundle \in KeyBundle
    /\ kek \in Keks \union {Nil} /\ strict \in BOOLEAN

LEMMA StartInv == Called => Inv
<1> SUFFICES ASSUME Called PROVE Inv
  OBVIOUS
<1> USE DEF Called
<1>1. Len(records) \in Nat
  BY DEF IsChain
<1>2. TypeOK
  BY <1>1, RecordAssumption DEF StartOfWalk, TypeOK, EmptyCache, Numbers
<1>3. Carried
  BY RecordAssumption DEF StartOfWalk, Carried, Predecessor, Successor
<1>4. CacheCoherent /\ CacheRemembers
  BY DEF StartOfWalk, CacheCoherent, Coherent, EmptyCache, CacheRemembers, LookedUp
<1>5. ErrorsSoFar /\ Blamed /\ StatusesAreLocal /\ KeyStateFollowsLookups /\ ResultOfAll
  BY DEF StartOfWalk, ErrorsSoFar, Blamed, StatusesAreLocal, KeyStateFollowsLookups, ResultOfAll
<1> QED  BY <1>2, <1>3, <1>4, <1>5 DEF Inv

LEMMA InitInv == Init => Inv
BY StartInv, ChainsAssumption, KeysAssumption DEF Init, Called

(***************************************************************************)
(* One iteration of the loop: the new status and the new errors are those  *)
(* of record walked + 1, the earlier ones stay.                            *)
(***************************************************************************)
LEMMA VerifyRecordInv == Inv /\ VerifyRecord => Inv'
<1> SUFFICES ASSUME Inv, VerifyRecord PROVE Inv'
  OBVIOUS
<1> USE DEF Inv
<1>0. PICK i \in Int : i = walked + 1
  BY DEF TypeOK
<1> DEFINE r == records[i]
<1>1. /\ r \in Record /\ i \in 1 .. Len(records) /\ i \in DOMAIN records
      /\ records \in Seq(Record) /\ walked \in Nat
      /\ walked < Len(records) /\ walked' = i /\ UNCHANGED inputs
      /\ records' = records /\ bundle' = bundle /\ kek' = kek
  BY <1>0, NextRecord DEF VerifyRecord, TypeOK, inputs
<1>2. \A j \in Int : AcceptableAt(j)' <=> AcceptableAt(j)
  BY <1>1, InputsDecide
<1>3. /\ Resolved(r).key \in Deks \union {Nil}
      /\ Resolved(r).state \in KeyStates \union {NoState}
      /\ (r.hmac # Nil /\ HmacOK(r)) <=> Signed(records[i], bundle, kek)
  BY <1>1, HmacCheck
<1>4. /\ LinkageOK(r) <=> Follows(records, i)
      /\ Intact(r) <=> Sound(records, i)
  BY <1>0, <1>1, StructureChecks
<1>5. /\ ErrorsOf(r) \in Seq(ErrorOf(r)) /\ ErrorsOf(r) \in Seq(RecordError)
      /\ ErrorsOf(r) = <<>> <=> AcceptableAt(i)
  <2>1. ErrorOf(r) \subseteq RecordError
    BY DEF ErrorOf
  <2> QED  BY <1>0, <1>1, <2>1, ErrorsOfNext, SeqMonotonic
<1>6. StatusOf(r) \in RecordStatus
  <2>1. Attestation(r) \in {"attested", "unattested", "failed"}
    BY DEF Attestation
  <2>2. /\ IdOK(r) \in BOOLEAN /\ ChainHashOK(r) \in BOOLEAN
        /\ LinkageOK(r) \in BOOLEAN
    BY DEF IdOK, ChainHashOK, LinkageOK
  <2> QED  BY <1>3, <2>1, <2>2 DEF StatusOf, RecordStatus
<1>7. /\ cache' \in [KeyIds -> Deks \union {Nil}]
      /\ CacheCoherent' /\ CacheRemembers'
  <2>0. \A keyId : LookedUp(keyId, i)' <=>
           LookedUp(keyId, walked) \/ (Resolves(r) /\ r.key_id = keyId)
    BY <1>0, <1>1 DEF LookedUp, Resolves
  <2>1. CASE Resolves(r)
    <3>1. r.key_id \in KeyIds
      BY <1>1, <2>1 DEF Record, Resolves
    <3>2. cache' = CacheAfter(cache, r.key_id,
                              ResolveByID(bundle, kek, cache, r.key_id))
      BY <1>0, <2>1 DEF VerifyRecord, Resolved
    <3>3. cache' \in [KeyIds -> Deks \union {Nil}] /\ Coherent(bundle, kek, cache')
      BY <3>1, <3>2, CacheStaysCoherent DEF TypeOK, CacheCoherent
    <3> DEFINE key == ResolveByID(bundle, kek, cache, r.key_id).key
    <3>4. key # Nil <=> Usable(bundle, kek, r.key_id)
      BY <3>1, ResolveProperties DEF TypeOK, CacheCoherent
    <3>5. cache' = IF key = Nil THEN cache ELSE [cache EXCEPT ![r.key_id] = key]
      BY <3>2 DEF CacheAfter
    <3> HIDE DEF key
    <3>6. cache'[r.key_id] # Nil <=> Usable(bundle, kek, r.key_id)
      BY <3>1, <3>4, <3>5 DEF TypeOK, CacheRemembers
    <3>7. \A keyId \in KeyIds : keyId # r.key_id => cache'[keyId] = cache[keyId]
      BY <3>5 DEF TypeOK
    <3>8. \A keyId \in KeyIds :
             cache'[keyId] # Nil <=> Usable(bundle, kek, keyId) /\ LookedUp(keyId, i)'
      BY <2>0, <2>1, <3>6, <3>7 DEF CacheRemembers
    <3> QED  BY <1>1, <3>3, <3>8 DEF CacheCoherent, CacheRemembers, inputs
  <2>2. CASE ~Resolves(r)
    <3>1. cache' = cache
      BY <1>0, <2>2 DEF VerifyRecord
    <3>2. \A keyId \in KeyIds :
             cache'[keyId] # Nil <=> Usable(bundle, kek, keyId) /\ LookedUp(keyId, i)'
      BY <2>0, <2>2, <3>1 DEF CacheRemembers
    <3> QED  BY <1>1, <3>1, <3>2 DEF CacheCoherent, CacheRemembers, TypeOK, inputs
  <2> QED  BY <2>1, <2>2
<1>8. /\ errors' \in Seq(RecordError)
      /\ errors' = <<>> <=> errors = <<>> /\ ErrorsOf(r) = <<>>
  <2>1. errors' = errors \o ErrorsOf(r) /\ errors \in Seq(RecordError)
    BY <1>0 DEF VerifyRecord, TypeOK
  <2> QED  BY <1>5, <2>1, ConcatProperties, ConcatEqualIffEmpty
<1>9. /\ statuses' \in Seq(RecordStatus)
      /\ Len(statuses') = i
      /\ statuses'[i] = StatusOf(r)
      /\ \A j \in 1 .. walked : statuses'[j] = statuses[j]
  BY <1>0, <1>1, <1>6 DEF VerifyRecord, TypeOK
<1>10. TypeOK'
  <2>1. /\ prevChainHash' \in Texts /\ prevID' \in Texts
        /\ expectedSeq' \in Numbers
    BY <1>0, <1>1, RecordAssumption DEF VerifyRecord, Record, Numbers, Successor
  <2> QED  BY <1>1, <1>7, <1>8, <1>9, <2>1 DEF VerifyRecord, TypeOK, inputs
<1>11. Carried'
  <2>1. Predecessor(records, walked' + 1) = r
    BY <1>0, <1>1 DEF Predecessor
  <2> QED  BY <1>0, <1>1, <1>2, <2>1 DEF VerifyRecord, Carried
<1>12. ErrorsSoFar'
  BY <1>0, <1>1, <1>2, <1>5, <1>8 DEF ErrorsSoFar
<1>13. StatusesAreLocal'
  <2>1. LocalStatus(StatusOf(r), records, i, bundle, kek)
    <3>1. /\ StatusOf(r).attestation = Attestation(r)
          /\ StatusOf(r).linkage_ok = LinkageOK(r)
          /\ StatusOf(r).hmac_ok = (r.hmac # Nil /\ HmacOK(r))
      BY DEF StatusOf
    <3>2. /\ Attestation(r) = "attested" <=> Intact(r) /\ r.hmac # Nil /\ HmacOK(r)
          /\ Attestation(r) = "unattested" <=> Intact(r) /\ r.hmac = Nil
      BY DEF Attestation
    <3> QED  BY <1>3, <1>4, <3>1, <3>2 DEF LocalStatus
  <2>2. \A j \in 1 .. walked : LocalStatus(statuses[j], records, j, bundle, kek)
    BY <1>1 DEF TypeOK, StatusesAreLocal
  <2>3. \A j \in 1 .. i : LocalStatus(statuses'[j], records, j, bundle, kek)
    BY <1>0, <1>1, <1>9, <2>1, <2>2
  <2>4. DOMAIN statuses' = 1 .. i
    BY <1>0, <1>9
  <2> QED  BY <1>1, <2>3, <2>4 DEF StatusesAreLocal
<1>14. ResultOfAll'
  BY <1>1 DEF VerifyRecord, ResultOfAll
<1>15. Blamed'
  <2>1. /\ errors' = errors \o ErrorsOf(r) /\ errors \in Seq(RecordError)
        /\ Len(errors) \in Nat /\ DOMAIN errors = 1 .. Len(errors)
        /\ Len(ErrorsOf(r)) \in Nat /\ DOMAIN ErrorsOf(r) = 1 .. Len(ErrorsOf(r))
    BY <1>0, <1>5 DEF VerifyRecord, TypeOK
  <2>2. /\ DOMAIN errors' = 1 .. Len(errors) + Len(ErrorsOf(r))
        /\ \A e \in 1 .. Len(errors) + Len(ErrorsOf(r)) :
              errors'[e] = IF e <= Len(errors) THEN errors[e] ELSE ErrorsOf(r)[e - Len(errors)]
    BY <1>5, <2>1, ConcatProperties, LenProperties
  <2>3. \A k \in DOMAIN ErrorsOf(r) : Blames(ErrorsOf(r)[k], i)
    BY <1>5, <2>1 DEF ErrorOf, Blames
  <2>4. \A e, j : Blames(e, j)' <=> Blames(e', j)
    BY <1>1 DEF Blames
  <2>5. ASSUME NEW e \in DOMAIN errors'
        PROVE  \E j \in 1 .. i : ~AcceptableAt(j) /\ Blames(errors'[e], j)
    <3>1. CASE e <= Len(errors)
      <4>1. e \in DOMAIN errors /\ errors'[e] = errors[e]
        BY <2>1, <2>2, <2>5, <3>1
      <4>2. PICK j \in 1 .. walked : ~AcceptableAt(j) /\ Blames(errors[e], j)
        BY <4>1 DEF Blamed
      <4>3. j \in 1 .. i
        BY <1>0, <1>1
      <4> QED  BY <4>1, <4>2, <4>3
    <3>2. CASE ~(e <= Len(errors))
      <4>1. e - Len(errors) \in DOMAIN ErrorsOf(r)
        BY <2>1, <2>2, <2>5, <3>2
      <4>2. Blames(errors'[e], i) /\ ErrorsOf(r) # <<>>
        BY <2>1, <2>2, <2>3, <2>5, <3>2, <4>1
      <4> QED  BY <1>0, <1>1, <1>5, <4>2
    <3> QED  BY <3>1, <3>2
  <2>6. ASSUME NEW j \in 1 .. i, ~AcceptableAt(j)
        PROVE  \E e \in DOMAIN errors' : Blames(errors'[e], j)
    <3>1. CASE j <= walked
      <4>0. j \in 1 .. walked
        BY <1>0, <1>1, <3>1
      <4>1. PICK e \in DOMAIN errors : Blames(errors[e], j)
        BY <2>6, <4>0 DEF Blamed
      <4>2. e \in DOMAIN errors' /\ errors'[e] = errors[e]
        BY <2>1, <2>2, <4>1
      <4> QED  BY <4>1, <4>2
    <3>2. CASE j = i
      <4>1. Len(ErrorsOf(r)) > 0
        BY <1>5, <2>1, <2>6, <3>2
      <4>2. Len(errors) + 1 \in DOMAIN errors' /\ errors'[Len(errors) + 1] = ErrorsOf(r)[1]
        BY <2>1, <2>2, <4>1
      <4>3. 1 \in DOMAIN ErrorsOf(r)
        BY <2>1, <4>1
      <4>4. Blames(ErrorsOf(r)[1], j)
        BY <2>3, <3>2, <4>3
      <4> QED  BY <4>2, <4>4
    <3> QED  BY <1>0, <1>1, <3>1, <3>2
  <2> QED  BY <1>1, <1>2, <2>5, <2>6 DEF Blamed, Blames
<1>16. KeyStateFollowsLookups'
  <2>1. statuses'[i].hmac_key_state = Resolved(r).state
    BY <1>9 DEF StatusOf
  <2>2. DueState(statuses'[i].hmac_key_state, i)
    BY <1>0, <1>1, <2>1, ResolvedState
  <2>3. \A j \in 1 .. walked : DueState(statuses'[j].hmac_key_state, j)
    <3>1. \A j \in DOMAIN statuses : DueState(statuses[j].hmac_key_state, j)
      BY DEF KeyStateFollowsLookups
    <3>2. DOMAIN statuses = 1 .. walked
      BY DEF TypeOK
    <3> QED  BY <1>9, <3>1, <3>2
  <2>4. DOMAIN statuses' = 1 .. i
    BY <1>0, <1>9
  <2>5. \A j \in DOMAIN statuses' : DueState(statuses'[j].hmac_key_state, j)
    BY <1>0, <1>1, <2>2, <2>3, <2>4
  <2> QED  BY <1>1, <2>5 DEF KeyStateFollowsLookups, DueState, LookedUp, Resolves
<1> QED  BY <1>7, <1>10, <1>11, <1>12, <1>13, <1>14, <1>15, <1>16

LEMMA ReturnInv == Inv /\ Return => Inv'
<1> SUFFICES ASSUME Inv, Return PROVE Inv'
  OBVIOUS
<1> USE DEF Inv
<1>1. /\ UNCHANGED <<inputs, cache, walked, carried, errors, statuses>>
      /\ walked = Len(records)
      /\ result' = [ok       |-> errors = <<>>,
                    verified |-> Len(records) - CountSeqsWithErrors]
  BY DEF Return
<1>2. \A j \in Int : AcceptableAt(j)' <=> AcceptableAt(j)
  BY <1>1, InputsDecide
<1>3. CountSeqsWithErrors \in Int
  <2>1. errors \in Seq(RecordError)
    BY DEF TypeOK
  <2>2. Len(errors) \in Nat /\ DOMAIN errors = 1 .. Len(errors)
    BY <2>1
  <2>3. IsFiniteSet(DOMAIN errors)
    BY <2>2, FS_Interval
  <2>4. IsFiniteSet({errors[e].seq : e \in DOMAIN errors})
    <3> DEFINE seqOf == [e \in DOMAIN errors |-> errors[e].seq]
               seqs == {errors[e].seq : e \in DOMAIN errors}
    <3>1. seqOf \in Surjection(DOMAIN errors, seqs)
      BY DEF Surjection
    <3> QED  BY <2>3, <3>1, FS_Surjection
  <2> QED  BY <2>4, FS_CardinalityType DEF CountSeqsWithErrors
<1>4. Len(records) \in Nat
  BY DEF TypeOK, IsChain
<1>5. TypeOK'
  BY <1>1, <1>3, <1>4 DEF TypeOK, inputs, carried
<1>6. Carried'
  BY <1>1 DEF Carried, carried, inputs
<1>7. CacheCoherent' /\ CacheRemembers'
  BY <1>1 DEF CacheCoherent, CacheRemembers, LookedUp, Resolves, inputs
<1>8. ErrorsSoFar'
  BY <1>1, <1>2 DEF ErrorsSoFar
<1>9. StatusesAreLocal'
  <2>1. DOMAIN statuses \subseteq Int
    BY DEF TypeOK
  <2> QED  BY <1>1, <1>2, <2>1 DEF StatusesAreLocal, inputs
<1>10. ResultOfAll'
  BY <1>1 DEF ResultOfAll, inputs, CountSeqsWithErrors
<1>11. Blamed' /\ KeyStateFollowsLookups'
  <2>1. 1 .. walked \subseteq Int
    BY DEF TypeOK
  <2> QED  BY <1>1, <1>2, <2>1 DEF Blamed, Blames, KeyStateFollowsLookups, DueState, LookedUp, Resolves, inputs
<1> QED  BY <1>5, <1>6, <1>7, <1>8, <1>9, <1>10, <1>11

LEMMA StutterInv == Inv /\ UNCHANGED vars => Inv'
<1> SUFFICES ASSUME Inv, UNCHANGED vars PROVE Inv'
  OBVIOUS
<1> USE DEF Inv
<1>1. UNCHANGED <<inputs, cache, walked, carried, errors, statuses, result>>
  BY DEF vars
<1>2. \A j \in Int : AcceptableAt(j)' <=> AcceptableAt(j)
  BY <1>1, InputsDecide
<1>3. TypeOK' /\ CacheCoherent' /\ ResultOfAll'
  BY <1>1 DEF TypeOK, CacheCoherent, ResultOfAll, CountSeqsWithErrors, inputs, carried
<1>4. Carried' /\ CacheRemembers'
  BY <1>1 DEF Carried, CacheRemembers, LookedUp, Resolves, carried, inputs
<1>5. ErrorsSoFar'
  BY <1>1, <1>2 DEF ErrorsSoFar
<1>6. StatusesAreLocal'
  <2>1. DOMAIN statuses \subseteq Int
    BY DEF TypeOK
  <2> QED  BY <1>1, <1>2, <2>1 DEF StatusesAreLocal, inputs
<1>7. Blamed' /\ KeyStateFollowsLookups'
  <2>1. 1 .. walked \subseteq Int
    BY DEF TypeOK
  <2> QED  BY <1>1, <1>2, <2>1 DEF Blamed, Blames, KeyStateFollowsLookups, DueState, LookedUp, Resolves, inputs
<1> QED  BY <1>3, <1>4, <1>5, <1>6, <1>7

\* The invariant holds throughout every walk.
THEOREM Invariance == Spec => []Inv
<1>1. Inv /\ [Next]_vars => Inv'
  BY VerifyRecordInv, ReturnInv, StutterInv DEF Next
<1> QED  BY <1>1, InitInv, PTL DEF Spec

-----------------------------------------------------------------------------
(***************************************************************************)
(* Every variable of Verify keeps its type, whatever chain, bundle and KEK *)
(* it is given.                                                            *)
(***************************************************************************)
THEOREM TypeCorrect == Spec => []TypeOK
<1>1. Inv => TypeOK
  BY DEF Inv
<1> QED  BY <1>1, Invariance, PTL

LEMMA AcceptedIffValid == Inv => OkIffValid
<1> SUFFICES ASSUME Inv, result # Nil
             PROVE  result.ok <=> \A i \in DOMAIN records : AcceptableAt(i)
  BY DEF OkIffValid
<1>1. records \in Seq(Record)
  BY DEF Inv, TypeOK, IsChain
<1>2. DOMAIN records = 1 .. walked
  BY <1>1 DEF Inv, ResultOfAll
<1> QED  BY <1>2 DEF Inv, ResultOfAll, ErrorsSoFar

(***************************************************************************)
(* Verify accepts a chain if and only if it is valid: the walk of          *)
(* chain.go:156-270 is sound and complete for the declarative definition.  *)
(***************************************************************************)
THEOREM VerifySoundAndComplete == Spec => []OkIffValid
BY AcceptedIffValid, Invariance, PTL

(***************************************************************************)
(* The status reported for a record is decided by the record, its          *)
(* predecessor and the bundle: neither earlier failures nor the resolver's *)
(* cache change it (chain.go:247-265, keys.go:191-210).                    *)
(***************************************************************************)
THEOREM StatusesDecidedLocally == Spec => []StatusesAreLocal
<1>1. Inv => StatusesAreLocal
  BY DEF Inv
<1> QED  BY <1>1, Invariance, PTL

-----------------------------------------------------------------------------
\* An accepted chain is sound.
LEMMA AcceptedChainIsSound ==
    ASSUME Inv, result # Nil, result.ok
    PROVE  SoundChain(records)
<1>1. IsChain(records) /\ records \in Seq(Record)
  BY DEF Inv, TypeOK, IsChain
<1>2. DOMAIN records = 1 .. walked
  BY <1>1 DEF Inv, ResultOfAll
<1>3. \A i \in DOMAIN records : AcceptableAt(i)
  BY <1>2 DEF Inv, ResultOfAll, ErrorsSoFar
<1> QED  BY <1>1, <1>3 DEF SoundChain, AcceptableAt, Acceptable

(***************************************************************************)
(* An accepted chain is complete up to its last record: its records carry  *)
(* the numbers 1 .. n in order, and no id or chain_hash repeats.  The      *)
(* wrap-around of expectedSeq = r.Seq + 1 (chain.go:265) is out of reach   *)
(* of an accepted chain because a slice is no longer than MaxInt.          *)
(***************************************************************************)
THEOREM AcceptedChainIsNumbered == Spec => []OkIsNumbered
<1>1. Inv => OkIsNumbered
  <2> SUFFICES ASSUME Inv, result # Nil, result.ok
               PROVE  /\ \A i \in DOMAIN records : records[i].seq = i
                      /\ IsInjective([i \in DOMAIN records |-> records[i].id])
                      /\ IsInjective([i \in DOMAIN records |-> records[i].chain_hash])
    BY DEF OkIsNumbered
  <2>1. SoundChain(records)
    BY AcceptedChainIsSound
  <2>2. \A i \in DOMAIN records : records[i].seq = i /\ SelfConsistent(records[i])
    BY <2>1, SoundChainIsNumbered DEF SoundChain, Sound
  <2>3. \A i, j \in DOMAIN records : records[i].id = records[j].id => i = j
    <3> SUFFICES ASSUME NEW i \in DOMAIN records, NEW j \in DOMAIN records,
                        records[i].id = records[j].id
                 PROVE  i = j
      OBVIOUS
    <3>1. CanonicalPayload(records[i]) = CanonicalPayload(records[j])
      BY <2>2, IdCommits
    <3>2. CanonicalPayload(records[i]).seq = i /\ CanonicalPayload(records[j]).seq = j
      BY <2>2 DEF CanonicalPayload
    <3> QED  BY <3>1, <3>2
  <2>4. \A i, j \in DOMAIN records :
           records[i].chain_hash = records[j].chain_hash => records[i].id = records[j].id
    BY <2>2, ChainHashCommits
  <2> QED  BY <2>2, <2>3, <2>4 DEF IsInjective
<1> QED  BY <1>1, Invariance, PTL
-----------------------------------------------------------------------------
(***************************************************************************)
(* At every moment of the walk the errors name the unacceptable records    *)
(* walked so far and no others, by seq and id (chain.go:156-270): a        *)
(* failure neither hides the next one nor is charged to it.                *)
(***************************************************************************)
THEOREM UnacceptableAreNamed == Spec => []ErrorsNameTheUnacceptable
<1>1. Inv => ErrorsNameTheUnacceptable
  <2> SUFFICES ASSUME Inv PROVE ErrorsNameTheUnacceptable
    OBVIOUS
  <2> DEFINE NameOf(x) == [seq |-> x.seq, id |-> x.id]
             named == {NameOf(errors[e]) : e \in DOMAIN errors}
             bad == {j \in 1 .. walked : ~AcceptableAt(j)}
             unacceptable == {NameOf(records[i]) : i \in bad}
  <2>1. \A e \in DOMAIN errors : \E i \in bad : Blames(errors[e], i)
    BY DEF Inv, Blamed
  <2>2. \A i \in bad : \E e \in DOMAIN errors : Blames(errors[e], i)
    BY DEF Inv, Blamed
  <2>3. \A e, i : Blames(e, i) => NameOf(e) = NameOf(records[i])
    BY DEF Blames
  <2> HIDE DEF NameOf, bad
  <2>4. named \subseteq unacceptable /\ unacceptable \subseteq named
    BY <2>1, <2>2, <2>3
  <2> QED  BY <2>4 DEF ErrorsNameTheUnacceptable, NameOf, bad
<1> QED  BY <1>1, Invariance, PTL

(***************************************************************************)
(* The key_state in a record's status is that of its own key in keys.json: *)
(* of the first record there if the DEK has to be unwrapped, of the last   *)
(* one if an earlier lookup has done so (keys.go:165-210).  The cache is   *)
(* filled by lookups that unwrap and by no others.                         *)
(***************************************************************************)
THEOREM KeyStatesAreDue == Spec => []KeyStateFollowsLookups
<1>1. Inv => KeyStateFollowsLookups
  BY DEF Inv
<1> QED  BY <1>1, Invariance, PTL

(***************************************************************************)
(* countSeqsWithErrors tells records apart by their seq.  The seqs of the  *)
(* errors are an image of the unacceptable records, so there are no more   *)
(* of them, and as many exactly if no two of these records share a seq.    *)
(***************************************************************************)
LEMMA SeqsWithErrors ==
    ASSUME Inv, result # Nil
    PROVE  LET bad == {i \in DOMAIN records : ~AcceptableAt(i)}
           IN  /\ IsFiniteSet(bad)
               /\ CountSeqsWithErrors \in Nat
               /\ CountSeqsWithErrors <= Cardinality(bad)
               /\ IsInjective([i \in DOMAIN records |-> records[i].seq])
                     => CountSeqsWithErrors = Cardinality(bad)
<1> DEFINE bad == {i \in DOMAIN records : ~AcceptableAt(i)}
           seqs == {errors[e].seq : e \in DOMAIN errors}
           seqOf == [i \in bad |-> records[i].seq]
<1>1. DOMAIN records = 1 .. walked /\ walked \in Nat
  BY DEF Inv, ResultOfAll, TypeOK, IsChain
<1>2. IsFiniteSet(bad)
  <2>1. IsFiniteSet(DOMAIN records)
    BY <1>1, FS_Interval
  <2> QED  BY <2>1, FS_Subset
<1>3. seqOf \in Surjection(bad, seqs)
  <2>1. \A i \in bad : records[i].seq \in seqs
    BY <1>1 DEF Inv, Blamed, Blames
  <2>2. \A q \in seqs : \E i \in bad : records[i].seq = q
    BY <1>1 DEF Inv, Blamed, Blames
  <2> HIDE DEF bad, seqs
  <2> QED  BY <2>1, <2>2 DEF Surjection
<1>4. /\ IsFiniteSet(seqs) /\ Cardinality(seqs) <= Cardinality(bad)
      /\ Cardinality(seqs) = Cardinality(bad) <=> seqOf \in Injection(bad, seqs)
  BY <1>2, <1>3, FS_Surjection
<1>5. ASSUME IsInjective([i \in DOMAIN records |-> records[i].seq])
      PROVE  seqOf \in Injection(bad, seqs)
  BY <1>3, <1>5 DEF Injection, IsInjective, Surjection
<1>6. Cardinality(seqs) \in Nat
  BY <1>4, FS_CardinalityType
<1> QED  BY <1>2, <1>4, <1>5, <1>6 DEF CountSeqsWithErrors

(***************************************************************************)
(* The count of verified records (chain.go:268, 273-283) never falls below *)
(* the number of acceptable ones, nor does it exceed the records; when no  *)
(* two records claim one seq it is exact.                                  *)
(***************************************************************************)
THEOREM VerifiedIsCounted == Spec => []VerifiedCount
<1>1. Inv => VerifiedCount
  <2> SUFFICES ASSUME Inv, result # Nil
               PROVE  LET good == Cardinality({i \in DOMAIN records : AcceptableAt(i)})
                      IN  /\ good <= result.verified /\ result.verified <= Len(records)
                          /\ IsInjective([i \in DOMAIN records |-> records[i].seq])
                                => result.verified = good
    BY DEF VerifiedCount
  <2> DEFINE bad == {i \in DOMAIN records : ~AcceptableAt(i)}
             good == {i \in DOMAIN records : AcceptableAt(i)}
  <2>1. Len(records) \in Nat /\ DOMAIN records = 1 .. Len(records)
    BY DEF Inv, TypeOK, IsChain
  <2>2. IsFiniteSet(DOMAIN records) /\ Cardinality(DOMAIN records) = Len(records)
    <3>1. /\ IsFiniteSet(1 .. Len(records))
          /\ Cardinality(1 .. Len(records)) =
                IF 1 > Len(records) THEN 0 ELSE Len(records) - 1 + 1
      BY <2>1, FS_Interval
    <3> QED  BY <2>1, <3>1
  <2>3. /\ IsFiniteSet(bad) /\ CountSeqsWithErrors \in Nat
        /\ CountSeqsWithErrors <= Cardinality(bad)
        /\ IsInjective([i \in DOMAIN records |-> records[i].seq])
              => CountSeqsWithErrors = Cardinality(bad)
    BY SeqsWithErrors
  <2>4. Cardinality(good) = Len(records) - Cardinality(bad)
    <3>1. good = DOMAIN records \ bad /\ DOMAIN records \cap bad = bad
      OBVIOUS
    <3> HIDE DEF good, bad
    <3>2. Cardinality(DOMAIN records \ bad) =
             Cardinality(DOMAIN records) - Cardinality(DOMAIN records \cap bad)
      BY <2>2, FS_Difference
    <3> QED  BY <2>2, <3>1, <3>2
  <2>5. Cardinality(bad) \in Nat
    BY <2>3, FS_CardinalityType
  <2>6. result.verified = Len(records) - CountSeqsWithErrors
    BY DEF Inv, ResultOfAll
  <2> HIDE DEF bad, good
  <2>7. /\ Cardinality(good) <= result.verified /\ result.verified <= Len(records)
        /\ IsInjective([i \in DOMAIN records |-> records[i].seq])
              => result.verified = Cardinality(good)
    BY <2>1, <2>3, <2>4, <2>5, <2>6
  <2> QED  BY <2>7 DEF good
<1> QED  BY <1>1, Invariance, PTL
=============================================================================
