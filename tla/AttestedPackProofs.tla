-------------------------- MODULE AttestedPackProofs --------------------------
(***************************************************************************)
(* What an attested record stands for, for every chain, every key and any  *)
(* number of changes on the way.                                           *)
(*                                                                         *)
(* The digests are taken to be ideal: they are terms, and DigestsAreTexts  *)
(* says that every digest of texts is a text again.  AttestedIsWritten is  *)
(* not inductive; the invariant says who can have made an hmac or an       *)
(* envelope of the pack while it was on the way.                           *)
(***************************************************************************)
EXTENDS AttestedPack, ChainVerifyProofs

Payloads ==
    [seq : Numbers, body : Bodies, previous_id : Texts \union {Nil},
     previous_chain_hash : Texts]

DigestsAreTexts ==
    /\ \A p \in Payloads : IdOf(p) \in Texts
    /\ \A t, u \in Texts : ChainHashOf(t, u) \in Texts
    /\ \A k \in Deks : \A t, u \in Texts : MacOf(k, t, u) \in Texts

\* What the daemon writes: an hmac is over the record's own id and chain_hash,
\* with the DEK that its key_id names if it has one.
DaemonRecord ==
    {r \in Record :
        /\ r.hmac = Nil \/ \E d \in DaemonDeks : r.hmac = MacOf(d, r.id, r.chain_hash)
        /\ r.key_id # Nil => r.hmac = MacOf(DekOf[r.key_id], r.id, r.chain_hash)}

\* An hmac that can be in the pack: none, the daemon's, one with another key.
Obtainable ==
    {Nil} \union {written[n].hmac : n \in DOMAIN written}
          \union ({"mac"} \X ForeignDeks \X Texts \X Texts)

SharedRecord == {r \in Record : r.hmac \in Obtainable}

\* An envelope that opens with the workspace KEK holds one of the daemon's DEKs.
SharedKey ==
    {k \in KeyRecord :
        Opens(k.envelope, WorkspaceKek) => k.envelope.dek \in DaemonDeks}

WrittenChain ==
    /\ written \in Seq(DaemonRecord) /\ SoundChain(written)
    /\ Len(written) <= MaxRecords

OnTheWay ==
    /\ shared \in Seq(SharedRecord) /\ Len(shared) <= MaxRecords + changes
    /\ bundle \in Seq(SharedKey) \union {Nil}
    /\ changes \in 0 .. MaxChanges
    /\ stage \in {"writing", "shared", "walking"}
    /\ stage = "writing" => shared = <<>> /\ bundle = Nil /\ changes = 0
    /\ stage # "walking" => Called /\ records = <<>>
    /\ stage = "walking" => records = shared /\ kek \in {WorkspaceKek, Nil}

PackInv == Inv /\ WrittenChain /\ OnTheWay

-----------------------------------------------------------------------------
(***************************************************************************)
(* Lists that lose or gain an entry.                                       *)
(***************************************************************************)
LEMMA RemoveAtIsShorter ==
    ASSUME NEW S, NEW s \in Seq(S), NEW n \in 1 .. Len(s)
    PROVE  RemoveAt(s, n) \in Seq(S) /\ Len(RemoveAt(s, n)) <= Len(s)
<1>1. /\ SubSeq(s, 1, n - 1) \in Seq(S) /\ Len(SubSeq(s, 1, n - 1)) = n - 1
      /\ SubSeq(s, n + 1, Len(s)) \in Seq(S) /\ Len(SubSeq(s, n + 1, Len(s))) = Len(s) - n
  BY SubSeqProperties
<1> DEFINE a == SubSeq(s, 1, n - 1)
           b == SubSeq(s, n + 1, Len(s))
<1>2. a \o b \in Seq(S) /\ Len(a \o b) = Len(a) + Len(b)
  BY <1>1, ConcatProperties
<1>3. RemoveAt(s, n) = a \o b
  BY DEF RemoveAt
<1>4. Len(s) \in Nat /\ Len(a) = n - 1 /\ Len(b) = Len(s) - n
  BY <1>1
<1> HIDE DEF a, b
<1> QED  BY <1>2, <1>3, <1>4

LEMMA InsertAtIsLonger ==
    ASSUME NEW S, NEW s \in Seq(S), NEW n \in 1 .. Len(s) + 1, NEW e \in S
    PROVE  InsertAt(s, n, e) \in Seq(S) /\ Len(InsertAt(s, n, e)) = Len(s) + 1
<1>1. /\ SubSeq(s, 1, n - 1) \in Seq(S) /\ Len(SubSeq(s, 1, n - 1)) = n - 1
      /\ SubSeq(s, n, Len(s)) \in Seq(S) /\ Len(SubSeq(s, n, Len(s))) = Len(s) - n + 1
  BY SubSeqProperties
<1>2. <<e>> \in Seq(S) /\ Len(<<e>>) = 1
  OBVIOUS
<1> DEFINE a == SubSeq(s, 1, n - 1)
           b == SubSeq(s, n, Len(s))
<1>3. a \o <<e>> \in Seq(S) /\ Len(a \o <<e>>) = Len(a) + 1
  BY <1>1, <1>2, ConcatProperties
<1>4. /\ (a \o <<e>>) \o b \in Seq(S)
      /\ Len((a \o <<e>>) \o b) = Len(a \o <<e>>) + Len(b)
  BY <1>1, <1>3, ConcatProperties
<1>5. InsertAt(s, n, e) = (a \o <<e>>) \o b
  BY DEF InsertAt
<1>6. Len(s) \in Nat /\ Len(a) = n - 1 /\ Len(b) = Len(s) - n + 1
  BY <1>1
<1> HIDE DEF a, b
<1> QED  BY <1>3, <1>4, <1>5, <1>6

-----------------------------------------------------------------------------
(***************************************************************************)
(* Sealing and hashing anew: what comes out is a record, and its digests   *)
(* are those of its content.                                               *)
(***************************************************************************)
LEMMA SealedRecord ==
    ASSUME DigestsAreTexts, NEW seq \in Numbers, NEW body \in Bodies,
           NEW lastID \in Texts \union {Nil}, NEW lastChainHash \in Texts
    PROVE  LET r == Seal(seq, body, lastID, lastChainHash)
           IN  /\ r \in Record /\ SelfConsistent(r) /\ r.hmac = Nil /\ r.key_id = Nil
               /\ r.seq = seq /\ r.previous_id = lastID
               /\ r.previous_chain_hash = lastChainHash
<1> DEFINE payload == [seq |-> seq, body |-> body, previous_id |-> lastID,
                       previous_chain_hash |-> lastChainHash]
           id == IdOf(payload)
           r == Seal(seq, body, lastID, lastChainHash)
<1>1. payload \in Payloads
  BY DEF Payloads
<1>2. id \in Texts /\ ChainHashOf(lastChainHash, id) \in Texts
  BY <1>1 DEF DigestsAreTexts
<1>3. r = [seq |-> seq, body |-> body, previous_id |-> lastID,
           previous_chain_hash |-> lastChainHash, id |-> id,
           chain_hash |-> ChainHashOf(lastChainHash, id), hmac |-> Nil, key_id |-> Nil]
  BY DEF Seal
<1> HIDE DEF id
<1>4. r \in Record
  BY <1>2, <1>3 DEF Record
<1>5. CanonicalPayload(r) = payload
  BY <1>3 DEF CanonicalPayload
<1>6. SelfConsistent(r)
  BY <1>3, <1>5 DEF SelfConsistent, id
<1> QED  BY <1>3, <1>4, <1>6

LEMMA RehashedRecord ==
    ASSUME DigestsAreTexts, NEW r \in Record
    PROVE  Rehashed(r) \in Record /\ Rehashed(r).hmac = r.hmac
<1>1. CanonicalPayload(r) \in Payloads
  BY DEF CanonicalPayload, Payloads, Record
<1>2. /\ IdOf(CanonicalPayload(r)) \in Texts
      /\ ChainHashOf(r.previous_chain_hash, IdOf(CanonicalPayload(r))) \in Texts
  BY <1>1 DEF DigestsAreTexts, Record
<1> QED  BY <1>2 DEF Rehashed, Record

LEMMA RelinkedRecord ==
    ASSUME DigestsAreTexts, NEW r \in Record, NEW c \in Seq(Record),
           NEW n \in 1 .. Len(c) + 1
    PROVE  /\ Relinked(r, Predecessor(c, n)) \in Record
           /\ Relinked(r, Predecessor(c, n)).hmac = r.hmac
<1> DEFINE prev == Predecessor(c, n)
           q == [r EXCEPT !.seq = Successor(prev.seq), !.previous_id = prev.id,
                          !.previous_chain_hash = prev.chain_hash]
<1>1. /\ prev.seq \in Numbers /\ prev.id \in Texts \union {Nil}
      /\ prev.chain_hash \in Texts
  <2>1. CASE n = 1
    BY <2>1, RecordAssumption DEF Predecessor, Numbers
  <2>2. CASE n # 1
    <3>1. n - 1 \in 1 .. Len(c)
      BY <2>2
    <3>2. prev = c[n - 1] /\ c[n - 1] \in Record
      BY <2>2, <3>1 DEF Predecessor
    <3> QED  BY <3>2 DEF Record
  <2> QED  BY <2>1, <2>2
<1>2. Successor(prev.seq) \in Numbers
  BY <1>1, RecordAssumption DEF Successor, Numbers
<1> HIDE DEF prev
<1>3. q \in Record /\ q.hmac = r.hmac
  BY <1>1, <1>2 DEF Record
<1>4. Relinked(r, prev) = Rehashed(q)
  BY DEF Relinked
<1> QED  BY <1>3, <1>4, RehashedRecord DEF prev

-----------------------------------------------------------------------------
LEMMA CalledNext == Called' => Inv'
BY StartInv, PTL

LEMMA SharedTypes ==
    ASSUME OnTheWay
    PROVE  /\ shared \in Seq(Record) /\ Len(shared) \in Nat
           /\ Len(shared) <= MaxInt /\ IsChain(shared)
           /\ bundle \in KeyBundle
<1>1. SharedRecord \subseteq Record /\ SharedKey \subseteq KeyRecord
  BY DEF SharedRecord, SharedKey
<1>2. shared \in Seq(Record) /\ bundle \in Seq(KeyRecord) \union {Nil}
  BY <1>1, SeqMonotonic DEF OnTheWay
<1>3. Len(shared) \in Nat /\ Len(shared) <= MaxInt
  BY <1>2, AttestedPackAssumption, RecordAssumption DEF OnTheWay
<1> QED  BY <1>2, <1>3 DEF IsChain, KeyBundle

LEMMA AttestedInitInv == AttestedInit => PackInv
<1> SUFFICES ASSUME AttestedInit PROVE PackInv
  OBVIOUS
<1> USE DEF AttestedInit
<1>1. \A S : <<>> \in Seq(S)
  OBVIOUS
<1>2. Called
  <2>1. Len(<<>>) = 0 /\ 0 <= MaxInt
    BY RecordAssumption
  <2>2. IsChain(records)
    BY <1>1, <2>1 DEF IsChain
  <2> QED  BY <2>2 DEF Called, KeyBundle
<1>3. Inv
  BY <1>2, StartInv
<1>4. WrittenChain
  BY <1>1, AttestedPackAssumption, RecordAssumption DEF WrittenChain, SoundChain, IsChain
<1>5. OnTheWay
  BY <1>1, <1>2, AttestedPackAssumption DEF OnTheWay
<1> QED  BY <1>3, <1>4, <1>5 DEF PackInv

(***************************************************************************)
(* The daemon appends: the new record follows the last one, and its hmac   *)
(* is over its own digests.                                                *)
(***************************************************************************)
LEMMA AppendRecordInv ==
    ASSUME DigestsAreTexts, PackInv, AppendRecord
    PROVE  PackInv'
<1> USE DEF PackInv
<1>0. PICK n \in Nat : n = Len(written)
  BY DEF WrittenChain
<1>1. /\ written \in Seq(DaemonRecord) /\ written \in Seq(Record)
      /\ n + 1 <= MaxRecords /\ n + 1 \in Numbers /\ n + 1 <= MaxInt /\ n < MaxInt
      /\ \A i \in 1 .. n : Sound(written, i)
      /\ \A i \in 1 .. n : written[i].seq = i
  <2>1. DOMAIN written = 1 .. n
    BY <1>0 DEF WrittenChain
  <2>2. written \in Seq(DaemonRecord) /\ written \in Seq(Record)
    BY DEF WrittenChain, SoundChain, IsChain
  <2>3. \A i \in 1 .. n : Sound(written, i) /\ written[i].seq = i
    BY <2>1, SoundChainIsNumbered DEF WrittenChain, SoundChain
  <2>4. n < MaxRecords
    BY <1>0 DEF AppendRecord
  <2>5. /\ n + 1 <= MaxRecords /\ n + 1 \in Numbers /\ n + 1 <= MaxInt /\ n < MaxInt
    BY <2>4, AttestedPackAssumption, RecordAssumption DEF Numbers
  <2> QED  BY <2>2, <2>3, <2>5
<1>2. PICK body \in Bodies, signer \in KeyIds \union {"fallback", "none"} :
         written' = Append(written,
            LET r == IF written = <<>> THEN SealFirst(body)
                     ELSE SealAfter(written[Len(written)], body)
            IN  CASE signer \in KeyIds   -> Sign(r, DekOf[signer], signer)
                  [] signer = "fallback" -> SignWithFallback(r, FallbackKey)
                  [] signer = "none"     -> r)
  BY DEF AppendRecord
<1> DEFINE prev == Predecessor(written, n + 1)
           r == Seal(n + 1, body, prev.id, prev.chain_hash)
<1>3. /\ r \in Record /\ SelfConsistent(r) /\ r.hmac = Nil /\ r.key_id = Nil
      /\ r.seq = n + 1 /\ r.previous_id = prev.id
      /\ r.previous_chain_hash = prev.chain_hash
      /\ prev.seq = n
  <2>1. prev.id \in Texts \union {Nil} /\ prev.chain_hash \in Texts /\ prev.seq = n
    <3>1. CASE n = 0
      BY <3>1, RecordAssumption DEF Predecessor
    <3>2. CASE n # 0
      <4>1. n \in 1 .. n /\ n \in DOMAIN written
        BY <1>0, <1>1, <3>2
      <4>2. prev = written[n] /\ written[n] \in Record
        BY <1>1, <3>2, <4>1 DEF Predecessor
      <4> QED  BY <1>1, <4>1, <4>2 DEF Record
    <3> QED  BY <3>1, <3>2
  <2> HIDE DEF prev
  <2>2. body \in Bodies /\ n + 1 \in Numbers
    BY <1>1, <1>2
  <2>3. LET s == Seal(n + 1, body, prev.id, prev.chain_hash)
        IN  /\ s \in Record /\ SelfConsistent(s) /\ s.hmac = Nil /\ s.key_id = Nil
            /\ s.seq = n + 1 /\ s.previous_id = prev.id
            /\ s.previous_chain_hash = prev.chain_hash
    BY <2>1, <2>2, SealedRecord
  <2> QED  BY <2>1, <2>3
<1>4. r = IF written = <<>> THEN SealFirst(body) ELSE SealAfter(written[Len(written)], body)
  <2>1. CASE n = 0
    <3>1. written = <<>>
      BY <1>0, <1>1, <2>1, EmptySeq
    <3> QED  BY <2>1, <3>1 DEF Predecessor, SealFirst
  <2>2. CASE n # 0
    <3>1. written # <<>> /\ prev = written[n]
      BY <1>0, <2>2 DEF Predecessor
    <3> QED  BY <1>0, <1>3, <3>1 DEF SealAfter
  <2> QED  BY <2>1, <2>2
<1> HIDE DEF r, prev
<1>5. PICK q \in DaemonRecord :
         /\ written' = Append(written, q)
         /\ CanonicalPayload(q) = CanonicalPayload(r)
         /\ q.seq = r.seq /\ q.previous_id = r.previous_id
         /\ q.previous_chain_hash = r.previous_chain_hash
         /\ q.id = r.id /\ q.chain_hash = r.chain_hash
  <2>1. \A d \in DaemonDeks : d \in Deks /\ MacOf(d, r.id, r.chain_hash) \in Texts
    BY <1>3, AttestedPackAssumption DEF DaemonDeks, DigestsAreTexts, Record
  <2>2. CASE signer \in KeyIds
    <3> DEFINE q == Sign(r, DekOf[signer], signer)
    <3>1. DekOf[signer] \in DaemonDeks
      BY <2>2 DEF DaemonDeks
    <3>2. q \in DaemonRecord
      BY <1>3, <2>1, <2>2, <3>1 DEF Sign, DaemonRecord, Record
    <3>3. signer # "fallback" /\ signer # "none"
      BY <2>2, AttestedPackAssumption
    <3>4. written' = Append(written, q)
      BY <1>2, <1>4, <2>2, <3>3
    <3> QED  BY <1>3, <3>2, <3>4 DEF Sign, CanonicalPayload, Record
  <2>3. CASE signer = "fallback"
    <3> DEFINE q == SignWithFallback(r, FallbackKey)
    <3>1. FallbackKey \in DaemonDeks
      BY DEF DaemonDeks
    <3>2. q \in DaemonRecord
      BY <1>3, <2>1, <3>1 DEF SignWithFallback, DaemonRecord, Record
    <3>3. signer \notin KeyIds
      BY <2>3, AttestedPackAssumption
    <3>4. written' = Append(written, q)
      BY <1>2, <1>4, <2>3, <3>3
    <3> QED  BY <1>3, <3>2, <3>4 DEF SignWithFallback, CanonicalPayload, Record
  <2>4. CASE signer = "none"
    <3>1. r \in DaemonRecord
      BY <1>3 DEF DaemonRecord
    <3>2. signer \notin KeyIds
      BY <2>4, AttestedPackAssumption
    <3>3. written' = Append(written, r)
      BY <1>2, <1>4, <2>4, <3>2
    <3> QED  BY <3>1, <3>3
  <2> QED  BY <2>2, <2>3, <2>4
<1>6. /\ written' \in Seq(DaemonRecord) /\ written' \in Seq(Record)
      /\ Len(written') = n + 1 /\ written'[n + 1] = q
      /\ \A i \in 1 .. n : written'[i] = written[i]
  <2>1. q \in Record
    BY DEF DaemonRecord
  <2> QED  BY <1>0, <1>1, <1>5, <2>1, AppendProperties
<1>7. \A i \in 1 .. n + 1 : Sound(written', i)
  <2>1. \A i \in 1 .. n + 1 : Predecessor(written', i) = Predecessor(written, i)
    BY <1>6 DEF Predecessor
  <2>2. \A i \in 1 .. n : Sound(written', i)
    BY <1>1, <1>6, <2>1 DEF Sound, Follows
  <2>3. SelfConsistent(q)
    BY <1>3, <1>5 DEF SelfConsistent
  <2>4. Follows(written', n + 1)
    <3>1. Predecessor(written', n + 1) = prev
      BY <2>1 DEF prev
    <3>2. Successor(n) = n + 1
      BY <1>1, RecordAssumption DEF Successor
    <3> QED  BY <1>3, <1>5, <1>6, <3>1, <3>2 DEF Follows
  <2> QED  BY <1>6, <2>2, <2>3, <2>4 DEF Sound
<1>8. WrittenChain'
  <2>1. DOMAIN written' = 1 .. n + 1
    BY <1>6
  <2>2. SoundChain(written')
    BY <1>1, <1>6, <1>7, <2>1 DEF SoundChain, IsChain
  <2> QED  BY <1>1, <1>6, <2>2 DEF WrittenChain
<1>9. Inv'
  BY StutterInv DEF AppendRecord
<1>10. OnTheWay'
  <2>1. Called'
    BY DEF OnTheWay, AppendRecord, Called, StartOfWalk, vars, inputs, carried
  <2> QED  BY <2>1 DEF OnTheWay, AppendRecord, vars, inputs
<1> QED  BY <1>8, <1>9, <1>10

-----------------------------------------------------------------------------
(***************************************************************************)
(* Before the auditor starts only the pack changes: the verifier is as     *)
(* good as new whatever is in it.                                          *)
(***************************************************************************)
LEMMA PackStep ==
    ASSUME PackInv, stage # "walking", stage' = "shared",
           UNCHANGED <<written, records, kek, strict, cache, walked, carried,
                       errors, statuses, result>>,
           shared' \in Seq(SharedRecord), Len(shared') <= MaxRecords + changes',
           changes' \in 0 .. MaxChanges,
           bundle' \in Seq(SharedKey) \union {Nil}
    PROVE  PackInv'
<1> USE DEF PackInv
<1>1. bundle' \in KeyBundle
  <2>1. SharedKey \subseteq KeyRecord
    BY DEF SharedKey
  <2> QED  BY <2>1, SeqMonotonic DEF KeyBundle
<1>2. Called'
  BY <1>1 DEF OnTheWay, Called, StartOfWalk, carried
<1>3. Inv'
  BY <1>2, CalledNext
<1>4. WrittenChain'
  BY DEF WrittenChain
<1>5. SharedRecord' = SharedRecord
  BY DEF SharedRecord, Obtainable
<1>6. OnTheWay'
  BY <1>2, <1>5 DEF OnTheWay
<1> QED  BY <1>3, <1>4, <1>6

\* The key_ids used are finitely many.
LEMMA KeyIdsUsed ==
    ASSUME WrittenChain
    PROVE  IsFiniteSet(KeysUsed) /\ KeysUsed \subseteq KeyIds
<1>1. written \in Seq(Record) /\ DOMAIN written = 1 .. Len(written) /\ Len(written) \in Nat
  BY DEF WrittenChain, SoundChain, IsChain
<1> DEFINE idOf == [n \in DOMAIN written |-> written[n].key_id]
           ids == {written[n].key_id : n \in DOMAIN written}
<1>2. IsFiniteSet(DOMAIN written)
  BY <1>1, FS_Interval
<1>3. idOf \in Surjection(DOMAIN written, ids)
  BY DEF Surjection
<1>4. IsFiniteSet(ids)
  BY <1>2, <1>3, FS_Surjection
<1>5. KeysUsed \subseteq ids
  BY DEF KeysUsed
<1>6. \A n \in DOMAIN written : written[n].key_id \in KeyIds \union {Nil}
  <2>1. \A n \in DOMAIN written : written[n] \in Record
    BY <1>1
  <2> QED  BY <2>1 DEF Record
<1> QED  BY <1>4, <1>5, <1>6, FS_Subset DEF KeysUsed

\* What the daemon exports is what it wrote, with its own keys.
LEMMA ExportInv ==
    ASSUME PackInv, Export
    PROVE  PackInv'
<1> USE DEF PackInv
<1>1. stage = "writing" /\ shared' = written /\ stage' = "shared" /\ changes' = changes
  BY DEF Export
<1>2. changes = 0
  BY <1>1 DEF OnTheWay
<1>3. /\ written \in Seq(Record) /\ Len(written) \in Nat
      /\ DOMAIN written = 1 .. Len(written) /\ Len(written) <= MaxRecords
  BY DEF WrittenChain, SoundChain, IsChain
<1>4. written \in Seq(SharedRecord)
  <2>1. \A n \in 1 .. Len(written) : written[n] \in SharedRecord
    BY <1>3 DEF SharedRecord, Obtainable
  <2> QED  BY <1>3, <2>1
<1>5. IsFiniteSet(KeysUsed) /\ KeysUsed \subseteq KeyIds
  BY KeyIdsUsed
<1>6. ASSUME NEW states \in [KeysUsed -> KeyStates], bundle' \in Exports(states)
      PROVE  bundle' \in Seq(SharedKey)
  <2> DEFINE All == {Wrapped(k, states[k], WorkspaceKek, DekOf[k]) : k \in KeysUsed}
  <2>1. Cardinality(KeysUsed) \in Nat
    BY <1>5, FS_CardinalityType
  <2>2. bundle' \in [1 .. Cardinality(KeysUsed) -> All]
    BY <1>6 DEF Exports
  <2>3. \A k \in KeysUsed : Wrapped(k, states[k], WorkspaceKek, DekOf[k]) \in SharedKey
    BY <1>5, AttestedPackAssumption
       DEF Wrapped, SharedKey, KeyRecord, Envelope, DaemonDeks
  <2>4. All \subseteq SharedKey
    BY <2>3
  <2> HIDE DEF All
  <2>5. bundle' \in [1 .. Cardinality(KeysUsed) -> SharedKey]
    BY <2>2, <2>4
  <2> QED  BY <2>1, <2>5
<1>7. bundle' \in Seq(SharedKey) \union {Nil}
  BY <1>6 DEF Export
<1>8. UNCHANGED <<written, records, kek, strict, cache, walked, carried, errors,
                  statuses, result>>
  BY DEF Export
<1>9. changes' \in 0 .. MaxChanges /\ Len(shared') <= MaxRecords + changes'
  BY <1>1, <1>2, <1>3, AttestedPackAssumption
<1> QED  BY <1>1, <1>4, <1>7, <1>8, <1>9, PackStep

-----------------------------------------------------------------------------
(***************************************************************************)
(* A change makes records whose hmac is none, the daemon's or one with     *)
(* another key.                                                            *)
(***************************************************************************)
LEMMA AlteredRecord ==
    ASSUME DigestsAreTexts, OnTheWay, NEW n \in DOMAIN shared,
           NEW r \in Alterations(n)
    PROVE  r \in SharedRecord
<1>1. shared \in Seq(SharedRecord) /\ shared \in Seq(Record)
  BY SharedTypes DEF OnTheWay
<1>2. shared[n] \in SharedRecord /\ shared[n] \in Record /\ n \in 1 .. Len(shared) + 1
  BY <1>1 DEF SharedRecord
<1> DEFINE s == shared[n]
<1>3. \A q \in Record : q.hmac \in Obtainable => q \in SharedRecord
  BY DEF SharedRecord
<1>4. s.hmac \in Obtainable /\ Nil \in Obtainable
  BY <1>2 DEF SharedRecord, Obtainable
<1>5. CASE r \in {[s EXCEPT !.body = b] : b \in Bodies}
  BY <1>2, <1>3, <1>4, <1>5 DEF Record
<1>6. CASE r = Rehashed(s) \/ r = Relinked(s, Predecessor(shared, n))
  BY <1>1, <1>2, <1>3, <1>4, <1>6, RehashedRecord, RelinkedRecord
<1>7. CASE r = [s EXCEPT !.hmac = Nil, !.key_id = Nil]
  BY <1>2, <1>3, <1>4, <1>7 DEF Record
<1>8. CASE r \in {[s EXCEPT !.hmac = shared[m].hmac] : m \in DOMAIN shared}
  <2>1. PICK m \in DOMAIN shared : r = [s EXCEPT !.hmac = shared[m].hmac]
    BY <1>8
  <2>2. shared[m] \in SharedRecord
    BY <1>1
  <2>3. shared[m] \in Record /\ shared[m].hmac \in Obtainable
    BY <2>2 DEF SharedRecord
  <2> QED  BY <1>2, <1>3, <2>1, <2>3 DEF Record
<1>9. CASE r \in {[s EXCEPT !.key_id = k] : k \in KeyIds}
  BY <1>2, <1>3, <1>4, <1>9 DEF Record
<1>10. CASE r \in {Sign(s, dek, k) : dek \in ForeignDeks, k \in KeyIds}
  <2>1. PICK dek \in ForeignDeks, k \in KeyIds : r = Sign(s, dek, k)
    BY <1>10
  <2>2. s.id \in Texts /\ s.chain_hash \in Texts /\ dek \in Deks
    BY <1>2 DEF Record, ForeignDeks
  <2>3. MacOf(dek, s.id, s.chain_hash) \in Texts
    BY <2>2 DEF DigestsAreTexts
  <2>4. MacOf(dek, s.id, s.chain_hash) \in Obtainable
    BY <2>1, <2>2 DEF MacOf, Obtainable
  <2>5. r \in Record /\ r.hmac = MacOf(dek, s.id, s.chain_hash)
    BY <1>2, <2>1, <2>3 DEF Sign, Record
  <2> QED  BY <1>3, <2>4, <2>5
<1> QED  BY <1>5, <1>6, <1>7, <1>8, <1>9, <1>10 DEF Alterations

\* A change leaves the list a list of such records, at most one longer.
LEMMA ChangeStep ==
    ASSUME PackInv, Change, shared' \in Seq(SharedRecord),
           Len(shared') <= Len(shared) + 1,
           bundle' \in Seq(SharedKey) \union {Nil}
    PROVE  PackInv'
<1> USE DEF PackInv
<1>1. stage = "shared" /\ stage' = stage /\ changes < MaxChanges /\ changes' = changes + 1
  BY DEF Change
<1>2. Len(shared') \in Nat /\ Len(shared) \in Nat /\ Len(shared) <= MaxRecords + changes
  BY DEF OnTheWay
<1>3. changes \in 0 .. MaxChanges
  BY DEF OnTheWay
<1>4. changes' \in 0 .. MaxChanges /\ Len(shared') <= MaxRecords + changes'
  BY <1>1, <1>2, <1>3, AttestedPackAssumption
<1>5. UNCHANGED <<written, records, kek, strict, cache, walked, carried, errors,
                  statuses, result>>
  BY DEF Change
<1> QED  BY <1>1, <1>4, <1>5, PackStep

LEMMA AlterRecordInv ==
    ASSUME DigestsAreTexts, PackInv, AlterRecord
    PROVE  PackInv'
<1>1. /\ Change /\ bundle' = bundle /\ OnTheWay
      /\ shared \in Seq(SharedRecord) /\ bundle \in Seq(SharedKey) \union {Nil}
  BY DEF PackInv, OnTheWay, AlterRecord
<1>0. PICK n \in DOMAIN shared :
         \E r \in Alterations(n) : shared' = [shared EXCEPT ![n] = r]
  BY DEF AlterRecord
<1>2. PICK r \in Alterations(n) : shared' = [shared EXCEPT ![n] = r]
  BY <1>0
<1>3. r \in SharedRecord
  BY <1>1, <1>2, AlteredRecord
<1>4. shared' \in Seq(SharedRecord) /\ Len(shared') = Len(shared) /\ Len(shared) \in Nat
  BY <1>1, <1>2, <1>3
<1>5. Len(shared') <= Len(shared) + 1
  BY <1>4
<1> QED  BY <1>1, <1>4, <1>5, ChangeStep

LEMMA LoseRecordInv ==
    ASSUME PackInv, LoseRecord
    PROVE  PackInv'
<1>1. /\ Change /\ bundle' = bundle
      /\ shared \in Seq(SharedRecord) /\ bundle \in Seq(SharedKey) \union {Nil}
  BY DEF PackInv, OnTheWay, LoseRecord
<1>2. PICK n \in DOMAIN shared : shared' = RemoveAt(shared, n)
  BY DEF LoseRecord
<1>3. n \in 1 .. Len(shared) /\ Len(shared) \in Nat
  BY <1>1
<1>4. shared' \in Seq(SharedRecord) /\ Len(shared') <= Len(shared)
  BY <1>1, <1>2, <1>3, RemoveAtIsShorter
<1>5. Len(shared') \in Nat
  BY <1>4
<1>6. Len(shared') <= Len(shared) + 1
  BY <1>3, <1>4, <1>5
<1> QED  BY <1>1, <1>4, <1>6, ChangeStep

LEMMA InsertRecordInv ==
    ASSUME DigestsAreTexts, PackInv, InsertRecord
    PROVE  PackInv'
<1>1. /\ Change /\ bundle' = bundle /\ OnTheWay
      /\ shared \in Seq(SharedRecord) /\ bundle \in Seq(SharedKey) \union {Nil}
  BY DEF PackInv, OnTheWay, InsertRecord
<1>0. PICK n \in 1 .. Len(shared) + 1 :
         \E r \in Range(shared) \union
                  {Relinked(SealFirst(b), Predecessor(shared, n)) : b \in Bodies} :
            shared' = InsertAt(shared, n, r)
  BY DEF InsertRecord
<1>2. PICK r \in Range(shared) \union
                 {Relinked(SealFirst(b), Predecessor(shared, n)) : b \in Bodies} :
         shared' = InsertAt(shared, n, r)
  BY <1>0
<1>3. r \in SharedRecord
  <2>1. CASE r \in Range(shared)
    BY <1>1, <2>1 DEF Range
  <2>2. CASE r \in {Relinked(SealFirst(b), Predecessor(shared, n)) : b \in Bodies}
    <3>1. PICK b \in Bodies : r = Relinked(SealFirst(b), Predecessor(shared, n))
      BY <2>2
    <3>2. 1 \in Numbers /\ Nil \in Texts \union {Nil} /\ Genesis \in Texts
      BY RecordAssumption DEF Numbers
    <3>3. SealFirst(b) \in Record /\ SealFirst(b).hmac = Nil
      BY <3>2, SealedRecord DEF SealFirst
    <3>4. shared \in Seq(Record)
      BY <1>1, SharedTypes
    <3>5. r \in Record /\ r.hmac = Nil
      BY <1>2, <3>1, <3>3, <3>4, RelinkedRecord
    <3> QED  BY <3>5 DEF SharedRecord, Obtainable
  <2> QED  BY <1>2, <2>1, <2>2
<1>4. /\ shared' \in Seq(SharedRecord) /\ Len(shared') = Len(shared) + 1
      /\ Len(shared) \in Nat
  BY <1>1, <1>2, <1>3, InsertAtIsLonger
<1>5. Len(shared') <= Len(shared) + 1
  BY <1>4
<1> QED  BY <1>1, <1>4, <1>5, ChangeStep

(***************************************************************************)
(* Of the envelopes that can come to be in keys.json on the way only the   *)
(* daemon's open with the workspace KEK.                                   *)
(***************************************************************************)
LEMMA AlterKeysInv ==
    ASSUME PackInv, AlterKeys
    PROVE  PackInv'
<1> DEFINE Sealed == {Corrupt} \union [kek : Keks \ {WorkspaceKek}, dek : ForeignDeks]
<1>1. /\ Change /\ shared' = shared /\ bundle # Nil
      /\ shared \in Seq(SharedRecord) /\ bundle \in Seq(SharedKey)
  BY DEF PackInv, OnTheWay, AlterKeys
<1>2. /\ \A n \in DOMAIN bundle : bundle[n] \in SharedKey /\ n \in 1 .. Len(bundle)
      /\ Len(bundle) \in Nat
  BY <1>1
<1>3. \A e \in Sealed : e \in Envelope /\ ~Opens(e, WorkspaceKek)
  BY DEF Envelope, Opens, ForeignDeks
<1> HIDE DEF Sealed
<1>4. \/ bundle' = Nil
      \/ \E n \in DOMAIN bundle :
            \/ bundle' = RemoveAt(bundle, n)
            \/ \E k \in KeyIds : bundle' = [bundle EXCEPT ![n].key_id = k]
            \/ \E e \in Sealed : bundle' = [bundle EXCEPT ![n].envelope = e]
      \/ \E r \in [key_id : KeyIds, key_state : KeyStates, envelope : Sealed] :
            bundle' = Append(bundle, r)
  BY DEF AlterKeys, Sealed
<1>5. bundle' \in Seq(SharedKey) \union {Nil}
  <2>1. ASSUME NEW n \in DOMAIN bundle, bundle' = RemoveAt(bundle, n)
        PROVE  bundle' \in Seq(SharedKey)
    BY <1>1, <1>2, <2>1, RemoveAtIsShorter
  <2>2. ASSUME NEW n \in DOMAIN bundle, NEW k \in KeyIds,
               bundle' = [bundle EXCEPT ![n].key_id = k]
        PROVE  bundle' \in Seq(SharedKey)
    <3>1. [bundle[n] EXCEPT !.key_id = k] \in SharedKey
      BY <1>2 DEF SharedKey, KeyRecord
    <3> QED  BY <1>1, <2>2, <3>1
  <2>3. ASSUME NEW n \in DOMAIN bundle, NEW e \in Sealed,
               bundle' = [bundle EXCEPT ![n].envelope = e]
        PROVE  bundle' \in Seq(SharedKey)
    <3>1. [bundle[n] EXCEPT !.envelope = e] \in SharedKey
      BY <1>2, <1>3 DEF SharedKey, KeyRecord
    <3> QED  BY <1>1, <2>3, <3>1
  <2>4. ASSUME NEW r \in [key_id : KeyIds, key_state : KeyStates, envelope : Sealed],
               bundle' = Append(bundle, r)
        PROVE  bundle' \in Seq(SharedKey)
    <3>1. r \in SharedKey
      BY <1>3 DEF SharedKey, KeyRecord
    <3> QED  BY <1>1, <2>4, <3>1
  <2> QED  BY <1>4, <2>1, <2>2, <2>3, <2>4
<1>6. Len(shared') <= Len(shared) + 1 /\ shared' \in Seq(SharedRecord)
  BY <1>1
<1> QED  BY <1>1, <1>5, <1>6, ChangeStep

-----------------------------------------------------------------------------
LEMMA SubmitInv ==
    ASSUME PackInv, Submit
    PROVE  PackInv'
<1> USE DEF PackInv
<1>1. /\ stage' = "walking" /\ records' = shared /\ strict' \in BOOLEAN
      /\ kek' \in {WorkspaceKek, Nil}
      /\ UNCHANGED <<written, shared, changes, bundle, cache, walked, carried,
                     errors, statuses, result>>
  BY DEF Submit
<1>2. Called'
  <2>1. StartOfWalk'
    BY <1>1 DEF Submit, OnTheWay, Called, StartOfWalk, carried
  <2>2. IsChain(shared) /\ bundle \in KeyBundle
    BY SharedTypes
  <2> QED  BY <1>1, <2>1, <2>2, AttestedPackAssumption DEF Called
<1>3. Inv'
  BY <1>2, CalledNext
<1>4. WrittenChain'
  BY <1>1 DEF WrittenChain
<1>5. OnTheWay'
  BY <1>1 DEF OnTheWay, SharedRecord, Obtainable
<1> QED  BY <1>3, <1>4, <1>5

LEMMA WalkInv ==
    ASSUME PackInv, Walk
    PROVE  PackInv'
<1> USE DEF PackInv
<1>1. stage = "walking" /\ UNCHANGED <<packVars, inputs>>
  BY DEF Walk, VerifyRecord, Return
<1>2. Inv'
  BY VerifyRecordInv, ReturnInv DEF Walk
<1>3. WrittenChain' /\ OnTheWay'
  BY <1>1 DEF WrittenChain, OnTheWay, SharedRecord, Obtainable, packVars, inputs
<1> QED  BY <1>2, <1>3

LEMMA PackStutterInv ==
    ASSUME PackInv, UNCHANGED allVars
    PROVE  PackInv'
<1> USE DEF PackInv
<1>1. UNCHANGED vars /\ UNCHANGED packVars
  BY DEF allVars
<1>2. Inv'
  BY <1>1, StutterInv
<1>3. WrittenChain'
  BY <1>1 DEF WrittenChain, packVars
<1>4. OnTheWay'
  BY <1>1 DEF OnTheWay, SharedRecord, Obtainable, packVars, vars, inputs, carried,
              Called, StartOfWalk
<1> QED  BY <1>2, <1>3, <1>4

\* The invariant holds on the whole way from the daemon to the verdict.
THEOREM PackInvariance ==
    ASSUME DigestsAreTexts
    PROVE  AttestedSpec => []PackInv
<1>1. PackInv /\ [AttestedNext]_allVars => PackInv'
  BY AppendRecordInv, ExportInv, AlterRecordInv, LoseRecordInv, InsertRecordInv,
     AlterKeysInv, SubmitInv, WalkInv, PackStutterInv DEF AttestedNext
<1> QED  BY <1>1, AttestedInitInv, PTL DEF AttestedSpec

-----------------------------------------------------------------------------
(***************************************************************************)
(* An attested record has the digests of one of the daemon's: its hmac     *)
(* verifies with a DEK that only the daemon has, so it is one that the     *)
(* daemon made, over its own id and chain_hash.                            *)
(***************************************************************************)
LEMMA AttestedHasWrittenDigests ==
    ASSUME PackInv, NEW i \in DOMAIN statuses, statuses[i].attestation = "attested"
    PROVE  /\ i \in DOMAIN records /\ SelfConsistent(records[i])
           /\ \E m \in DOMAIN written :
                 records[i].id = written[m].id /\ records[i].chain_hash = written[m].chain_hash
<1> USE DEF PackInv
<1>1. i \in DOMAIN records /\ records \in Seq(Record) /\ bundle \in KeyBundle
  BY DEF Inv, TypeOK, IsChain
<1>2. Sound(records, i) /\ Signed(records[i], bundle, kek)
  BY DEF Inv, StatusesAreLocal, LocalStatus
<1>3. stage = "walking"
  <2> SUFFICES ASSUME stage # "walking" PROVE FALSE
    OBVIOUS
  <2>1. records = <<>>
    BY DEF OnTheWay
  <2> QED  BY <1>1, <2>1
<1>4. PICK r \in SharedRecord : r = records[i]
  BY <1>1, <1>3 DEF OnTheWay
<1>5. /\ r.hmac # Nil /\ r.key_id \in KeyIds /\ Usable(bundle, kek, r.key_id)
      /\ r.hmac = MacOf(FirstRecord(bundle, r.key_id).envelope.dek, r.id, r.chain_hash)
  BY <1>2, <1>4 DEF Signed, SharedRecord, Record
<1>6. PICK dek \in DaemonDeks : r.hmac = MacOf(dek, r.id, r.chain_hash)
  <2> DEFINE k == FirstRecord(bundle, r.key_id)
  <2>1. Holds(bundle, r.key_id) /\ Opens(k.envelope, kek) /\ kek = WorkspaceKek
    BY <1>3, <1>5 DEF Usable, Opens, OnTheWay
  <2>2. bundle \in Seq(SharedKey)
    BY <2>1 DEF OnTheWay, Holds
  <2>3. \E n \in DOMAIN bundle : k = bundle[n]
    BY <1>1, <1>5, <2>1, FirstRecordProperties
  <2>4. k \in SharedKey
    BY <2>2, <2>3
  <2> QED  BY <1>5, <2>1, <2>4 DEF SharedKey
<1>7. r.hmac \in {written[m].hmac : m \in DOMAIN written}
  <2>1. r.hmac \in Obtainable
    BY DEF SharedRecord
  <2>2. r.hmac \notin {"mac"} \X ForeignDeks \X Texts \X Texts
    BY <1>6 DEF MacOf, ForeignDeks
  <2> QED  BY <1>5, <2>1, <2>2 DEF Obtainable
<1>8. PICK m \in DOMAIN written : r.hmac = written[m].hmac
  BY <1>7
<1>9. written[m] \in DaemonRecord
  BY DEF WrittenChain
<1>10. PICK d \in DaemonDeks :
          written[m].hmac = MacOf(d, written[m].id, written[m].chain_hash)
  BY <1>5, <1>8, <1>9 DEF DaemonRecord
<1>11. r.id = written[m].id /\ r.chain_hash = written[m].chain_hash
  BY <1>6, <1>8, <1>10 DEF MacOf
<1>12. SelfConsistent(r)
  BY <1>2, <1>4 DEF Sound
<1> QED  BY <1>1, <1>4, <1>11, <1>12

\* ... and so it says what that one says, under the number it has there.
LEMMA AttestedSaysWritten ==
    ASSUME PackInv, NEW i \in DOMAIN statuses, statuses[i].attestation = "attested"
    PROVE  SaysWhatWasWritten(records[i], records[i].seq)
<1>1. i \in DOMAIN records /\ SelfConsistent(records[i])
  BY AttestedHasWrittenDigests
<1>2. PICK m \in DOMAIN written :
         records[i].id = written[m].id /\ records[i].chain_hash = written[m].chain_hash
  BY AttestedHasWrittenDigests
<1>3. SelfConsistent(written[m]) /\ written[m].seq = m
  BY SoundChainIsNumbered DEF PackInv, WrittenChain, SoundChain, Sound
<1>4. CanonicalPayload(records[i]) = CanonicalPayload(written[m])
  BY <1>1, <1>2, <1>3, IdCommits
<1>5. records[i].seq = m
  BY <1>3, <1>4 DEF CanonicalPayload
<1> QED  BY <1>2, <1>4, <1>5 DEF SaysWhatWasWritten

(***************************************************************************)
(* Whatever becomes of a pack on the way, in any number of changes by      *)
(* anybody without the DEKs and the workspace KEK, a record that Verify    *)
(* reports as attested (chain.go:253) says what the daemon wrote under     *)
(* that number.                                                            *)
(***************************************************************************)
THEOREM AttestedRecordsAreWritten ==
    ASSUME DigestsAreTexts
    PROVE  AttestedSpec => []AttestedIsWritten
<1>1. PackInv => AttestedIsWritten
  BY AttestedSaysWritten DEF AttestedIsWritten
<1> QED  BY <1>1, PackInvariance, PTL

(***************************************************************************)
(* In an accepted chain the last attested record vouches for every record  *)
(* before it, the unattested ones too: they are the daemon's chain up to   *)
(* there.  What comes after it is not covered.                             *)
(***************************************************************************)
THEOREM AttestedPrefixesAreWritten ==
    ASSUME DigestsAreTexts
    PROVE  AttestedSpec => []AttestedPrefixIsWritten
<1>1. PackInv => AttestedPrefixIsWritten
  <2> SUFFICES ASSUME PackInv, result # Nil, result.ok, NEW i \in DOMAIN statuses,
                      statuses[i].attestation = "attested", NEW j \in 1 .. i
               PROVE  SaysWhatWasWritten(records[j], j)
    BY DEF AttestedPrefixIsWritten
  <2>1. SoundChain(records) /\ SoundChain(written)
    BY AcceptedChainIsSound DEF PackInv, WrittenChain
  <2>2. i \in DOMAIN records
    BY AttestedHasWrittenDigests
  <2>3. PICK m \in DOMAIN written : records[i].chain_hash = written[m].chain_hash
    BY AttestedHasWrittenDigests
  <2>4. j \in DOMAIN written /\ SaysTheSame(records[j], written[j])
    BY <2>1, <2>2, <2>3, ChainHashFixesThePrefix
  <2> QED  BY <2>4 DEF SaysTheSame, SaysWhatWasWritten
<1> QED  BY <1>1, PackInvariance, PTL

(***************************************************************************)
(* The pack and the verifier keep their types on the whole way; the bound  *)
(* on a slice's length is never the verifier's concern.                    *)
(***************************************************************************)
THEOREM AttestedTypeCorrect ==
    ASSUME DigestsAreTexts
    PROVE  AttestedSpec => []AttestedTypeOK
<1>1. PackInv => AttestedTypeOK
  <2> SUFFICES ASSUME PackInv PROVE AttestedTypeOK
    OBVIOUS
  <2>1. IsChain(shared)
    BY SharedTypes DEF PackInv
  <2> QED  BY <2>1 DEF PackInv, Inv, WrittenChain, SoundChain, OnTheWay, AttestedTypeOK
<1> QED  BY <1>1, PackInvariance, PTL

-----------------------------------------------------------------------------
(***************************************************************************)
(* Completeness: a pack that nobody changed holds what the daemon wrote,   *)
(* and a key for every key_id in it.                                       *)
(***************************************************************************)
HoldsTheKeysUsed ==
    /\ bundle = Nil => KeysUsed = {}
    /\ bundle # Nil =>
          /\ \A n \in DOMAIN bundle :
                bundle[n].envelope = [kek |-> WorkspaceKek, dek |-> DekOf[bundle[n].key_id]]
          /\ \A k \in KeysUsed : Holds(bundle, k)

Unaltered ==
    (stage # "writing" /\ changes = 0) => shared = written /\ HoldsTheKeysUsed

LEMMA ExportUnaltered ==
    ASSUME PackInv, Export
    PROVE  Unaltered'
<1>1. shared' = written /\ written' = written
  BY DEF Export
<1>2. KeysUsed' = KeysUsed
  BY <1>1 DEF KeysUsed
<1>3. ASSUME NEW states \in [KeysUsed -> KeyStates], bundle' \in Exports(states)
      PROVE  HoldsTheKeysUsed'
  <2> DEFINE W(k) == Wrapped(k, states[k], WorkspaceKek, DekOf[k])
             All == {W(k) : k \in KeysUsed}
             N == Cardinality(KeysUsed)
  <2>1. bundle' \in [1 .. N -> All] /\ Range(bundle') = All
    BY <1>3 DEF Exports
  <2>2. \A k \in KeysUsed :
           /\ W(k).key_id = k
           /\ W(k).envelope = [kek |-> WorkspaceKek, dek |-> DekOf[k]]
    BY DEF Wrapped
  <2> HIDE DEF W, N
  <2>3. \A n \in DOMAIN bundle' :
           bundle'[n].envelope = [kek |-> WorkspaceKek, dek |-> DekOf[bundle'[n].key_id]]
    <3> SUFFICES ASSUME NEW n \in DOMAIN bundle'
                 PROVE  bundle'[n].envelope
                          = [kek |-> WorkspaceKek, dek |-> DekOf[bundle'[n].key_id]]
      OBVIOUS
    <3>1. bundle'[n] \in {W(k) : k \in KeysUsed}
      BY <2>1
    <3>2. PICK k \in KeysUsed : bundle'[n] = W(k)
      BY <3>1
    <3>3. bundle'[n].key_id = k
      BY <2>2, <3>2
    <3>4. bundle'[n].envelope = [kek |-> WorkspaceKek, dek |-> DekOf[k]]
      BY <2>2, <3>2
    <3> QED  BY <3>3, <3>4
  <2>4. \A k \in KeysUsed : \E n \in DOMAIN bundle' : bundle'[n].key_id = k
    <3> SUFFICES ASSUME NEW k \in KeysUsed
                 PROVE  \E n \in DOMAIN bundle' : bundle'[n].key_id = k
      OBVIOUS
    <3>1. W(k) \in Range(bundle')
      BY <2>1
    <3>2. PICK n \in DOMAIN bundle' : bundle'[n] = W(k)
      BY <3>1 DEF Range
    <3> QED  BY <2>2, <3>2
  <2>5. bundle' # Nil
    <3>1. \A k \in KeysUsed : W(k) \in KeyRecord
      <4>1. \A k \in KeysUsed : k \in KeyIds
        BY KeyIdsUsed DEF PackInv
      <4> QED  BY <4>1, AttestedPackAssumption DEF W, Wrapped, KeyRecord, Envelope
    <3>2. All \subseteq KeyRecord
      BY <3>1
    <3>3. N \in Nat
      BY KeyIdsUsed, FS_CardinalityType DEF N, PackInv
    <3>4. bundle' \in Seq(KeyRecord)
      BY <2>1, <3>2, <3>3
    <3> QED  BY <3>4, KeysAssumption
  <2>6. \A k \in KeysUsed' : Holds(bundle', k)
    BY <1>2, <2>4, <2>5 DEF Holds
  <2>7. (\A k \in KeysUsed : Holds(bundle, k))'
    BY <2>6 DEF Holds
  <2> QED  BY <2>3, <2>5, <2>7 DEF HoldsTheKeysUsed
<1>4. ASSUME KeysUsed = {}, bundle' = Nil
      PROVE  HoldsTheKeysUsed'
  BY <1>2, <1>4 DEF HoldsTheKeysUsed
<1>5. HoldsTheKeysUsed'
  BY <1>3, <1>4 DEF Export
<1> QED  BY <1>1, <1>5 DEF Unaltered

\* The daemon's chain is complete when it is exported, and a change is counted.
LEMMA UnalteredStep ==
    ASSUME PackInv, Unaltered, [AttestedNext]_allVars
    PROVE  Unaltered'
<1>1. CASE AppendRecord
  BY <1>1 DEF AppendRecord, Unaltered
<1>2. CASE Export
  BY <1>2, ExportUnaltered
<1>3. CASE Change
  <2>1. changes \in Nat /\ changes' = changes + 1
    BY <1>3, AttestedPackAssumption DEF PackInv, OnTheWay, Change
  <2>2. changes' # 0
    BY <2>1
  <2> QED  BY <2>2 DEF Unaltered
<1>4. ASSUME UNCHANGED <<written, shared, changes, bundle>>, stage # "writing"
      PROVE  Unaltered'
  BY <1>4 DEF Unaltered, HoldsTheKeysUsed, KeysUsed, Holds
<1>5. CASE Submit
  BY <1>4, <1>5 DEF Submit
<1>6. CASE Walk
  BY <1>4, <1>6 DEF Walk, VerifyRecord, Return, packVars, inputs
<1>7. CASE UNCHANGED allVars
  BY <1>7 DEF allVars, packVars, vars, inputs, Unaltered, HoldsTheKeysUsed, KeysUsed, Holds
<1> QED  BY <1>1, <1>2, <1>3, <1>5, <1>6, <1>7
         DEF AttestedNext, AlterRecord, LoseRecord, InsertRecord, AlterKeys

\* A record of the daemon's that names a key was signed with the DEK that the
\* bundle has for it, if nobody changed the pack and the KEK is there.
LEMMA WrittenIsSigned ==
    ASSUME DigestsAreTexts, PackInv, HoldsTheKeysUsed, kek = WorkspaceKek,
           NEW n \in DOMAIN written, written[n].key_id # Nil
    PROVE  Signed(written[n], bundle, kek)
<1> DEFINE r == written[n]
<1>1. r \in DaemonRecord
  BY DEF PackInv, WrittenChain
<1>2. /\ r.key_id \in KeyIds /\ r.id \in Texts /\ r.chain_hash \in Texts
      /\ r.hmac = MacOf(DekOf[r.key_id], r.id, r.chain_hash)
  BY <1>1 DEF DaemonRecord, Record
<1>3. r.hmac # Nil
  BY <1>2, AttestedPackAssumption, RecordAssumption DEF DigestsAreTexts
<1>4. Holds(bundle, r.key_id)
  <2>1. r.key_id \in KeysUsed
    BY DEF KeysUsed
  <2> QED  BY <2>1 DEF HoldsTheKeysUsed
<1>5. bundle \in KeyBundle
  BY DEF PackInv, Inv, TypeOK
<1> DEFINE k == FirstRecord(bundle, r.key_id)
<1>6. k.key_id = r.key_id /\ \E m \in DOMAIN bundle : k = bundle[m]
  BY <1>2, <1>4, <1>5, FirstRecordProperties
<1>7. PICK m \in DOMAIN bundle : k = bundle[m]
  BY <1>6
<1>8. bundle # Nil /\ bundle \in Seq(KeyRecord)
  BY <1>4, <1>5 DEF Holds, KeyBundle
<1>9. k \in KeyRecord
  BY <1>7, <1>8
<1> HIDE DEF r, k
<1>10. k.envelope = [kek |-> WorkspaceKek, dek |-> DekOf[r.key_id]]
  BY <1>6, <1>7, <1>8 DEF HoldsTheKeysUsed
<1>11. Opens(k.envelope, kek)
  <2>1. WorkspaceKek \in Keks /\ DekOf[r.key_id] \in Deks
    BY <1>2, AttestedPackAssumption
  <2>2. k.envelope \in [kek : Keks, dek : Deks]
    BY <1>10, <2>1
  <2>3. k.envelope # Corrupt /\ k.envelope.kek = kek /\ kek # Nil
    BY <1>10, <2>1, <2>2, KeysAssumption
  <2> QED  BY <2>3 DEF Opens
<1>12. k.envelope.dek = DekOf[r.key_id]
  BY <1>10
<1> QED  BY <1>2, <1>3, <1>4, <1>11, <1>12, RecordAssumption DEF Signed, Usable, k, r

(***************************************************************************)
(* Nothing is refused without reason: a pack that arrives as WritePack     *)
(* left it is accepted by Verify (chain.go:268), in strict mode exactly if *)
(* every record is signed, whatever keys the daemon used in which order    *)
(* and in whatever order BundleFromDEKs exported them.                     *)
(***************************************************************************)
THEOREM UnchangedPacksAreAccepted ==
    ASSUME DigestsAreTexts
    PROVE  AttestedSpec => []UnchangedIsAccepted
<1>1. PackInv /\ Unaltered => UnchangedIsAccepted
  <2> SUFFICES ASSUME PackInv, Unaltered, result # Nil, changes = 0,
                      \A n \in DOMAIN written : written[n].hmac # Nil => written[n].key_id # Nil,
                      kek # Nil \/ KeysUsed = {}
               PROVE  result.ok <=> ~strict \/ \A n \in DOMAIN written : written[n].hmac # Nil
    BY DEF UnchangedIsAccepted
  <2>1. stage = "walking"
    BY DEF PackInv, OnTheWay, Called, StartOfWalk
  <2>2. records = written /\ HoldsTheKeysUsed /\ kek \in {WorkspaceKek, Nil}
    BY <2>1 DEF PackInv, OnTheWay, Unaltered
  <2>3. \A n \in DOMAIN written : Sound(written, n)
    BY DEF PackInv, WrittenChain, SoundChain
  <2>4. ASSUME NEW n \in DOMAIN written, written[n].hmac # Nil
        PROVE  Signed(written[n], bundle, kek)
    <3>1. written[n].key_id \in KeysUsed
      BY <2>4 DEF KeysUsed
    <3>2. kek = WorkspaceKek
      BY <2>2, <3>1
    <3> QED  BY <2>2, <2>4, <3>2, WrittenIsSigned
  <2>5. result.ok <=> \A n \in DOMAIN written : Acceptable(written, n, bundle, kek, strict)
    BY <2>2, AcceptedIffValid DEF PackInv, OkIffValid, AcceptableAt
  <2>6. \A n \in DOMAIN written :
           Acceptable(written, n, bundle, kek, strict)
             <=> (written[n].hmac = Nil => ~strict)
    BY <2>3, <2>4 DEF Acceptable
  <2> QED  BY <2>5, <2>6
<1>2. AttestedInit => Unaltered
  BY DEF AttestedInit, Unaltered
<1>3. PackInv /\ Unaltered /\ [AttestedNext]_allVars => Unaltered'
  BY UnalteredStep
<1> QED  BY <1>1, <1>2, <1>3, PackInvariance, PTL DEF AttestedSpec
================================================================================
