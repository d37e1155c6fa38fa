------------------------- MODULE CompliancePackProofs -------------------------
(***************************************************************************)
(* Facts about what is in a pack: the key bundle and its resolver, for     *)
(* every bundle, KEK and cache; what a sound chain is bound to, its        *)
(* numbers, and by any one chain_hash everything up to it; and the lines   *)
(* of chain.jsonl with the records that they amount to, for every file.    *)
(***************************************************************************)
EXTENDS CompliancePack, FiniteSetTheorems, SequenceTheorems, WellFoundedInduction, TLAPS

(***************************************************************************)
(* A non-empty set of naturals has a least element, and one that is        *)
(* bounded has a greatest: the two CHOOSEs of the bundle have a witness.   *)
(***************************************************************************)
LEMMA Least ==
    ASSUME NEW T \in SUBSET Nat, T # {}
    PROVE  \E n \in T : \A m \in T : n <= m
<1>1. PICK n \in T : \A m \in T : <<m, n>> \notin OpToRel(<, Nat)
  BY NatLessThanWellFounded, WFMin
<1>2. \A m \in T : ~(m < n)
  BY <1>1 DEF OpToRel
<1> QED  BY <1>2

LEMMA Greatest ==
    ASSUME NEW b \in Nat, NEW T \in SUBSET (0 .. b), T # {}
    PROVE  \E n \in T : \A m \in T : m <= n
<1> DEFINE U == {m \in 0 .. b : b - m \in T}
<1>1. \A n \in T : n \in 0 .. b /\ b - n \in U
  <2> TAKE n \in T
  <2>1. n \in 0 .. b
    OBVIOUS
  <2>2. b - n \in 0 .. b /\ b - (b - n) = n
    BY <2>1
  <2> QED  BY <2>1, <2>2
<1>2. U \in SUBSET Nat /\ U # {}
  <2>1. U \in SUBSET Nat
    OBVIOUS
  <2>2. \E n \in T : TRUE
    OBVIOUS
  <2> QED  BY <1>1, <2>1, <2>2
<1>3. PICK u \in U : \A v \in U : u <= v
  BY <1>2, Least
<1>4. b - u \in T /\ u \in 0 .. b
  OBVIOUS
<1>5. \A m \in T : m <= b - u
  BY <1>1, <1>3, <1>4
<1> QED  BY <1>4, <1>5

-----------------------------------------------------------------------------
(***************************************************************************)
(* ResolveByID's scan finds a record of the bundle with the key_id asked   *)
(* for, and no record before it has that key_id.                           *)
(***************************************************************************)
LEMMA FirstRecordProperties ==
    ASSUME NEW bundle \in KeyBundle, NEW keyId \in KeyIds, Holds(bundle, keyId)
    PROVE  /\ FirstRecord(bundle, keyId) \in KeyRecord
           /\ FirstRecord(bundle, keyId).key_id = keyId
           /\ \E n \in DOMAIN bundle :
                 /\ FirstRecord(bundle, keyId) = bundle[n]
                 /\ \A m \in DOMAIN bundle : bundle[m].key_id = keyId => n <= m
<1> DEFINE T == {n \in DOMAIN bundle : bundle[n].key_id = keyId}
           First(n) == /\ bundle[n].key_id = keyId
                       /\ \A m \in DOMAIN bundle : bundle[m].key_id = keyId => n <= m
<1>1. bundle \in Seq(KeyRecord)
  BY DEF Holds, KeyBundle
<1>2. T \in SUBSET Nat /\ T # {}
  BY <1>1 DEF Holds
<1>3. \E n \in DOMAIN bundle : First(n)
  BY <1>2, Least
<1>4. First(CHOOSE n \in DOMAIN bundle : First(n))
      /\ (CHOOSE n \in DOMAIN bundle : First(n)) \in DOMAIN bundle
  BY <1>3
<1> QED  BY <1>1, <1>4 DEF FirstRecord

\* The states map has for every key_id of the bundle the state of its last record.
LEMMA LastStateProperties ==
    ASSUME NEW bundle \in KeyBundle, NEW keyId \in KeyIds, Holds(bundle, keyId)
    PROVE  /\ LastState(bundle, keyId) \in KeyStates
           /\ \E n \in DOMAIN bundle :
                 /\ bundle[n].key_id = keyId /\ bundle[n].key_state = LastState(bundle, keyId)
                 /\ \A m \in DOMAIN bundle : bundle[m].key_id = keyId => m <= n
<1> DEFINE T == {n \in DOMAIN bundle : bundle[n].key_id = keyId}
           Last(n) == /\ bundle[n].key_id = keyId
                      /\ \A m \in DOMAIN bundle : bundle[m].key_id = keyId => m <= n
<1>1. bundle \in Seq(KeyRecord)
  BY DEF Holds, KeyBundle
<1>2. T \in SUBSET (0 .. Len(bundle)) /\ T # {} /\ Len(bundle) \in Nat
  BY <1>1 DEF Holds
<1>3. \E n \in DOMAIN bundle : Last(n)
  BY <1>2, Greatest
<1>4. /\ (CHOOSE n \in DOMAIN bundle : Last(n)) \in DOMAIN bundle
      /\ Last(CHOOSE n \in DOMAIN bundle : Last(n))
  BY <1>3
<1>5. \A n \in DOMAIN bundle : bundle[n].key_state \in KeyStates
  <2>1. \A n \in DOMAIN bundle : bundle[n] \in KeyRecord
    BY <1>1
  <2> QED  BY <2>1 DEF KeyRecord
<1> QED  BY <1>4, <1>5 DEF LastState

-----------------------------------------------------------------------------
(***************************************************************************)
(* With a coherent cache an answer has a DEK exactly when the bundle holds *)
(* the key and its envelope opens, and it is the DEK of that envelope:     *)
(* what was looked up before makes no difference.                          *)
(***************************************************************************)
LEMMA ResolveProperties ==
    ASSUME NEW bundle \in KeyBundle, NEW kek \in Keks \union {Nil},
           NEW cache \in [KeyIds -> Deks \union {Nil}], NEW keyId \in KeyIds,
           Coherent(bundle, kek, cache)
    PROVE  LET a == ResolveByID(bundle, kek, cache, keyId)
           IN  /\ a.key \in Deks \union {Nil}
               /\ a.state \in KeyStates \union {NoState}
               /\ a.err \in BOOLEAN
               /\ a.key # Nil <=> Usable(bundle, kek, keyId)
               /\ a.key # Nil =>
                     a.key = FirstRecord(bundle, keyId).envelope.dek /\ ~a.err
<1> DEFINE a == ResolveByID(bundle, kek, cache, keyId)
           k == FirstRecord(bundle, keyId)
<1>1. CASE cache[keyId] # Nil
  <2>1. Usable(bundle, kek, keyId) /\ cache[keyId] = k.envelope.dek
    BY <1>1 DEF Coherent
  <2>2. LastState(bundle, keyId) \in KeyStates
    BY <2>1, LastStateProperties DEF Usable
  <2> QED  BY <1>1, <2>1, <2>2 DEF ResolveByID, Answer
<1>2. CASE cache[keyId] = Nil /\ ~Holds(bundle, keyId)
  BY <1>2 DEF ResolveByID, Answer, Usable
<1>3. CASE cache[keyId] = Nil /\ Holds(bundle, keyId)
  <2>1. k \in KeyRecord
    BY <1>3, FirstRecordProperties
  <2>2. CASE Opens(k.envelope, kek)
    <3>1. k.envelope \in [kek : Keks, dek : Deks]
      BY <2>1, <2>2 DEF KeyRecord, Envelope, Opens
    <3>2. k.envelope.dek \in Deks /\ k.envelope.dek # Nil
      BY <3>1, KeysAssumption
    <3> QED  BY <1>3, <2>1, <2>2, <3>2 DEF ResolveByID, Answer, Usable, KeyRecord
  <2>3. CASE ~Opens(k.envelope, kek)
    BY <1>3, <2>1, <2>3 DEF ResolveByID, Answer, Usable, KeyRecord
  <2> QED  BY <2>2, <2>3
<1> QED  BY <1>1, <1>2, <1>3

(***************************************************************************)
(* The key_state of an answer is that of a record of the bundle with the   *)
(* key_id asked for: of the last one if the DEK is cached, else of the     *)
(* first, and the empty one if the bundle has none.                        *)
(***************************************************************************)
LEMMA AnswersCarryTheirState ==
    ASSUME NEW bundle \in KeyBundle, NEW kek \in Keks \union {Nil},
           NEW cache \in [KeyIds -> Deks \union {Nil}], NEW keyId \in KeyIds,
           Coherent(bundle, kek, cache)
    PROVE  LET state == ResolveByID(bundle, kek, cache, keyId).state
           IN  IF Holds(bundle, keyId)
                 THEN IsStateOf(state, bundle, keyId, cache[keyId] # Nil)
                 ELSE state = NoState
<1> DEFINE a == ResolveByID(bundle, kek, cache, keyId)
           k == FirstRecord(bundle, keyId)
<1>1. CASE cache[keyId] # Nil
  <2>1. Holds(bundle, keyId)
    BY <1>1 DEF Coherent, Usable
  <2>2. a.state = LastState(bundle, keyId)
    BY <1>1 DEF ResolveByID, Answer
  <2>3. IsStateOf(LastState(bundle, keyId), bundle, keyId, TRUE)
    BY <2>1, LastStateProperties DEF IsStateOf
  <2> QED  BY <1>1, <2>1, <2>2, <2>3 DEF IsStateOf
<1>2. CASE cache[keyId] = Nil /\ ~Holds(bundle, keyId)
  BY <1>2 DEF ResolveByID, Answer
<1>3. CASE cache[keyId] = Nil /\ Holds(bundle, keyId)
  <2>1. a.state = k.key_state
    BY <1>3 DEF ResolveByID, Answer
  <2>2. /\ k.key_id = keyId
        /\ \E n \in DOMAIN bundle :
              /\ k = bundle[n]
              /\ \A m \in DOMAIN bundle : bundle[m].key_id = keyId => n <= m
    BY <1>3, FirstRecordProperties
  <2> QED  BY <1>3, <2>1, <2>2 DEF IsStateOf
<1> QED  BY <1>1, <1>2, <1>3

\* A lookup leaves the cache coherent.
LEMMA CacheStaysCoherent ==
    ASSUME NEW bundle \in KeyBundle, NEW kek \in Keks \union {Nil},
           NEW cache \in [KeyIds -> Deks \union {Nil}], NEW keyId \in KeyIds,
           Coherent(bundle, kek, cache)
    PROVE  LET c == CacheAfter(cache, keyId, ResolveByID(bundle, kek, cache, keyId))
           IN  c \in [KeyIds -> Deks \union {Nil}] /\ Coherent(bundle, kek, c)
<1> DEFINE a == ResolveByID(bundle, kek, cache, keyId)
<1>1. /\ a.key \in Deks \union {Nil}
      /\ a.key # Nil => /\ Usable(bundle, kek, keyId)
                        /\ a.key = FirstRecord(bundle, keyId).envelope.dek
  BY ResolveProperties
<1> HIDE DEF a
<1>2. CacheAfter(cache, keyId, a) \in [KeyIds -> Deks \union {Nil}]
  BY <1>1 DEF CacheAfter
<1>3. Coherent(bundle, kek, CacheAfter(cache, keyId, a))
  BY <1>1 DEF CacheAfter, Coherent
<1> QED  BY <1>2, <1>3 DEF a

-----------------------------------------------------------------------------
\* Every record of the chain is in its place.
SoundChain(c) == IsChain(c) /\ \A i \in DOMAIN c : Sound(c, i)

\* Two records say the same: payload and both digests.
SaysTheSame(r, s) ==
    /\ CanonicalPayload(r) = CanonicalPayload(s)
    /\ r.id = s.id
    /\ r.chain_hash = s.chain_hash

-----------------------------------------------------------------------------
(***************************************************************************)
(* A sound chain numbers its records 1, 2, ... (chain.go:166, 265): the    *)
(* wrap-around of expectedSeq is out of reach, because a slice is no       *)
(* longer than the largest int.                                            *)
(***************************************************************************)
LEMMA SoundChainIsNumbered ==
    ASSUME NEW c, SoundChain(c)
    PROVE  \A i \in DOMAIN c : c[i].seq = i
<1>1. /\ c \in Seq(Record) /\ Len(c) \in Nat /\ Len(c) <= MaxInt
      /\ DOMAIN c = 1 .. Len(c)
  BY DEF SoundChain, IsChain
<1> DEFINE Odd == {i \in DOMAIN c : c[i].seq # i}
<1>2. SUFFICES ASSUME Odd # {} PROVE FALSE
  OBVIOUS
<1>3. Odd \in SUBSET Nat
  BY <1>1
<1>4. PICK i \in Odd : \A j \in Odd : i <= j
  BY <1>1, <1>2, <1>3, Least
<1>5. /\ i \in 1 .. Len(c) /\ c[i].seq # i
      /\ \A j \in 1 .. Len(c) : j < i => c[j].seq = j
  BY <1>1, <1>4
<1>6. c[i].seq = Successor(Predecessor(c, i).seq)
  BY <1>1, <1>5 DEF SoundChain, Sound, Follows
<1>7. CASE i = 1
  BY <1>5, <1>6, <1>7, RecordAssumption DEF Predecessor, Successor
<1>8. CASE i > 1
  <2>1. i - 1 \in 1 .. Len(c) /\ i - 1 < i /\ i - 1 < MaxInt
    BY <1>1, <1>5, <1>8, RecordAssumption
  <2>2. c[i - 1].seq = i - 1
    BY <1>5, <2>1
  <2>3. c[i].seq = Successor(i - 1)
    BY <1>6, <1>8, <2>2 DEF Predecessor
  <2> QED  BY <1>5, <2>1, <2>3, RecordAssumption DEF Successor
<1> QED  BY <1>5, <1>7, <1>8

\* The digests are injective: an id stands for its payload ...
LEMMA IdCommits ==
    ASSUME NEW r, NEW s, SelfConsistent(r), SelfConsistent(s), r.id = s.id
    PROVE  CanonicalPayload(r) = CanonicalPayload(s)
BY DEF SelfConsistent, IdOf

\* ... and a chain_hash for the id and the chain_hash before it.
LEMMA ChainHashCommits ==
    ASSUME NEW r, NEW s, SelfConsistent(r), SelfConsistent(s),
           r.chain_hash = s.chain_hash
    PROVE  r.id = s.id /\ r.previous_chain_hash = s.previous_chain_hash
BY DEF SelfConsistent, ChainHashOf

(***************************************************************************)
(* If two sound chains share a chain_hash, they share it at one position,  *)
(* and they are the same chain up to there.                                *)
(***************************************************************************)
THEOREM ChainHashFixesThePrefix ==
    ASSUME NEW c, NEW d, SoundChain(c), SoundChain(d),
           NEW i \in DOMAIN c, NEW m \in DOMAIN d,
           c[i].chain_hash = d[m].chain_hash
    PROVE  /\ i = m
           /\ \A j \in 1 .. i : j \in DOMAIN d /\ SaysTheSame(c[j], d[j])
<1>1. /\ c \in Seq(Record) /\ Len(c) \in Nat /\ DOMAIN c = 1 .. Len(c)
      /\ d \in Seq(Record) /\ Len(d) \in Nat /\ DOMAIN d = 1 .. Len(d)
  BY DEF SoundChain, IsChain
<1>2. /\ \A j \in DOMAIN c : c[j].seq = j /\ SelfConsistent(c[j]) /\ Follows(c, j)
      /\ \A j \in DOMAIN d : d[j].seq = j /\ SelfConsistent(d[j]) /\ Follows(d, j)
  BY SoundChainIsNumbered DEF SoundChain, Sound
<1>3. \A j \in DOMAIN c, n \in DOMAIN d :
         c[j].chain_hash = d[n].chain_hash =>
            SaysTheSame(c[j], d[n]) /\ j = n
  <2> SUFFICES ASSUME NEW j \in DOMAIN c, NEW n \in DOMAIN d,
                      c[j].chain_hash = d[n].chain_hash
               PROVE  SaysTheSame(c[j], d[n]) /\ j = n
    OBVIOUS
  <2>1. SelfConsistent(c[j]) /\ SelfConsistent(d[n]) /\ c[j].seq = j /\ d[n].seq = n
    BY <1>2
  <2>2. c[j].id = d[n].id
    BY <2>1, ChainHashCommits
  <2>3. CanonicalPayload(c[j]) = CanonicalPayload(d[n])
    BY <2>1, <2>2, IdCommits
  <2>4. CanonicalPayload(c[j]).seq = c[j].seq /\ CanonicalPayload(d[n]).seq = d[n].seq
    BY DEF CanonicalPayload
  <2> QED  BY <2>1, <2>2, <2>3, <2>4 DEF SaysTheSame
<1>4. i = m
  BY <1>3
<1>5. \A j \in 1 .. i : j \in DOMAIN c /\ j \in DOMAIN d
  BY <1>1, <1>4
<1> DEFINE Apart == {j \in 1 .. i : c[j].chain_hash # d[j].chain_hash}
<1>6. Apart = {}
  <2> SUFFICES ASSUME Apart # {} PROVE FALSE
    OBVIOUS
  <2>1. Apart \in SUBSET (0 .. Len(c))
    BY <1>1
  <2>2. PICK j \in Apart : \A n \in Apart : n <= j
    BY <1>1, <2>1, Greatest
  <2>3. j \in 1 .. i /\ j # i /\ j + 1 \in 1 .. i /\ j + 1 \notin Apart
    BY <1>1, <1>4, <2>2
  <2>4. SaysTheSame(c[j + 1], d[j + 1])
    BY <1>3, <1>5, <2>3
  <2>5. /\ c[j + 1].previous_chain_hash = c[j].chain_hash
        /\ d[j + 1].previous_chain_hash = d[j].chain_hash
    BY <1>1, <1>2, <1>5, <2>3 DEF Follows, Predecessor
  <2>6. c[j + 1].previous_chain_hash = d[j + 1].previous_chain_hash
    <3>1. /\ CanonicalPayload(c[j + 1]).previous_chain_hash = c[j + 1].previous_chain_hash
          /\ CanonicalPayload(d[j + 1]).previous_chain_hash = d[j + 1].previous_chain_hash
      BY DEF CanonicalPayload
    <3> QED  BY <2>4, <3>1 DEF SaysTheSame
  <2> QED  BY <2>2, <2>5, <2>6
<1>7. \A j \in 1 .. i : SaysTheSame(c[j], d[j])
  BY <1>3, <1>5, <1>6
<1> QED  BY <1>4, <1>5, <1>7


-----------------------------------------------------------------------------
(***************************************************************************)
(* The equations of the recursive function in RecordsFrom, and that a      *)
(* function with these equations exists.                                   *)
(***************************************************************************)
Equation(f, m, lines, chosen) ==
    f = [n \in 0 .. m |->
            IF n = 0 THEN <<>>
            ELSE IF n \in chosen THEN Append(f[n - 1], RecordOf(lines[n]))
            ELSE f[n - 1]]

LEMMA RecordsExist ==
    ASSUME NEW lines, NEW chosen, NEW m \in Nat
    PROVE  \E f : Equation(f, m, lines, chosen)
<1> DEFINE T == {k \in Nat : ~ \E f : Equation(f, k, lines, chosen)}
<1>1. SUFFICES ASSUME T # {} PROVE FALSE
  OBVIOUS
<1>2. PICK k \in T : \A j \in T : k <= j
  <2>1. T \in SUBSET Nat
    OBVIOUS
  <2> QED  BY <1>1, <2>1, Least
<1>3. CASE k = 0
  <2> DEFINE g == [n \in 0 .. 0 |-> <<>>]
  <2>1. Equation(g, 0, lines, chosen)
    BY DEF Equation
  <2> QED  BY <1>2, <1>3, <2>1
<1>4. CASE k # 0
  <2>1. k - 1 \in Nat /\ k - 1 \notin T /\ k \in Nat
    BY <1>2, <1>4
  <2>2. PICK f : Equation(f, k - 1, lines, chosen)
    BY <2>1
  <2> DEFINE After(h, n) == IF n \in chosen THEN Append(h[n - 1], RecordOf(lines[n]))
                           ELSE h[n - 1]
             g == [n \in 0 .. k |-> IF n = k THEN After(f, k) ELSE f[n]]
  <2>3. \A n \in 0 .. k - 1 : f[n] = IF n = 0 THEN <<>> ELSE After(f, n)
    BY <2>1, <2>2 DEF Equation
  <2>4. \A n \in 0 .. k : n # 0 => n - 1 \in 0 .. k - 1 /\ n - 1 \in 0 .. k /\ n - 1 # k
    BY <2>1
  <2>5. \A n \in 0 .. k - 1 : g[n] = f[n] /\ n \in 0 .. k /\ n # k
    BY <2>1
  <2>6. \A n \in 0 .. k : n # 0 => After(g, n) = After(f, n)
    BY <2>4, <2>5
  <2>7. \A n \in 0 .. k : g[n] = IF n = 0 THEN <<>> ELSE After(g, n)
    <3> TAKE n \in 0 .. k
    <3>1. CASE n = k
      BY <2>1, <2>6, <3>1, <1>4
    <3>2. CASE n # k
      <4>1. n \in 0 .. k - 1
        BY <2>1, <3>2
      <4> HIDE DEF g, After
      <4> QED  BY <2>3, <2>5, <2>6, <4>1
    <3> QED  BY <3>1, <3>2
  <2>8. Equation(g, k, lines, chosen)
    <3>1. g = [n \in 0 .. k |-> g[n]]
      OBVIOUS
    <3> HIDE DEF g
    <3> QED  BY <2>7, <3>1 DEF Equation
  <2> QED  BY <1>2, <2>8
<1> QED  BY <1>3, <1>4

LEMMA RecordsFromStep ==
    ASSUME NEW lines, NEW chosen, Len(lines) \in Nat
    PROVE  LET R == RecordsFrom(lines, chosen)
           IN  /\ R[0] = <<>>
               /\ \A n \in 1 .. Len(lines) :
                     R[n] = IF n \in chosen THEN Append(R[n - 1], RecordOf(lines[n]))
                                            ELSE R[n - 1]
<1> DEFINE R == RecordsFrom(lines, chosen)
<1>1. R = CHOOSE f : Equation(f, Len(lines), lines, chosen)
  BY DEF RecordsFrom, Equation
<1>2. Equation(R, Len(lines), lines, chosen)
  BY <1>1, RecordsExist
<1> HIDE DEF R
<1>3. \A n \in 0 .. Len(lines) :
         R[n] = IF n = 0 THEN <<>>
                ELSE IF n \in chosen THEN Append(R[n - 1], RecordOf(lines[n]))
                ELSE R[n - 1]
  BY <1>2 DEF Equation
<1> QED  BY <1>3 DEF R

\* What the first k lines amount to depends on which of them are chosen.
LEMMA RecordsFromAgree ==
    ASSUME NEW lines, Len(lines) \in Nat, NEW chosen, NEW others,
           NEW k \in 0 .. Len(lines), \A n \in 1 .. k : n \in chosen <=> n \in others
    PROVE  RecordsFrom(lines, chosen)[k] = RecordsFrom(lines, others)[k]
<1> DEFINE R == RecordsFrom(lines, chosen)
           S == RecordsFrom(lines, others)
           T == {n \in 0 .. k : R[n] # S[n]}
<1>1. /\ R[0] = S[0]
      /\ \A n \in 1 .. Len(lines) :
            /\ R[n] = IF n \in chosen THEN Append(R[n - 1], RecordOf(lines[n])) ELSE R[n - 1]
            /\ S[n] = IF n \in others THEN Append(S[n - 1], RecordOf(lines[n])) ELSE S[n - 1]
  BY RecordsFromStep
<1> HIDE DEF R, S
<1>2. SUFFICES ASSUME T # {} PROVE FALSE
  BY DEF R, S
<1>3. PICK n \in T : \A m \in T : n <= m
  <2>1. T \in SUBSET Nat
    OBVIOUS
  <2> QED  BY <1>2, <2>1, Least
<1>4. n # 0 /\ n \in 1 .. k /\ n \in 1 .. Len(lines) /\ n - 1 \in 0 .. k
  BY <1>1, <1>3
<1>5. R[n - 1] = S[n - 1]
  BY <1>3, <1>4
<1> QED  BY <1>1, <1>3, <1>4, <1>5

LEMMA DifferentLines == BadLine # Blank /\ Blank # TooLong /\ BadLine # TooLong
<1>1. ASSUME NEW x, NEW y, {BadLine, Blank, TooLong} = {x, y} PROVE FALSE
  <2>1. IsFiniteSet({x}) /\ Cardinality({x}) = 1
    BY FS_Singleton
  <2>2. Cardinality({x} \union {y}) = IF y \in {x} THEN Cardinality({x}) ELSE Cardinality({x}) + 1
    BY <2>1, FS_AddElement
  <2>3. {x} \union {y} = {BadLine, Blank, TooLong}
    BY <1>1
  <2>4. Cardinality({BadLine, Blank, TooLong}) = 3
    BY PackAssumption
  <2> QED  BY <2>1, <2>2, <2>3, <2>4
<1>2. ASSUME BadLine = Blank PROVE FALSE
  BY <1>2, <1>1
<1>3. ASSUME Blank = TooLong PROVE FALSE
  BY <1>3, <1>1
<1>4. ASSUME BadLine = TooLong PROVE FALSE
  BY <1>4, <1>1
<1> QED  BY <1>2, <1>3, <1>4
===============================================================================
