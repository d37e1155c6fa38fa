---------------------------- MODULE SelfTestProofs ----------------------------
(***************************************************************************)
(* What WritePack leaves on the disk at every moment, whatever chain it    *)
(* writes and wherever it fails, and what an exit code of 0 of the         *)
(* self-test means.                                                        *)
(*                                                                         *)
(* The invariant follows the calls of WritePack: the lines written so far  *)
(* are the first records of the chain, a torn one ends it, and keys.json   *)
(* is there only behind a whole chain.                                     *)
(***************************************************************************)
EXTENDS SelfTest, CompliancePackProofs

BeforeChain == {"mkdir", "manifest", "fill manifest", "chain"}
InChain == {"records", "newline"}
AfterChain == {"keys", "fill keys", "written"}

\* The chain to write.
ChainOK ==
    chain.records \in Seq(Record) /\ chain.bundle \in Seq(KeyRecord) \union {Nil}

Disk ==
    [manifest : ManifestConditions,
     chain    : Seq(Seq(Record \union {BadLine})) \union {Absent},
     keys     : {Absent, BadKeys, chain.bundle}]

\* The lines on the disk are the records written, the last one torn perhaps.
LinesOnDisk ==
    /\ disk.chain \in Seq(Seq(Record \union {BadLine}))
    /\ Len(disk.chain) = written
    /\ \A n \in 1 .. written :
          \/ disk.chain[n] = <<chain.records[n]>>
          \/ disk.chain[n] = <<BadLine>> /\ step = "failed"

WriterInv ==
    /\ ChainOK /\ disk \in Disk
    /\ step \in BeforeChain \union InChain \union AfterChain \union {"failed"}
    /\ written \in 0 .. Len(chain.records) /\ lineEnded \in BOOLEAN
    /\ step \in BeforeChain => disk.chain = Absent /\ written = 0
    /\ step \in BeforeChain \union {"records"} => lineEnded = TRUE
    /\ step \in InChain \union AfterChain => LinesOnDisk
    /\ step = "failed" => disk.chain = Absent \/ LinesOnDisk
    /\ step \in AfterChain => written = Len(chain.records)
    /\ step \in {"keys", "fill keys"} => chain.bundle # Nil
    /\ disk.keys # Absent => /\ step \in {"fill keys", "written", "failed"}
                             /\ written = Len(chain.records)

-----------------------------------------------------------------------------
LEMMA ScenariosAreChains ==
    /\ DOMAIN Scenarios = 1 .. 5 /\ Len(Scenarios) = 5
    /\ \A n \in 1 .. 5 :
          /\ Scenarios[n].chain.records \in Seq(Record)
          /\ Scenarios[n].chain.bundle \in Seq(KeyRecord) \union {Nil}
          /\ Scenarios[n].verdict \in Verdicts
<1>1. DOMAIN Scenarios = 1 .. 5 /\ Len(Scenarios) = 5
  BY DEF Scenarios
<1>2. \A n \in 1 .. 5 : Scenarios[n].chain.records \in Seq(Record)
  BY <1>1, ScenariosAreOfRecords
<1>3. Bundle1 \in Seq(KeyRecord) /\ Bundle2 \in Seq(KeyRecord)
  <2>1. /\ Wrapped(OldKey, "active", Kek, OldDek) \in KeyRecord
        /\ Wrapped(NewKey, "active", Kek, NewDek) \in KeyRecord
        /\ Wrapped(OldKey, "rotating", Kek, OldDek) \in KeyRecord
    BY SelfTestAssumption DEF Wrapped, KeyRecord, Envelope
  <2> QED  BY <2>1 DEF Bundle1, Bundle2
<1>4. \A n \in 1 .. 5 : /\ Scenarios[n].chain.bundle \in {Bundle1, Bundle2, Nil}
                        /\ Scenarios[n].verdict \in Verdicts
  BY DEF Scenarios, Scenario, Verdicts
<1> QED  BY <1>1, <1>2, <1>3, <1>4

LEMMA WriterInitInv ==
    ASSUME NEW n \in 1 .. 5, WriterInit(Scenarios[n].chain)
    PROVE  WriterInv
<1>1. ChainOK
  BY ScenariosAreChains DEF WriterInit, ChainOK
<1>2. disk \in Disk /\ 0 \in 0 .. Len(chain.records)
  BY <1>1 DEF WriterInit, EmptyDisk, Disk, ManifestConditions, ChainOK
<1> QED  BY <1>1, <1>2 DEF WriterInit, EmptyDisk, WriterInv, BeforeChain, InChain, AfterChain

LEMMA WriteNextInv ==
    ASSUME NEW n \in 1 .. 5, WriteNext(Scenarios[n].chain)
    PROVE  WriterInv'
<1>1. ChainOK'
  BY ScenariosAreChains DEF WriteNext, ChainOK
<1>2. (disk \in Disk)' /\ 0 \in 0 .. Len(chain'.records)
  BY <1>1 DEF WriteNext, EmptyDisk, Disk, ManifestConditions, ChainOK
<1> QED  BY <1>1, <1>2 DEF WriteNext, EmptyDisk, WriterInv, BeforeChain, InChain, AfterChain

\* A call that leaves chain.jsonl alone.
LEMMA SameLines ==
    ASSUME WriterInv, UNCHANGED <<chain, written>>, disk' \in Disk, disk'.chain = disk.chain
    PROVE  /\ ChainOK' /\ (disk \in Disk)' /\ written' \in 0 .. Len(chain'.records)
           /\ LinesOnDisk /\ (step # "failed" \/ step' = "failed") => LinesOnDisk'
BY DEF WriterInv, ChainOK, Disk, LinesOnDisk

LEMMA MakeDirectoryInv == WriterInv /\ MakeDirectory => WriterInv'
BY SameLines DEF WriterInv, MakeDirectory, Goes, BeforeChain, InChain, AfterChain

LEMMA WriteManifestInv ==
    ASSUME WriterInv, WriteManifest
    PROVE  WriterInv'
<1>1. /\ disk' \in Disk /\ disk'.chain = disk.chain /\ disk'.keys = disk.keys
      /\ step \in {"manifest", "fill manifest"} /\ step' \in {"fill manifest", "chain"}
      /\ UNCHANGED <<chain, written, lineEnded>>
  BY DEF WriterInv, WriteManifest, Goes, StepAfter, Disk, ManifestConditions
<1> QED  BY <1>1, SameLines DEF WriterInv, BeforeChain, InChain, AfterChain

LEMMA CreateChainInv ==
    ASSUME WriterInv, CreateChain
    PROVE  WriterInv'
<1>1. /\ disk' = [disk EXCEPT !.chain = <<>>] /\ step = "chain" /\ step' = "records"
      /\ UNCHANGED <<chain, written, lineEnded>> /\ written = 0
      /\ lineEnded = TRUE /\ disk.keys = Absent
  BY DEF WriterInv, CreateChain, Goes, BeforeChain, InChain, AfterChain
<1>2. (disk \in Disk)' /\ disk'.chain = <<>> /\ disk'.keys = disk.keys
  <2>1. <<>> \in Seq(Seq(Record \union {BadLine}))
    OBVIOUS
  <2> QED  BY <1>1, <2>1 DEF WriterInv, Disk
<1>3. LinesOnDisk'
  BY <1>1, <1>2 DEF LinesOnDisk
<1> QED  BY <1>1, <1>2, <1>3 DEF WriterInv, ChainOK, BeforeChain, InChain, AfterChain

LEMMA WriteRecordInv ==
    ASSUME WriterInv, WriteRecord
    PROVE  WriterInv'
<1>1. /\ step = "records" /\ written < Len(chain.records) /\ lineEnded = TRUE
      /\ written' = written + 1 /\ lineEnded' = FALSE /\ chain' = chain
      /\ LinesOnDisk /\ disk.keys = Absent /\ disk \in Disk /\ ChainOK
      /\ written \in 0 .. Len(chain.records)
  BY DEF WriterInv, WriteRecord, BeforeChain, InChain, AfterChain
<1>2. PICK whole \in BOOLEAN :
         /\ disk' = [disk EXCEPT !.chain =
                        Append(disk.chain, <<IF whole THEN chain.records[written + 1]
                                                      ELSE BadLine>>)]
         /\ step' = IF whole THEN "newline" ELSE "failed"
  BY <1>1 DEF WriteRecord, Appended
<1> DEFINE piece == IF whole THEN chain.records[written + 1] ELSE BadLine
           lines == Append(disk.chain, <<piece>>)
<1>3. /\ Len(chain.records) \in Nat /\ written + 1 \in 1 .. Len(chain.records)
      /\ chain.records[written + 1] \in Record
  BY <1>1 DEF ChainOK
<1>4. <<piece>> \in Seq(Record \union {BadLine})
  BY <1>3
<1>5. disk.chain \in Seq(Seq(Record \union {BadLine})) /\ Len(disk.chain) = written
  BY <1>1 DEF LinesOnDisk
<1>6. disk'.chain = lines /\ disk'.keys = disk.keys /\ disk'.manifest = disk.manifest
  BY <1>1, <1>2 DEF Disk
<1> HIDE DEF piece
<1>7. /\ lines \in Seq(Seq(Record \union {BadLine})) /\ Len(lines) = written + 1
      /\ \A n \in 1 .. written : lines[n] = disk.chain[n]
      /\ lines[written + 1] = <<piece>>
  <2>1. /\ lines \in Seq(Seq(Record \union {BadLine})) /\ Len(lines) = Len(disk.chain) + 1
        /\ \A n \in 1 .. Len(disk.chain) : lines[n] = disk.chain[n]
        /\ lines[Len(disk.chain) + 1] = <<piece>>
    BY ONLY <1>4, <1>5, AppendProperties
  <2> QED  BY <1>5, <2>1
<1> HIDE DEF lines
<1>8. (disk \in Disk)'
  <2>1. disk' = [disk EXCEPT !.chain = lines]
    BY <1>2 DEF lines, piece
  <2> QED  BY <1>1, <1>7, <2>1 DEF Disk
<1>9. LinesOnDisk'
  <2>1. \A n \in 1 .. written + 1 : n \in 1 .. written \/ n = written + 1
    BY <1>1
  <2>2. \A n \in 1 .. written : disk.chain[n] = <<chain.records[n]>>
    BY <1>1 DEF LinesOnDisk
  <2>3. \/ piece = chain.records[written + 1]
        \/ piece = BadLine /\ step' = "failed"
    BY <1>2 DEF piece
  <2> QED  BY <1>1, <1>6, <1>7, <2>1, <2>2, <2>3 DEF LinesOnDisk
<1>10. step' \in {"newline", "failed"}
  BY <1>2
<1>11. written' \in 0 .. Len(chain'.records)
  BY <1>1, <1>3
<1>12. ChainOK' /\ disk'.keys = Absent
  BY <1>1, <1>6 DEF ChainOK
<1> HIDE DEF piece
<1> QED  BY <1>1, <1>8, <1>9, <1>10, <1>11, <1>12
         DEF WriterInv, BeforeChain, InChain, AfterChain

LEMMA WriteNewlineInv == WriterInv /\ WriteNewline => WriterInv'
<1> SUFFICES ASSUME WriterInv, WriteNewline PROVE WriterInv'
  OBVIOUS
<1>1. /\ step = "newline" /\ step' = "records" /\ lineEnded' = TRUE
      /\ UNCHANGED <<chain, disk, written>> /\ disk' \in Disk /\ disk.keys = Absent
  BY DEF WriterInv, WriteNewline, Goes, Disk
<1> QED  BY <1>1, SameLines DEF WriterInv, BeforeChain, InChain, AfterChain

LEMMA EndOfRecordsInv ==
    ASSUME WriterInv, EndOfRecords
    PROVE  WriterInv'
<1>1. /\ step = "records" /\ written = Len(chain.records)
      /\ step' \in {"keys", "written"} /\ (step' = "keys" => chain.bundle # Nil)
      /\ UNCHANGED <<chain, disk, written, lineEnded>> /\ disk' \in Disk /\ disk.keys = Absent
  BY DEF WriterInv, EndOfRecords, Goes, StepAfter, Disk
<1> QED  BY <1>1, SameLines DEF WriterInv, BeforeChain, InChain, AfterChain

LEMMA WriteKeysInv ==
    ASSUME WriterInv, WriteKeys
    PROVE  WriterInv'
<1>1. /\ disk' \in Disk /\ disk'.chain = disk.chain
      /\ step \in {"keys", "fill keys"} /\ step' \in {"fill keys", "written"}
      /\ UNCHANGED <<chain, written, lineEnded>>
  BY DEF WriterInv, WriteKeys, Goes, StepAfter, Disk
<1> QED  BY <1>1, SameLines DEF WriterInv, BeforeChain, InChain, AfterChain

LEMMA CallFailsInv ==
    ASSUME WriterInv, CallFails
    PROVE  WriterInv'
<1>1. /\ step' = "failed" /\ disk' \in Disk /\ step # "failed"
      /\ UNCHANGED <<chain, disk, written, lineEnded>>
  BY DEF WriterInv, CallFails, Disk
<1> QED  BY <1>1, SameLines DEF WriterInv, BeforeChain, InChain, AfterChain

LEMMA WriteStepInv == WriterInv /\ WriteStep => WriterInv'
BY MakeDirectoryInv, WriteManifestInv, CreateChainInv, WriteRecordInv, WriteNewlineInv,
   EndOfRecordsInv, WriteKeysInv, CallFailsInv DEF WriteStep

LEMMA WriterUnchangedInv == WriterInv /\ UNCHANGED writerVars => WriterInv'
<1> SUFFICES ASSUME WriterInv, UNCHANGED writerVars PROVE WriterInv'
  OBVIOUS
<1>1. UNCHANGED <<chain, disk, written, lineEnded, step>> /\ disk' \in Disk
  BY DEF writerVars, WriterInv, Disk
<1> QED  BY <1>1, SameLines DEF WriterInv, BeforeChain, InChain, AfterChain

LEMMA WriterTypeCorrect == WriterInv => WriterTypeOK
<1> SUFFICES ASSUME WriterInv PROVE WriterTypeOK
  OBVIOUS
<1>1. ASSUME disk.chain # Absent, NEW n \in DOMAIN disk.chain, NEW k \in DOMAIN disk.chain[n]
      PROVE  disk.chain[n][k] = BadLine \/ DOMAIN disk.chain[n][k] = Fields
  <2>1. disk.chain \in Seq(Seq(Record \union {BadLine}))
    BY <1>1 DEF WriterInv, Disk
  <2>2. disk.chain[n] \in Seq(Record \union {BadLine})
    BY <1>1, <2>1
  <2>3. disk.chain[n][k] \in Record \union {BadLine}
    BY <1>1, <2>2
  <2>4. \A r \in Record : DOMAIN r = Fields
    BY DEF Record, Fields, Required
  <2> QED  BY <2>3, <2>4
<1>2. /\ disk.manifest \in ManifestConditions /\ disk.keys \in {Absent, BadKeys, chain.bundle}
      /\ written \in 0 .. Len(chain.records) /\ lineEnded \in BOOLEAN
  BY DEF WriterInv, Disk
<1> QED  BY <1>1, <1>2 DEF WriterTypeOK

-----------------------------------------------------------------------------
\* A record that is written out and read again is the same record.
LEMMA RecordIsReadBack ==
    ASSUME NEW r \in Record
    PROVE  RecordOf(r) = r /\ r \notin {Blank, TooLong, BadLine}
<1>1. /\ DOMAIN r = Fields /\ r = [f \in Fields |-> r[f]]
      /\ \A f \in {"id", "previous_chain_hash", "chain_hash"} : r[f] \in Texts
      /\ r["seq"] \in Numbers /\ r["body"] \in Bodies
  BY DEF Record, Fields, Required
<1>2. \A f \in Fields : r[f] = Nil => ZeroOf(f) = Nil
  BY <1>1, RecordAssumption, PackAssumption DEF Fields, Required, ZeroOf, Numbers
<1>3. \A f \in Fields : (IF f \in DOMAIN r /\ r[f] # Nil THEN r[f] ELSE ZeroOf(f)) = r[f]
  BY <1>1, <1>2
<1>4. RecordOf(r) = r
  BY <1>1, <1>3 DEF RecordOf
<1> QED  BY <1>4, PackAssumption

\* Lines that are the first records of a chain amount to these records.
LEMMA LinesAreRecords ==
    ASSUME NEW lines, Len(lines) \in Nat, DOMAIN lines = 1 .. Len(lines),
           NEW rs \in Seq(Record), Len(lines) <= Len(rs),
           \A n \in 1 .. Len(lines) : lines[n] = rs[n]
    PROVE  RecordsOf(lines) = SubSeq(rs, 1, Len(lines))
<1> DEFINE chosen == {n \in DOMAIN lines : lines[n] # Blank}
           R == RecordsFrom(lines, chosen)
           T == {n \in 0 .. Len(lines) : R[n] # SubSeq(rs, 1, n)}
<1>1. /\ R[0] = <<>>
      /\ \A n \in 1 .. Len(lines) :
            R[n] = IF n \in chosen THEN Append(R[n - 1], RecordOf(lines[n])) ELSE R[n - 1]
  BY RecordsFromStep
<1>2. \A n \in 1 .. Len(lines) : n \in chosen /\ RecordOf(lines[n]) = rs[n] /\ rs[n] \in Record
  <2> TAKE n \in 1 .. Len(lines)
  <2>1. n \in 1 .. Len(rs) /\ lines[n] = rs[n]
    OBVIOUS
  <2>2. rs[n] \in Record
    BY <2>1
  <2> QED  BY <2>1, <2>2, RecordIsReadBack
<1> HIDE DEF R, chosen
<1>3. SubSeq(rs, 1, 0) = <<>>
  OBVIOUS
<1>4. \A n \in 1 .. Len(lines) : SubSeq(rs, 1, n) = Append(SubSeq(rs, 1, n - 1), rs[n])
  OBVIOUS
<1>5. T = {}
  <2>1. SUFFICES ASSUME T # {} PROVE FALSE
    OBVIOUS
  <2>2. T \in SUBSET Nat
    OBVIOUS
  <2>3. PICK n \in T : \A m \in T : n <= m
    BY <2>1, <2>2, Least
  <2>6. n \in 0 .. Len(lines) /\ n # 0
    BY <1>1, <1>3, <2>3
  <2>4. n \in 1 .. Len(lines) /\ n - 1 \in 0 .. Len(lines) /\ ~(n <= n - 1)
    BY ONLY <2>6, Len(lines) \in Nat
  <2>5. R[n - 1] = SubSeq(rs, 1, n - 1)
    BY <2>3, <2>4
  <2> QED  BY <1>1, <1>2, <1>4, <2>3, <2>4, <2>5
<1>6. R[Len(lines)] = SubSeq(rs, 1, Len(lines))
  BY <1>5
<1> QED  BY <1>6 DEF R, chosen, RecordsOf

\* What a reader makes of a pack it accepts, as far as it has been written.
LEMMA AcceptedIsWritten ==
    ASSUME WriterInv, WellFormed(PackOnDisk)
    PROVE  /\ written \in 0 .. Len(chain.records) /\ chain.records \in Seq(Record)
           /\ RecordsOf(PackOnDisk.chain) = SubSeq(chain.records, 1, written)
<1> DEFINE lines == [n \in DOMAIN disk.chain |-> LineOf(disk.chain[n])]
<1>1. disk.chain # Absent /\ Readable(PackOnDisk) /\ PackOnDisk.chain = lines
  BY DEF WellFormed, Openable, PackOnDisk
<1>2. LinesOnDisk
  BY <1>1 DEF WriterInv, BeforeChain
<1>3. DOMAIN disk.chain = 1 .. written /\ written \in Nat /\ written <= Len(chain.records)
      /\ chain.records \in Seq(Record) /\ written \in 0 .. Len(chain.records)
  <2>1. chain.records \in Seq(Record) /\ written \in 0 .. Len(chain.records)
    BY DEF WriterInv, ChainOK
  <2>2. disk.chain \in Seq(Seq(Record \union {BadLine})) /\ Len(disk.chain) = written
    BY <1>2 DEF LinesOnDisk
  <2>3. Len(chain.records) \in Nat
    BY <2>1
  <2>4. DOMAIN disk.chain = 1 .. written
    BY ONLY <2>2
  <2> QED  BY <2>1, <2>3, <2>4
<1>4. lines = [n \in 1 .. written |-> LineOf(disk.chain[n])]
  BY <1>3
<1>5. DOMAIN lines = 1 .. Len(lines) /\ Len(lines) = written
  BY <1>3, <1>4
<1>6. \A n \in 1 .. written : lines[n] = chain.records[n]
  <2> TAKE n \in 1 .. written
  <2>1. lines[n] = disk.chain[n][1]
    BY <1>4 DEF LineOf
  <2>2. CASE disk.chain[n] = <<BadLine>>
    <3>2. disk.chain[n][1] = BadLine
      BY ONLY <2>2
    <3>1. lines[n] = BadLine /\ n \in DOMAIN lines
      BY <1>4, <2>1, <3>2
    <3> HIDE DEF lines
    <3> QED  BY <1>1, <3>1, DifferentLines DEF Readable, Parses
  <2>3. CASE disk.chain[n] = <<chain.records[n]>>
    BY <2>1, <2>3
  <2> QED  BY <1>2, <2>2, <2>3 DEF LinesOnDisk
<1> HIDE DEF lines
<1>7. RecordsOf(lines) = SubSeq(chain.records, 1, written)
  BY <1>3, <1>5, <1>6, LinesAreRecords
<1> QED  BY <1>1, <1>3, <1>7

LEMMA WholeOrUnattested == WriterInv => AttestedOnlyWhole
<1> SUFFICES ASSUME WriterInv, NEW kek \in Keks \union {Nil}, NEW strict \in BOOLEAN,
                    ExitCodeOf(Judgement(PackOnDisk, kek, strict)) = 0
             PROVE  LET seen == RecordsOf(PackOnDisk.chain)
                    IN  /\ IsPrefix(seen, chain.records)
                        /\ (\E n \in DOMAIN seen : seen[n].hmac # Nil) => seen = chain.records
  BY DEF AttestedOnlyWhole
<1> DEFINE seen == RecordsOf(PackOnDisk.chain)
           bundle0 == BundleOf(PackOnDisk)
<1>1. WellFormed(PackOnDisk) /\ \A n \in DOMAIN seen : Acceptable(seen, n, bundle0, kek, strict)
  <2> DEFINE j == Judgement(PackOnDisk, kek, strict)
  <2>1. j \notin {"malformed", "failed"}
    <3>1. ExitCodeOf("malformed") = 2 /\ ExitCodeOf("failed") = 1
      BY DEF ExitCodeOf
    <3> QED  BY <3>1
  <2> QED  BY <2>1 DEF Judgement
<1>2. /\ written \in 0 .. Len(chain.records) /\ chain.records \in Seq(Record)
      /\ seen = SubSeq(chain.records, 1, written)
  BY <1>1, AcceptedIsWritten
<1>3. Len(chain.records) \in Nat
  BY <1>2
<1> HIDE DEF seen, bundle0
<1>4. seen \in Seq(Record) /\ Len(seen) = written /\ \A n \in 1 .. written : seen[n] = chain.records[n]
  BY ONLY <1>2, <1>3
<1>5. IsPrefix(seen, chain.records)
  <2>1. SubSeq(seen, 1, Len(seen)) = seen
    BY ONLY <1>4
  <2>2. SubSeq(chain.records, 1, Len(seen)) = seen
    BY <1>2, <1>4
  <2> QED  BY <1>2, <1>3, <1>4, <2>1, <2>2 DEF IsPrefix
<1>6. ASSUME NEW n \in DOMAIN seen, seen[n].hmac # Nil
      PROVE  seen = chain.records
  <2>1. Signed(seen[n], bundle0, kek)
    BY <1>1, <1>6 DEF Acceptable
  <2>2. bundle0 # Nil
    BY <2>1 DEF Signed, Usable, Holds
  <2>3. disk.keys # Absent
    BY <2>2 DEF bundle0, BundleOf, PackOnDisk
  <2>4. written = Len(chain.records)
    BY <2>3 DEF WriterInv
  <2>5. seen = SubSeq(chain.records, 1, Len(chain.records))
    BY <1>2, <2>4
  <2> QED  BY ONLY <1>2, <2>5
<1> QED  BY <1>5, <1>6 DEF seen

-----------------------------------------------------------------------------
(***************************************************************************)
(* BuildChain: its equation, and that a function with that equation exists.*)
(***************************************************************************)
NextBuilt(f, specs, n) ==
    Signing(IF n = 1 THEN SealFirst(Content) ELSE SealAfter(f[n - 1], Content), specs[n])

BuildEquation(f, m, specs) == f = [n \in 1 .. m |-> NextBuilt(f, specs, n)]

LEMMA BuiltExists ==
    ASSUME NEW specs, NEW m \in Nat
    PROVE  \E f : BuildEquation(f, m, specs)
<1> DEFINE T == {k \in Nat : ~ \E f : BuildEquation(f, k, specs)}
<1>1. SUFFICES ASSUME T # {} PROVE FALSE
  OBVIOUS
<1>2. PICK k \in T : \A j \in T : k <= j
  <2>1. T \in SUBSET Nat
    OBVIOUS
  <2> QED  BY <1>1, <2>1, Least
<1>3. k # 0
  <2> DEFINE g == [n \in 1 .. 0 |-> NextBuilt(<<>>, specs, n)]
  <2>1. g = [n \in 1 .. 0 |-> NextBuilt(g, specs, n)]
    <3>1. 1 .. 0 = {}
      OBVIOUS
    <3> QED  BY <3>1
  <2>2. BuildEquation(g, 0, specs)
    BY <2>1 DEF BuildEquation
  <2> QED  BY <1>2, <2>2
<1>4. k - 1 \in Nat /\ k - 1 \notin T /\ k \in Nat
  BY <1>2, <1>3
<1>5. PICK f : BuildEquation(f, k - 1, specs)
  BY <1>4
<1> DEFINE g == [n \in 1 .. k |-> IF n = k THEN NextBuilt(f, specs, k) ELSE f[n]]
<1>6. \A n \in 1 .. k - 1 : f[n] = NextBuilt(f, specs, n) /\ g[n] = f[n]
  <2>1. \A n \in 1 .. k - 1 : f[n] = NextBuilt(f, specs, n)
    BY <1>5 DEF BuildEquation
  <2>2. \A n \in 1 .. k - 1 : n \in 1 .. k /\ n # k
    BY <1>4
  <2> QED  BY <2>1, <2>2
<1>7. \A n \in 1 .. k : NextBuilt(g, specs, n) = NextBuilt(f, specs, n)
  <2> TAKE n \in 1 .. k
  <2>1. n = 1 \/ n - 1 \in 1 .. k - 1
    BY <1>4
  <2>2. n = 1 \/ g[n - 1] = f[n - 1]
    BY <1>6, <2>1
  <2> QED  BY <2>2 DEF NextBuilt
<1>8. \A n \in 1 .. k : g[n] = NextBuilt(g, specs, n)
  <2> TAKE n \in 1 .. k
  <2>1. n = k \/ n \in 1 .. k - 1
    BY <1>4
  <2>2. k \in 1 .. k => g[k] = NextBuilt(f, specs, k)
    OBVIOUS
  <2> HIDE DEF g
  <2> QED  BY <1>6, <1>7, <2>1, <2>2
<1>9. BuildEquation(g, k, specs)
  <2>1. g = [n \in 1 .. k |-> g[n]]
    OBVIOUS
  <2> HIDE DEF g
  <2> QED  BY <1>8, <2>1 DEF BuildEquation
<1> QED  BY <1>2, <1>9

Specs == Seq(KeyIds \union {Nil})

LEMMA BuildChainEquation ==
    ASSUME NEW specs \in Specs
    PROVE  BuildEquation(BuildChain(specs), Len(specs), specs)
<1>1. DOMAIN specs = 1 .. Len(specs) /\ Len(specs) \in Nat
  BY DEF Specs
<1>2. BuildChain(specs) = CHOOSE f : BuildEquation(f, Len(specs), specs)
  BY <1>1 DEF BuildChain, BuildEquation, NextBuilt
<1> QED  BY <1>1, <1>2, BuiltExists

(***************************************************************************)
(* A chain of BuildChain is sound, and each record of it signed with the   *)
(* key it was to be signed with, if there is one.                          *)
(***************************************************************************)
Built(c, specs) ==
    /\ DOMAIN c = DOMAIN specs
    /\ \A n \in DOMAIN c :
          /\ Sound(c, n) /\ c[n].body = Content
          /\ c[n].key_id = specs[n]
          /\ c[n].hmac = IF specs[n] = Nil THEN Nil
                         ELSE MacOf(Pair(specs[n]), c[n].id, c[n].chain_hash)

LEMMA ChainsAreBuilt ==
    ASSUME NEW specs \in Specs, BuildChain(specs) \in Seq(Record)
    PROVE  Built(BuildChain(specs), specs)
<1> DEFINE c == BuildChain(specs)
<1>1. /\ Len(specs) \in Nat /\ DOMAIN specs = 1 .. Len(specs)
      /\ \A n \in 1 .. Len(specs) : specs[n] \in KeyIds \union {Nil}
  BY DEF Specs
<1>2. BuildEquation(c, Len(specs), specs)
  BY BuildChainEquation
<1>3. DOMAIN c = 1 .. Len(specs) /\ \A n \in 1 .. Len(specs) : c[n] \in Record
  <2>1. DOMAIN c = 1 .. Len(specs)
    BY <1>2 DEF BuildEquation
  <2>2. \A n \in DOMAIN c : c[n] \in Record
    OBVIOUS
  <2> QED  BY <2>1, <2>2
<1>4. \A n \in 1 .. Len(specs) : c[n] = NextBuilt(c, specs, n)
  BY <1>2 DEF BuildEquation
<1> HIDE DEF c
<1>5. ASSUME NEW n \in 1 .. Len(specs)
      PROVE  /\ Sound(c, n) /\ c[n].body = Content
             /\ c[n].key_id = specs[n]
             /\ c[n].hmac = IF specs[n] = Nil THEN Nil
                            ELSE MacOf(Pair(specs[n]), c[n].id, c[n].chain_hash)
  <2> DEFINE before == Predecessor(c, n)
             sealed == Seal(before.seq + 1, Content, before.id, before.chain_hash)
  <2>1. c[n] = Signing(sealed, specs[n])
    <3>1. CASE n = 1
      BY <1>4, <3>1 DEF NextBuilt, Predecessor, SealFirst
    <3>2. CASE n # 1
      BY <1>4, <3>2 DEF NextBuilt, Predecessor, SealAfter
    <3> QED  BY <3>1, <3>2
  <2>2. before.seq \in Numbers /\ before.seq + 1 \in Numbers
    <3>1. c[n].seq = before.seq + 1
      BY <2>1 DEF Signing, Sign, Seal
    <3>2. c[n].seq \in Numbers
      BY <1>3 DEF Record
    <3>3. CASE n = 1
      BY <3>1, <3>2, <3>3, RecordAssumption DEF Predecessor, Numbers
    <3>4. CASE n # 1
      <4>1. n - 1 \in 1 .. Len(specs)
        BY <1>1, <3>4
      <4>2. before.seq \in Numbers
        BY <1>3, <3>4, <4>1 DEF Predecessor, Record
      <4> QED  BY <3>1, <3>2, <4>2
    <3> QED  BY <3>3, <3>4
  <2>3. before.seq + 1 = Successor(before.seq)
    BY <2>2, RecordAssumption DEF Numbers, Successor
  <2> HIDE DEF before
  <2>4. /\ c[n].seq = Successor(before.seq) /\ c[n].body = Content
        /\ c[n].previous_id = before.id /\ c[n].previous_chain_hash = before.chain_hash
        /\ c[n].id = IdOf(CanonicalPayload(c[n]))
        /\ c[n].chain_hash = ChainHashOf(c[n].previous_chain_hash, c[n].id)
    BY <2>1, <2>3 DEF Signing, Sign, Seal, CanonicalPayload
  <2>5. Sound(c, n)
    BY <2>4 DEF Sound, Follows, SelfConsistent, before
  <2>6. /\ c[n].key_id = specs[n]
        /\ c[n].hmac = IF specs[n] = Nil THEN Nil
                       ELSE MacOf(Pair(specs[n]), c[n].id, c[n].chain_hash)
    BY <2>1 DEF Signing, Sign, Seal
  <2> QED  BY <2>4, <2>5, <2>6
<1>6. DOMAIN c = DOMAIN specs
  BY <1>1, <1>3
<1> QED  BY <1>3, <1>5, <1>6 DEF Built, c

\* A bundle in which one record has the key_id finds that record.
LEMMA OnlyRecordIsFound ==
    ASSUME NEW bundle \in Seq(KeyRecord), NEW keyId \in KeyIds, NEW n \in DOMAIN bundle,
           \A m \in DOMAIN bundle : bundle[m].key_id = keyId <=> m = n
    PROVE  Holds(bundle, keyId) /\ FirstRecord(bundle, keyId) = bundle[n]
<1>1. bundle \in KeyBundle /\ bundle # Nil
  BY KeysAssumption DEF KeyBundle
<1>2. Holds(bundle, keyId)
  BY <1>1 DEF Holds
<1>3. /\ FirstRecord(bundle, keyId).key_id = keyId
      /\ \E m \in DOMAIN bundle : FirstRecord(bundle, keyId) = bundle[m]
  BY <1>1, <1>2, FirstRecordProperties
<1> QED  BY <1>2, <1>3

\* The keys that a scenario signs with are in its bundle, and the KEK opens them.
LEMMA KeysOfTheBundles ==
    /\ Usable(Bundle1, Kek, OldKey) /\ FirstRecord(Bundle1, OldKey).envelope.dek = Pair(OldKey)
    /\ \A keyId \in {OldKey, NewKey} :
          /\ Usable(Bundle2, Kek, keyId)
          /\ FirstRecord(Bundle2, keyId).envelope.dek = Pair(keyId)
<1> DEFINE old == Wrapped(OldKey, "active", Kek, OldDek)
           new == Wrapped(NewKey, "active", Kek, NewDek)
           older == Wrapped(OldKey, "rotating", Kek, OldDek)
<1>1. /\ old \in KeyRecord /\ new \in KeyRecord /\ older \in KeyRecord
      /\ OldKey \in KeyIds /\ NewKey \in KeyIds /\ OldKey # NewKey
  BY SelfTestAssumption DEF Wrapped, KeyRecord, Envelope
<1>2. \A dek \in Deks : Opens([kek |-> Kek, dek |-> dek], Kek)
  BY SelfTestAssumption, KeysAssumption DEF Opens
<1>3. /\ old.key_id = OldKey /\ new.key_id = NewKey /\ older.key_id = OldKey
      /\ old.envelope.dek = Pair(OldKey) /\ Opens(old.envelope, Kek)
      /\ new.envelope.dek = Pair(NewKey) /\ Opens(new.envelope, Kek)
      /\ older.envelope.dek = Pair(OldKey) /\ Opens(older.envelope, Kek)
  BY <1>1, <1>2, SelfTestAssumption DEF Wrapped, Pair
<1> HIDE DEF old, new, older
<1>4. Bundle1 = <<old>> /\ Bundle2 = <<new, older>>
  BY DEF Bundle1, Bundle2, old, new, older
<1>5. /\ Bundle1 \in Seq(KeyRecord) /\ DOMAIN Bundle1 = {1} /\ Bundle1[1] = old
      /\ Bundle2 \in Seq(KeyRecord) /\ DOMAIN Bundle2 = {1, 2}
      /\ Bundle2[1] = new /\ Bundle2[2] = older
  BY <1>1, <1>4
<1>6. Holds(Bundle1, OldKey) /\ FirstRecord(Bundle1, OldKey) = old
  BY <1>1, <1>3, <1>5, OnlyRecordIsFound
<1>7. Holds(Bundle2, NewKey) /\ FirstRecord(Bundle2, NewKey) = new
  <2>1. \A m \in DOMAIN Bundle2 : Bundle2[m].key_id = NewKey <=> m = 1
    BY <1>1, <1>3, <1>5
  <2> QED  BY <1>1, <1>5, <2>1, OnlyRecordIsFound
<1>8. Holds(Bundle2, OldKey) /\ FirstRecord(Bundle2, OldKey) = older
  <2>1. \A m \in DOMAIN Bundle2 : Bundle2[m].key_id = OldKey <=> m = 2
    BY <1>1, <1>3, <1>5
  <2> QED  BY <1>1, <1>5, <2>1, OnlyRecordIsFound
<1> QED  BY <1>3, <1>6, <1>7, <1>8 DEF Usable

\* A chain that is built is acceptable if the bundle has the keys it is signed with.
LEMMA BuiltIsAcceptable ==
    ASSUME NEW specs, NEW c, Built(c, specs), NEW bundle, NEW kek,
           \A n \in DOMAIN specs : specs[n] # Nil =>
              /\ Usable(bundle, kek, specs[n])
              /\ FirstRecord(bundle, specs[n]).envelope.dek = Pair(specs[n])
    PROVE  \A n \in DOMAIN c : Acceptable(c, n, bundle, kek, FALSE)
<1> TAKE n \in DOMAIN c
<1>1. /\ n \in DOMAIN specs /\ Sound(c, n) /\ c[n].key_id = specs[n]
      /\ c[n].hmac = IF specs[n] = Nil THEN Nil
                     ELSE MacOf(Pair(specs[n]), c[n].id, c[n].chain_hash)
  BY DEF Built
<1>2. CASE specs[n] = Nil
  BY <1>1, <1>2 DEF Acceptable
<1>3. CASE specs[n] # Nil
  BY <1>1, <1>3 DEF Acceptable, Signed
<1> QED  BY <1>2, <1>3

-----------------------------------------------------------------------------
\* The chain of the first scenario, which the next two damage.
LEMMA OneKeyIsBuilt ==
    LET c == BuildChain(OneKey)
    IN  /\ c \in Seq(Record) /\ DOMAIN c = {1, 2, 3} /\ Built(c, OneKey)
        /\ \A n \in DOMAIN OneKey : OneKey[n] = OldKey
        /\ \A n \in DOMAIN c : Signed(c[n], Bundle1, Kek)
<1> DEFINE c == BuildChain(OneKey)
<1>1. OneKey \in Specs /\ DOMAIN OneKey = {1, 2, 3} /\ \A n \in DOMAIN OneKey : OneKey[n] = OldKey
  BY SelfTestAssumption DEF OneKey, Specs
<1>2. c \in Seq(Record)
  <2>1. Scenarios[1].chain.records = c
    BY DEF Scenarios, Scenario
  <2> QED  BY <2>1, ScenariosAreChains
<1>3. Built(c, OneKey)
  BY <1>1, <1>2, ChainsAreBuilt
<1>4. DOMAIN c = {1, 2, 3}
  BY <1>1, <1>3 DEF Built
<1> HIDE DEF c
<1>5. \A n \in DOMAIN c : Acceptable(c, n, Bundle1, Kek, FALSE)
  <2>1. OldKey # Nil
    BY SelfTestAssumption, RecordAssumption
  <2> QED  BY <1>1, <1>3, <2>1, BuiltIsAcceptable, KeysOfTheBundles
<1>6. \A n \in DOMAIN c : c[n].hmac # Nil
  <2>1. Scenarios[1].chain = [records |-> c, bundle |-> Bundle1]
    BY DEF Scenarios, Scenario, c
  <2>2. 1 \in DOMAIN Scenarios /\ Bundle1 # Nil
    BY ScenariosAreChains, KeysOfTheBundles DEF Usable, Holds
  <2> QED  BY <2>1, <2>2, ScenariosAreOfRecords, RecordAssumption
<1> QED  BY <1>1, <1>2, <1>3, <1>4, <1>5, <1>6 DEF Acceptable, c

\* Content that was changed after the record was sealed: the id is another's.
LEMMA TamperedContentIsBad ==
    LET c == TamperContent(BuildChain(OneKey))
    IN  2 \in DOMAIN c /\ ~SelfConsistent(c[2])
<1> DEFINE c == BuildChain(OneKey)
           d == TamperContent(c)
<1>1. /\ c \in Seq(Record) /\ DOMAIN c = {1, 2, 3}
      /\ SelfConsistent(c[2]) /\ c[2].body = Content
  BY OneKeyIsBuilt DEF Built, Sound
<1> HIDE DEF c
<1>2. c[2] \in Record
  <2>1. c \in Seq(Record)
    BY <1>1
  <2>2. \A n \in DOMAIN c : c[n] \in Record
    BY ONLY <2>1
  <2> QED  BY <1>1, <2>2
<1>3. /\ 2 \in DOMAIN d /\ d[2].body = Tampered /\ d[2].id = c[2].id
  BY <1>1, <1>2 DEF TamperContent, Record
<1>4. CanonicalPayload(d[2]) # CanonicalPayload(c[2])
  <2>1. CanonicalPayload(d[2]).body = Tampered /\ CanonicalPayload(c[2]).body = Content
    BY <1>1, <1>3 DEF CanonicalPayload
  <2> QED  BY <2>1, SelfTestAssumption
<1>5. ~SelfConsistent(d[2])
  BY <1>1, <1>3, <1>4, IdCommits
<1> QED  BY <1>3, <1>5 DEF c

\* An HMAC with another first digit: the record is not signed.
LEMMA TamperedHmacIsBad ==
    LET c == TamperHmac(BuildChain(OneKey))
    IN  /\ 2 \in DOMAIN c /\ c[2].hmac # Nil
        /\ ~Signed(c[2], Bundle1, Kek)
<1> DEFINE c == BuildChain(OneKey)
           d == TamperHmac(c)
<1>1. /\ c \in Seq(Record) /\ DOMAIN c = {1, 2, 3}
      /\ Signed(c[2], Bundle1, Kek) /\ c[2].hmac # TamperedText
  BY OneKeyIsBuilt, FlipChanges
<1> HIDE DEF c
<1>2. c[2] \in Record
  <2>1. c \in Seq(Record)
    BY <1>1
  <2>2. \A n \in DOMAIN c : c[n] \in Record
    BY ONLY <2>1
  <2> QED  BY <1>1, <2>2
<1>3. /\ 2 \in DOMAIN d /\ d[2].hmac = TamperedText /\ d[2].key_id = c[2].key_id
      /\ d[2].id = c[2].id /\ d[2].chain_hash = c[2].chain_hash
  BY <1>1, <1>2 DEF TamperHmac, Record
<1>4. ~Signed(d[2], Bundle1, Kek)
  BY <1>1, <1>3 DEF Signed
<1>5. d[2].hmac # Nil
  <2>1. d = Scenarios[3].chain.records /\ Scenarios[3].chain.bundle = Bundle1
    BY DEF Scenarios, Scenario, c
  <2>2. Bundle1 # Nil
    BY KeysOfTheBundles DEF Usable, Holds
  <2>3. d[2].hmac \in Texts
    BY <1>3, <2>1, <2>2, ScenariosAreChains, ScenariosAreOfRecords
  <2> QED  BY <2>3, RecordAssumption
<1> QED  BY <1>3, <1>4, <1>5 DEF c

(***************************************************************************)
(* Each scenario's chain, once it is written out, deserves the verdict     *)
(* that the scenario expects.                                              *)
(***************************************************************************)
LEMMA ScenarioVerdicts ==
    ASSUME NEW n \in 1 .. 5, NEW p, WellFormed(p),
           RecordsOf(p.chain) = Scenarios[n].chain.records,
           BundleOf(p) = Scenarios[n].chain.bundle
    PROVE  Judgement(p, Scenarios[n].kek, FALSE) = Scenarios[n].verdict
<1> DEFINE c == Scenarios[n].chain.records
           bundle0 == Scenarios[n].chain.bundle
           kek0 == Scenarios[n].kek
           Good == \A i \in DOMAIN c : Acceptable(c, i, bundle0, kek0, FALSE)
           Attested == \A i \in DOMAIN c : c[i].hmac # Nil
<1>1. Judgement(p, kek0, FALSE) =
         IF ~Good THEN "failed"
         ELSE IF Attested THEN "verified" ELSE "verified_with_unattested_records"
  BY DEF Judgement
<1> HIDE DEF Good, Attested
<1>2. CASE n = 1
  <2>1. /\ c = BuildChain(OneKey) /\ bundle0 = Bundle1 /\ kek0 = Kek
        /\ Scenarios[n].verdict = "verified"
    BY <1>2 DEF Scenarios, Scenario
  <2>2. Good /\ Attested
    BY <2>1, OneKeyIsBuilt DEF Good, Attested, Acceptable, Built, Signed
  <2> QED  BY <1>1, <2>1, <2>2
<1>3. CASE n = 2
  <2>1. /\ c = TamperContent(BuildChain(OneKey)) /\ Scenarios[n].verdict = "failed"
    BY <1>3 DEF Scenarios, Scenario
  <2>2. ~Good
    BY <2>1, TamperedContentIsBad DEF Good, Acceptable, Sound
  <2> QED  BY <1>1, <2>1, <2>2
<1>4. CASE n = 3
  <2>1. /\ c = TamperHmac(BuildChain(OneKey)) /\ bundle0 = Bundle1 /\ kek0 = Kek
        /\ Scenarios[n].verdict = "failed"
    BY <1>4 DEF Scenarios, Scenario
  <2>2. ~Good
    BY <2>1, TamperedHmacIsBad DEF Good, Acceptable
  <2> QED  BY <1>1, <2>1, <2>2
<1>5. CASE n = 4
  <2> DEFINE specs == <<OldKey, OldKey, NewKey, NewKey>>
  <2>1. /\ c = BuildChain(specs) /\ bundle0 = Bundle2 /\ kek0 = Kek
        /\ Scenarios[n].verdict = "verified"
    BY <1>5 DEF Scenarios, Scenario
  <2>2. /\ specs \in Specs /\ \A i \in DOMAIN specs : specs[i] \in {OldKey, NewKey}
    BY SelfTestAssumption DEF Specs
  <2> HIDE DEF specs
  <2>3. c \in Seq(Record) /\ Built(c, specs)
    BY <2>1, <2>2, ScenariosAreChains, ChainsAreBuilt
  <2>4. Good
    BY <2>1, <2>2, <2>3, BuiltIsAcceptable, KeysOfTheBundles DEF Good
  <2>5. Attested
    <3>1. bundle0 # Nil
      BY <2>1, KeysOfTheBundles DEF Usable, Holds
    <3> QED  BY <3>1, ScenariosAreChains, ScenariosAreOfRecords, RecordAssumption DEF Attested
  <2> QED  BY <1>1, <2>1, <2>4, <2>5
<1>6. CASE n = 5
  <2> DEFINE specs == <<Nil, Nil, Nil>>
  <2>1. /\ c = BuildChain(specs)
        /\ Scenarios[n].verdict = "verified_with_unattested_records"
    BY <1>6 DEF Scenarios, Scenario
  <2>2. specs \in Specs /\ 1 \in DOMAIN specs /\ \A i \in DOMAIN specs : specs[i] = Nil
    BY DEF Specs
  <2> HIDE DEF specs
  <2>3. c \in Seq(Record) /\ Built(c, specs)
    BY <2>1, <2>2, ScenariosAreChains, ChainsAreBuilt
  <2>4. Good
    BY <2>2, <2>3, BuiltIsAcceptable DEF Good
  <2>5. ~Attested
    BY <2>2, <2>3 DEF Attested, Built
  <2> QED  BY <1>1, <2>1, <2>4, <2>5
<1>7. n \in {1, 2, 3, 4, 5}
  OBVIOUS
<1> QED  BY <1>2, <1>3, <1>4, <1>5, <1>6, <1>7, Zenon

-----------------------------------------------------------------------------
Result ==
    [name        : {Scenarios[n].name : n \in 1 .. 5},
     wantVerdict : Verdicts,
     wantExit    : 0 .. 2,
     gotVerdict  : Verdicts,
     gotExit     : 0 .. 2,
     refused     : BOOLEAN]

\* The results are those of the first scenarios, and of all if Run returns them.
ResultsOK ==
    /\ results \in Seq(Result) /\ Len(results) <= 5
    /\ \A n \in 1 .. Len(results) : results[n].name = Scenarios[n].name
    /\ phase \in {"start", "testing"} => Len(results) < 5 /\ harness = FALSE
    /\ phase \in {"returned", "exited"} => harness = TRUE \/ Len(results) = 5

ExitOK ==
    /\ phase # "exited" => exit = -1
    /\ phase = "exited" => exit \in 0 .. 2
    /\ exit = 0 => harness = FALSE /\ AllPassed(results)

SelfTestInv ==
    /\ WriterInv /\ ResultsOK /\ ExitOK
    /\ phase \in {"start", "testing", "returned", "exited"} /\ harness \in BOOLEAN

LEMMA VerdictsHaveCodes ==
    /\ \A v \in Verdicts : ExitCodeOf(v) \in 0 .. 2
    /\ \A p, kek, strict : Judgement(p, kek, strict) \in Verdicts
BY DEF Verdicts, ExitCodeOf, Judgement

LEMMA SelfTestInitInv == Init => SelfTestInv
<1> SUFFICES ASSUME Init PROVE SelfTestInv
  OBVIOUS
<1>1. WriterInv
  BY WriterInitInv DEF Init
<1>2. ResultsOK
  BY DEF Init, ResultsOK
<1>3. ExitOK /\ phase \in {"start"} /\ harness = FALSE
  BY DEF Init, ExitOK
<1> QED  BY <1>1, <1>2, <1>3 DEF SelfTestInv

LEMMA MakeTempDirInv == SelfTestInv /\ MakeTempDir => SelfTestInv'
<1> SUFFICES ASSUME SelfTestInv, MakeTempDir PROVE SelfTestInv'
  OBVIOUS
<1>1. WriterInv'
  BY WriterUnchangedInv DEF SelfTestInv, MakeTempDir
<1>2. ResultsOK' /\ ExitOK'
  BY DEF SelfTestInv, MakeTempDir, ResultsOK, ExitOK
<1> QED  BY <1>1, <1>2 DEF SelfTestInv, MakeTempDir

LEMMA WriteInv == SelfTestInv /\ Write => SelfTestInv'
<1> SUFFICES ASSUME SelfTestInv, Write PROVE SelfTestInv'
  OBVIOUS
<1>1. WriterInv'
  BY WriteStepInv DEF SelfTestInv, Write
<1> QED  BY <1>1 DEF SelfTestInv, Write, testVars, ResultsOK, ExitOK, AllPassed

LEMMA GiveUpInv == SelfTestInv /\ GiveUp => SelfTestInv'
<1> SUFFICES ASSUME SelfTestInv, GiveUp PROVE SelfTestInv'
  OBVIOUS
<1>1. WriterInv'
  BY WriterUnchangedInv DEF SelfTestInv, GiveUp
<1>2. ResultsOK' /\ ExitOK'
  BY DEF SelfTestInv, GiveUp, ResultsOK, ExitOK
<1> QED  BY <1>1, <1>2 DEF SelfTestInv, GiveUp

LEMMA RunSelfTestInv == SelfTestInv /\ RunSelfTest => SelfTestInv'
<1> SUFFICES ASSUME SelfTestInv, RunSelfTest PROVE SelfTestInv'
  OBVIOUS
<1>1. WriterInv'
  BY WriterUnchangedInv DEF SelfTestInv, RunSelfTest
<1>2. exit' \in 0 .. 2 /\ (exit' = 0 => harness = FALSE /\ AllPassed(results))
  BY DEF SelfTestInv, RunSelfTest
<1>3. ResultsOK' /\ ExitOK'
  BY <1>2 DEF SelfTestInv, RunSelfTest, ResultsOK, ExitOK, AllPassed
<1> QED  BY <1>1, <1>3 DEF SelfTestInv, RunSelfTest

LEMMA JudgePackInv == SelfTestInv /\ JudgePack => SelfTestInv'
<1> SUFFICES ASSUME SelfTestInv, JudgePack PROVE SelfTestInv'
  OBVIOUS
<1> DEFINE k == Len(results) + 1
<1>1. /\ phase = "testing" /\ harness = FALSE /\ exit = -1 /\ UNCHANGED <<harness, exit>>
      /\ results \in Seq(Result) /\ Len(results) < 5
      /\ \A n \in 1 .. Len(results) : results[n].name = Scenarios[n].name
  BY DEF SelfTestInv, JudgePack, ResultsOK, ExitOK
<1>2. k \in 1 .. 5 /\ Len(results) \in Nat
  BY <1>1
<1>3. PICK result : /\ results' = Append(results, result) /\ result \in Result
                    /\ result.name = Scenarios[k].name
  <2>1. PICK refused \in BOOLEAN :
           LET verdict == IF refused THEN "malformed"
                          ELSE Judgement(PackOnDisk, Current.kek, FALSE)
           IN  results' = Append(results, Collect(verdict, refused))
    BY DEF JudgePack
  <2> DEFINE verdict == IF refused THEN "malformed"
                        ELSE Judgement(PackOnDisk, Current.kek, FALSE)
  <2>2. verdict \in Verdicts
    BY VerdictsHaveCodes DEF Verdicts
  <2> HIDE DEF verdict
  <2>3. Current.verdict \in Verdicts /\ Current.name \in {Scenarios[n].name : n \in 1 .. 5}
    BY <1>2, ScenariosAreChains DEF Current
  <2>4. Collect(verdict, refused) \in Result /\ Collect(verdict, refused).name = Scenarios[k].name
    BY <2>2, <2>3, VerdictsHaveCodes DEF Collect, Result, Current
  <2> QED  BY <2>1, <2>4 DEF verdict
<1> HIDE DEF k
<1>4. /\ results' \in Seq(Result) /\ Len(results') = k
      /\ \A n \in 1 .. Len(results) : results'[n] = results[n]
      /\ results'[k] = result
  <2>1. results \in Seq(Result) /\ result \in Result
    BY <1>1, <1>3
  <2>2. /\ Append(results, result) \in Seq(Result)
        /\ Len(Append(results, result)) = Len(results) + 1
        /\ \A n \in 1 .. Len(results) : Append(results, result)[n] = results[n]
        /\ Append(results, result)[Len(results) + 1] = result
    BY ONLY <2>1, AppendProperties
  <2> QED  BY <1>3, <2>2 DEF k
<1>5. \A n \in 1 .. k : results'[n].name = Scenarios[n].name
  <2>1. \A n \in 1 .. k : n \in 1 .. Len(results) \/ n = k
    BY <1>2 DEF k
  <2> QED  BY <1>1, <1>3, <1>4, <2>1
<1>6. CASE k < 5
  <2>4. Len(results') < Len(Scenarios)
    BY <1>4, <1>6, ScenariosAreChains
  <2>5. WriteNext(Scenarios[Len(results') + 1].chain) /\ phase' = phase
    BY <2>4 DEF JudgePack
  <2>1. k + 1 \in 1 .. 5 /\ WriteNext(Scenarios[k + 1].chain) /\ phase' = phase
    BY <1>2, <1>4, <1>6, <2>5
  <2>2. WriterInv'
    BY <2>1, WriteNextInv
  <2>3. ResultsOK' /\ ExitOK'
    BY <1>1, <1>4, <1>5, <1>6, <2>1 DEF ResultsOK, ExitOK
  <2> QED  BY <1>1, <2>1, <2>2, <2>3 DEF SelfTestInv
<1>7. CASE ~(k < 5)
  <2>4. k = 5
    BY <1>2, <1>7
  <2>5. ~(Len(results') < Len(Scenarios))
    BY <1>4, <1>7, ScenariosAreChains
  <2>6. phase' = "returned" /\ UNCHANGED writerVars
    BY <2>5 DEF JudgePack
  <2>1. k = 5 /\ phase' = "returned" /\ UNCHANGED writerVars
    BY <2>4, <2>6
  <2>2. WriterInv'
    BY <2>1, WriterUnchangedInv DEF SelfTestInv
  <2>3. ResultsOK' /\ ExitOK'
    BY <1>1, <1>4, <1>5, <2>1 DEF ResultsOK, ExitOK
  <2> QED  BY <1>1, <2>1, <2>2, <2>3 DEF SelfTestInv
<1> QED  BY <1>6, <1>7

LEMMA SelfTestUnchanged == SelfTestInv /\ UNCHANGED vars => SelfTestInv'
<1> SUFFICES ASSUME SelfTestInv, UNCHANGED vars PROVE SelfTestInv'
  OBVIOUS
<1>1. WriterInv'
  BY WriterUnchangedInv DEF SelfTestInv, vars
<1> QED  BY <1>1 DEF SelfTestInv, vars, testVars, ResultsOK, ExitOK, AllPassed

\* The invariant holds of every state.
THEOREM SelfTestInvariance == Spec => []SelfTestInv
<1>1. SelfTestInv /\ [Next]_vars => SelfTestInv'
  BY SelfTestUnchanged, MakeTempDirInv, WriteInv, JudgePackInv, GiveUpInv, RunSelfTestInv
  DEF Next
<1> QED  BY <1>1, SelfTestInitInv, PTL DEF Spec

\* The pack being written, the results and the exit code have their types
\* (selftest.go:40-66, fixturegen.go:224-278).
THEOREM SelfTestTypeCorrect == Spec => []SelfTestTypeOK
<1>1. SelfTestInv => SelfTestTypeOK
  <2> SUFFICES ASSUME SelfTestInv PROVE SelfTestTypeOK
    OBVIOUS
  <2>1. \A n \in DOMAIN results : results[n] \in Result
    BY DEF SelfTestInv, ResultsOK
  <2>2. exit \in -1 .. 2
    BY DEF SelfTestInv, ExitOK
  <2> QED  BY <2>1, <2>2, WriterTypeCorrect, ScenariosAreChains
           DEF SelfTestInv, ResultsOK, Result, SelfTestTypeOK
<1> QED  BY <1>1, SelfTestInvariance, PTL

\* Whatever call of WritePack was the last, a pack that is accepted holds the
\* beginning of the chain, and a signed record only together with all the
\* others (fixturegen.go:224-278).
THEOREM AttestedIsWhole == Spec => []AttestedOnlyWhole
<1>1. SelfTestInv => AttestedOnlyWhole
  BY WholeOrUnattested DEF SelfTestInv
<1> QED  BY <1>1, SelfTestInvariance, PTL

\* A self-test that exits with 0 has seen every scenario come out as it should
\* (selftest.go:40-66, main.go:190-228).
THEOREM ZeroIsAllPassed == Spec => []ZeroMeansAllPassed
<1>1. SelfTestInv => ZeroMeansAllPassed
  <2> SUFFICES ASSUME SelfTestInv, exit = 0
               PROVE  /\ Len(results) = Len(Scenarios)
                      /\ \A n \in DOMAIN results :
                            results[n].name = Scenarios[n].name /\ Pass(results[n])
    BY DEF ZeroMeansAllPassed
  <2>1. phase = "exited" /\ harness = FALSE /\ AllPassed(results)
    BY DEF SelfTestInv, ExitOK
  <2>2. /\ Len(results) = 5 /\ DOMAIN results = 1 .. Len(results)
        /\ \A n \in 1 .. Len(results) : results[n].name = Scenarios[n].name
    BY <2>1 DEF SelfTestInv, ResultsOK
  <2> QED  BY <2>1, <2>2, ScenariosAreChains DEF AllPassed
<1> QED  BY <1>1, SelfTestInvariance, PTL

-----------------------------------------------------------------------------
(***************************************************************************)
(* What makes a healthy verifier pass: the pack that is judged is whole,   *)
(* and it is that of the scenario in turn.                                 *)
(***************************************************************************)
AllWritten ==
    /\ step \in {"chain"} \union InChain \union AfterChain => disk.manifest = "ok"
    /\ step = "written" =>
          disk.keys = IF chain.bundle = Nil THEN Absent ELSE chain.bundle

ScenarioInTurn ==
    phase \in {"start", "testing"} => chain = Scenarios[Len(results) + 1].chain

OnlyRefusalsFail ==
    /\ \A n \in 1 .. Len(results) : results[n].refused = TRUE \/ Pass(results[n])
    /\ phase = "start" => results = <<>>
    /\ harness = TRUE => step = "failed" \/ results = <<>>
    /\ exit = 1 => ~AllPassed(results)
    /\ exit = 2 => harness = TRUE

HealthyInv == SelfTestInv /\ AllWritten /\ ScenarioInTurn /\ OnlyRefusalsFail

\* A step of WritePack writes the manifest first and the keys last.
LEMMA WriteStepAllWritten ==
    ASSUME WriterInv, AllWritten, WriteStep
    PROVE  AllWritten' /\ chain' = chain
<1>1. CASE MakeDirectory
  BY <1>1 DEF AllWritten, MakeDirectory, Goes, InChain, AfterChain
<1>2. CASE WriteManifest
  <2>1. disk'.manifest = "ok" \/ step' = "fill manifest"
    BY <1>2 DEF WriterInv, WriteManifest, Goes, Disk
  <2>2. step' \in {"fill manifest", "chain"} /\ chain' = chain
    BY <1>2 DEF WriteManifest, Goes, StepAfter
  <2> QED  BY <2>1, <2>2 DEF AllWritten, InChain, AfterChain
<1>3. CASE CreateChain
  BY <1>3 DEF AllWritten, WriterInv, CreateChain, Goes, Disk, InChain, AfterChain
<1>4. CASE WriteRecord
  <2>1. disk'.manifest = disk.manifest /\ step' \in {"newline", "failed"}
    BY <1>4 DEF WriterInv, WriteRecord, Disk
  <2> QED  BY <1>4, <2>1 DEF AllWritten, WriteRecord, InChain, AfterChain
<1>5. CASE WriteNewline
  BY <1>5 DEF AllWritten, WriteNewline, Goes, InChain, AfterChain
<1>6. CASE EndOfRecords
  <2>1. disk.keys = Absent /\ disk' = disk /\ step = "records" /\ chain' = chain
    BY <1>6 DEF WriterInv, EndOfRecords, Goes
  <2>2. step' = IF chain.bundle # Nil THEN "keys" ELSE "written"
    BY <1>6 DEF EndOfRecords, Goes, StepAfter
  <2> QED  BY <2>1, <2>2 DEF AllWritten, InChain, AfterChain
<1>7. CASE WriteKeys
  <2>1. /\ disk'.manifest = disk.manifest /\ chain' = chain /\ chain.bundle # Nil
        /\ step \in {"keys", "fill keys"}
        /\ step' = "fill keys" \/ (step' = "written" /\ disk'.keys = chain.bundle)
    BY <1>7 DEF WriterInv, WriteKeys, Goes, StepAfter, Disk
  <2> QED  BY <2>1 DEF AllWritten, InChain, AfterChain
<1>8. CASE CallFails
  BY <1>8 DEF AllWritten, CallFails, InChain, AfterChain
<1> QED  BY <1>1, <1>2, <1>3, <1>4, <1>5, <1>6, <1>7, <1>8 DEF WriteStep

\* A pack that is written to its end is in order and holds the chain and its bundle.
LEMMA WrittenIsWhole ==
    ASSUME WriterInv, AllWritten, step = "written"
    PROVE  /\ WellFormed(PackOnDisk)
           /\ RecordsOf(PackOnDisk.chain) = chain.records
           /\ BundleOf(PackOnDisk) = chain.bundle
<1> DEFINE rs == chain.records
           lines == [n \in DOMAIN disk.chain |-> LineOf(disk.chain[n])]
<1>1. /\ LinesOnDisk /\ written = Len(rs) /\ disk.manifest = "ok"
      /\ disk.keys = IF chain.bundle = Nil THEN Absent ELSE chain.bundle
      /\ rs \in Seq(Record) /\ chain.bundle \in Seq(KeyRecord) \union {Nil}
  BY DEF WriterInv, AllWritten, InChain, AfterChain, ChainOK
<1> HIDE DEF rs
<1>2. /\ DOMAIN disk.chain = 1 .. Len(rs) /\ disk.chain # Absent
      /\ \A n \in 1 .. Len(rs) : disk.chain[n] = <<chain.records[n]>>
  <2>1. disk.chain \in Seq(Seq(Record \union {BadLine})) /\ Len(disk.chain) = Len(rs)
    BY <1>1 DEF LinesOnDisk
  <2>2. DOMAIN disk.chain = 1 .. Len(rs)
    BY ONLY <2>1
  <2>3. disk.chain # Absent
    BY <2>1, WriterAssumption
  <2>4. \A n \in 1 .. Len(rs) : disk.chain[n] = <<chain.records[n]>>
    BY <1>1 DEF LinesOnDisk
  <2> QED  BY <2>2, <2>3, <2>4
<1>3. /\ rs = [n \in 1 .. Len(rs) |-> rs[n]] /\ Len(rs) \in Nat /\ DOMAIN rs = 1 .. Len(rs)
      /\ \A n \in 1 .. Len(rs) : rs[n] \in Record
  BY ONLY <1>1
<1>4. lines = rs
  <2>1. \A n \in 1 .. Len(rs) : LineOf(disk.chain[n]) = rs[n]
    BY <1>2 DEF LineOf, rs
  <2> QED  BY <1>2, <1>3, <2>1
<1>5. PackOnDisk = [manifest |-> "ok", chain |-> rs, keys |-> disk.keys]
  BY <1>1, <1>2, <1>4 DEF PackOnDisk
<1>6. RecordsOf(rs) = rs
  <2>1. RecordsOf(rs) = SubSeq(rs, 1, Len(rs))
    BY <1>1, <1>3, LinesAreRecords
  <2>2. SubSeq(rs, 1, Len(rs)) = rs
    BY ONLY <1>1
  <2> QED  BY <2>1, <2>2
<1>7. Readable(PackOnDisk)
  <2> SUFFICES ASSUME NEW n \in 1 .. Len(rs) PROVE rs[n] # TooLong /\ Parses(rs[n])
    BY <1>3, <1>5 DEF Readable
  <2>1. rs[n] \in Record /\ RecordOf(rs[n]) = rs[n] /\ rs[n] \notin {Blank, TooLong, BadLine}
    BY <1>3, RecordIsReadBack
  <2>2. Required \subseteq DOMAIN rs[n]
    BY <2>1 DEF Record, Required
  <2> QED  BY <2>1, <2>2 DEF Parses
<1>8. rs # Absent
  <2>1. rs \in Seq(Record \union {BadLine})
    BY ONLY <1>1
  <2> QED  BY <2>1, WriterAssumption
<1>9. disk.keys # BadKeys /\ BundleOf(PackOnDisk) = chain.bundle
  <2>1. disk.keys # BadKeys /\ (chain.bundle # Nil => disk.keys # Absent)
    BY <1>1, PackAssumption
  <2> QED  BY <1>1, <1>5, <2>1 DEF BundleOf
<1>10. WellFormed(PackOnDisk)
  BY <1>5, <1>7, <1>8, <1>9 DEF WellFormed, Openable
<1> QED  BY <1>5, <1>6, <1>9, <1>10 DEF rs

LEMMA HealthyInitInv == Init => HealthyInv
BY SelfTestInitInv DEF Init, WriterInit, HealthyInv, AllWritten, ScenarioInTurn,
                       OnlyRefusalsFail, InChain, AfterChain

\* An unrefused pack of the scenario in turn gets the verdict that is expected.
LEMMA JudgedAsExpected ==
    ASSUME HealthyInv, phase = "testing", step = "written"
    PROVE  /\ Len(results) + 1 \in 1 .. 5
           /\ Judgement(PackOnDisk, Current.kek, FALSE) = Current.verdict
<1>1. WriterInv /\ AllWritten /\ chain = Current.chain
  BY DEF HealthyInv, SelfTestInv, ScenarioInTurn, Current
<1>2. Len(results) + 1 \in 1 .. 5
  <2>1. results \in Seq(Result) /\ Len(results) < 5
    BY DEF HealthyInv, SelfTestInv, ResultsOK
  <2> QED  BY <2>1
<1> QED  BY <1>1, <1>2, WrittenIsWhole, ScenarioVerdicts DEF Current

LEMMA JudgePackHealthy == HealthyInv /\ JudgePack => HealthyInv'
<1> SUFFICES ASSUME HealthyInv, JudgePack PROVE HealthyInv'
  OBVIOUS
<1>1. SelfTestInv /\ SelfTestInv' /\ phase = "testing" /\ step = "written"
  BY JudgePackInv DEF HealthyInv, JudgePack
<1>2. PICK refused \in BOOLEAN :
         LET verdict == IF refused THEN "malformed"
                        ELSE Judgement(PackOnDisk, Current.kek, FALSE)
         IN  results' = Append(results, Collect(verdict, refused))
  BY DEF JudgePack
<1> DEFINE result == Collect(IF refused THEN "malformed"
                             ELSE Judgement(PackOnDisk, Current.kek, FALSE), refused)
<1>3. result.refused = TRUE \/ Pass(result)
  BY <1>1, JudgedAsExpected DEF Collect, Pass
<1>4. results' = Append(results, result) /\ results \in Seq(Result) /\ results' \in Seq(Result)
  BY <1>1, <1>2 DEF SelfTestInv, ResultsOK
<1> HIDE DEF result
<1>5. /\ Len(results') = Len(results) + 1 /\ Len(results) \in Nat
      /\ \A n \in 1 .. Len(results') : results'[n] = IF n <= Len(results) THEN results[n] ELSE result
  BY ONLY <1>4
<1>6. \A n \in 1 .. Len(results') : results'[n].refused = TRUE \/ Pass(results'[n])
  <2> TAKE n \in 1 .. Len(results')
  <2>1. n \in 1 .. Len(results) \/ ~(n <= Len(results))
    BY <1>5
  <2> QED  BY <1>3, <1>5, <2>1 DEF HealthyInv, OnlyRefusalsFail
<1>7. harness' = harness /\ exit' = exit /\ harness = FALSE /\ exit = -1
  BY <1>1 DEF JudgePack, SelfTestInv, ResultsOK, ExitOK
<1>8. CASE Len(results') < Len(Scenarios)
  <2>1. WriteNext(Scenarios[Len(results') + 1].chain) /\ phase' = "testing"
    BY <1>1, <1>8 DEF JudgePack
  <2>2. AllWritten' /\ ScenarioInTurn'
    BY <2>1 DEF WriteNext, AllWritten, ScenarioInTurn, InChain, AfterChain
  <2> QED  BY <1>1, <1>6, <1>7, <2>1, <2>2 DEF HealthyInv, OnlyRefusalsFail
<1>9. CASE ~(Len(results') < Len(Scenarios))
  <2>1. phase' = "returned" /\ UNCHANGED writerVars
    BY <1>9 DEF JudgePack
  <2>2. AllWritten' /\ ScenarioInTurn'
    BY <2>1 DEF HealthyInv, AllWritten, ScenarioInTurn, writerVars
  <2> QED  BY <1>1, <1>6, <1>7, <2>1, <2>2 DEF HealthyInv, OnlyRefusalsFail
<1> QED  BY <1>8, <1>9

\* Every other step leaves the results as they are.
LEMMA OtherStepsHealthy ==
    HealthyInv /\ (MakeTempDir \/ Write \/ GiveUp \/ RunSelfTest \/ UNCHANGED vars) => HealthyInv'
<1>1. ASSUME HealthyInv, MakeTempDir PROVE HealthyInv'
  <2>1. SelfTestInv'
    BY <1>1, MakeTempDirInv DEF HealthyInv
  <2> QED  BY <1>1, <2>1 DEF HealthyInv, MakeTempDir, writerVars, AllWritten, ScenarioInTurn,
                             OnlyRefusalsFail, SelfTestInv, ExitOK
<1>2. ASSUME HealthyInv, Write PROVE HealthyInv'
  <2>1. SelfTestInv' /\ phase = "testing" /\ UNCHANGED testVars /\ AllWritten' /\ chain' = chain
    BY <1>2, WriteInv, WriteStepAllWritten DEF HealthyInv, SelfTestInv, Write
  <2>2. harness = FALSE
    BY <1>2, <2>1 DEF HealthyInv, SelfTestInv, ResultsOK
  <2> QED  BY <1>2, <2>1, <2>2 DEF HealthyInv, testVars, ScenarioInTurn, OnlyRefusalsFail, AllPassed
<1>3. ASSUME HealthyInv, GiveUp PROVE HealthyInv'
  <2>1. SelfTestInv'
    BY <1>3, GiveUpInv DEF HealthyInv
  <2> QED  BY <1>3, <2>1 DEF HealthyInv, GiveUp, writerVars, AllWritten, ScenarioInTurn,
                             OnlyRefusalsFail, AllPassed
<1>4. ASSUME HealthyInv, RunSelfTest PROVE HealthyInv'
  <2>1. SelfTestInv'
    BY <1>4, RunSelfTestInv DEF HealthyInv
  <2> QED  BY <1>4, <2>1 DEF HealthyInv, RunSelfTest, writerVars, AllWritten, ScenarioInTurn,
                             OnlyRefusalsFail, AllPassed, SelfTestInv
<1>5. ASSUME HealthyInv, UNCHANGED vars PROVE HealthyInv'
  BY <1>5, SelfTestUnchanged DEF HealthyInv, vars, testVars, writerVars, AllWritten,
                                 ScenarioInTurn, OnlyRefusalsFail, AllPassed
<1> QED  BY <1>1, <1>2, <1>3, <1>4, <1>5

\* If the verifier keeps its promise, nothing but a refusal of the operating
\* system makes the self-test exit with anything but 0 (selftest.go:40-66,
\* main.go:190-228): whatever the keys and contents that are drawn.
THEOREM HealthyVerifiersPass == Spec => []HealthyVerifierPasses
<1>1. HealthyInv /\ [Next]_vars => HealthyInv'
  BY JudgePackHealthy, OtherStepsHealthy DEF Next
<1>2. HealthyInv => HealthyVerifierPasses
  <2> SUFFICES ASSUME HealthyInv, phase = "exited" PROVE HealthyVerifierPasses
    BY DEF HealthyVerifierPasses
  <2>1. exit \in 0 .. 2 /\ (exit = 2 => step = "failed" \/ results = <<>>)
    BY DEF HealthyInv, SelfTestInv, ExitOK, OnlyRefusalsFail
  <2>2. ASSUME exit = 1 PROVE \E n \in DOMAIN results : results[n].refused
    <3>1. ~AllPassed(results) /\ DOMAIN results = 1 .. Len(results)
      BY <2>2 DEF HealthyInv, OnlyRefusalsFail, SelfTestInv, ResultsOK
    <3>2. PICK n \in 1 .. Len(results) : ~Pass(results[n])
      BY <3>1 DEF AllPassed
    <3> QED  BY <3>1, <3>2 DEF HealthyInv, OnlyRefusalsFail
  <2>3. exit \in {0, 1, 2}
    BY <2>1
  <2> QED  BY <2>1, <2>2, <2>3 DEF HealthyVerifierPasses
<1>3. Spec => []HealthyInv
  BY <1>1, HealthyInitInv, PTL DEF Spec
<1> QED  BY <1>2, <1>3, PTL
===============================================================================
