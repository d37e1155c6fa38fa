--------------------------- MODULE VerifyPackProofs ---------------------------
(***************************************************************************)
(* verify.Pack gives every pack the verdict it deserves: each step of its  *)
(* stages, of its reader and of its walk is a step of PackJudgement or     *)
(* changes nothing there.                                                  *)
(*                                                                         *)
(* First the reader: the invariant compares ReadChainJSONL, which appends  *)
(* record by record, with RecordsFrom, which says what the lines amount    *)
(* to.  Then the stages: the invariant says at each one what is known of   *)
(* the pack, that it can be opened, that its lines are in order and what   *)
(* records they are, that its keys can be used.  The walk comes with an    *)
(* invariant of its own, Inv of ChainVerifyProofs.                         *)
(***************************************************************************)
EXTENDS VerifyPack, ChainVerifyProofs

-----------------------------------------------------------------------------
\* A file the reader can be given: a list of lines, no longer than an int.
IsFile(lines) ==
    Len(lines) \in 0 .. MaxInt /\ DOMAIN lines = 1 .. Len(lines)

\* The lines of the file that hold a record.
Good == {n \in DOMAIN file : file[n] \notin {Blank, TooLong} /\ Parses(file[n])}

\* What has been read is what the lines scanned so far amount to.
ReadSoFar ==
    /\ scanned \in 0 .. Len(file)
    /\ read \in Seq(Record) /\ Len(read) <= scanned
    /\ read = RecordsFrom(file, Good)[scanned]
    /\ \A n \in 1 .. scanned : file[n] # TooLong

ErrorRecord == [why : {"bad line", "too long", "refused"}, line : 1 .. Len(file) + 1]

\* Among the errors there is one for each of the lines scanned that has no
\* place in the chain, and none for the others.
NamesTheBadOnes(errs) ==
    \A n \in 1 .. scanned :
        (\E k \in DOMAIN errs : errs[k] = Error("bad line", n))
            <=> file[n] # Blank /\ ~Parses(file[n])

\* The errors so far are those of the lines scanned so far; the one that ends
\* the reading is the last.
ErrorsAreOfLines ==
    /\ readErrs \in Seq(ErrorRecord)
    /\ NamesTheBadOnes(readErrs)
    /\ ~ScanFailed => \A k \in DOMAIN readErrs :
                         readErrs[k].why = "bad line" /\ readErrs[k].line <= scanned
    /\ (ScanFailed /\ readErrs[Len(readErrs)].why = "too long") =>
          scanned < Len(file) /\ file[scanned + 1] = TooLong

ReaderInv ==
    IF file = Absent THEN ReaderInit
    ELSE IsFile(file) /\ ReadSoFar /\ ErrorsAreOfLines

LEMMA ReaderTypes ==
    ASSUME ReaderInv, file # Absent
    PROVE  /\ Len(file) \in Nat /\ DOMAIN file = 1 .. Len(file)
           /\ scanned \in 0 .. Len(file)
           /\ Len(readErrs) \in Nat /\ DOMAIN readErrs = 1 .. Len(readErrs)
           /\ readErrs # <<>> <=> Len(readErrs) > 0
           /\ \A k \in DOMAIN readErrs :
                 /\ readErrs[k].why \in {"bad line", "too long", "refused"}
                 /\ readErrs[k].line \in 1 .. Len(file) + 1
           /\ IsFile(file) /\ ReadSoFar /\ ErrorsAreOfLines
<1>1. IsFile(file) /\ ReadSoFar /\ ErrorsAreOfLines
  BY DEF ReaderInv
<1>2. Len(file) \in Nat /\ DOMAIN file = 1 .. Len(file)
  BY <1>1, RecordAssumption DEF IsFile
<1>3. scanned \in 0 .. Len(file)
  BY <1>1 DEF ReadSoFar
<1>4. readErrs \in Seq(ErrorRecord)
  BY <1>1 DEF ErrorsAreOfLines
<1>5. \A e \in ErrorRecord : /\ e.why \in {"bad line", "too long", "refused"}
                             /\ e.line \in 1 .. Len(file) + 1
  BY DEF ErrorRecord
<1>6. /\ Len(readErrs) \in Nat /\ DOMAIN readErrs = 1 .. Len(readErrs)
      /\ readErrs # <<>> <=> Len(readErrs) > 0
      /\ \A k \in DOMAIN readErrs : readErrs[k] \in ErrorRecord
  BY <1>4
<1> QED  BY <1>1, <1>2, <1>3, <1>5, <1>6

-----------------------------------------------------------------------------
\* A sequence with one more element.
LEMMA OneMore ==
    ASSUME NEW S, NEW s \in Seq(S), NEW e \in S
    PROVE  /\ Append(s, e) \in Seq(S)
           /\ DOMAIN Append(s, e) = 1 .. Len(s) + 1
           /\ Len(Append(s, e)) = Len(s) + 1
           /\ Append(s, e)[Len(s) + 1] = e
           /\ \A k \in DOMAIN s : Append(s, e)[k] = s[k] /\ k \in DOMAIN Append(s, e)
           /\ \A k \in DOMAIN Append(s, e) : k = Len(s) + 1 \/ k \in DOMAIN s
OBVIOUS

LEMMA ScanLineInv == ReaderInv /\ ScanLine => ReaderInv'
<1> SUFFICES ASSUME ReaderInv, ScanLine PROVE ReaderInv'
  OBVIOUS
<1> DEFINE i == scanned + 1
           R == RecordsFrom(file, Good)
<1>1. /\ file # Absent /\ file' = file /\ scanned' = i
      /\ scanned # Len(file) /\ ~ScanFailed /\ file[i] # TooLong
  BY DEF ScanLine, Stopped
<1>2. /\ Len(file) \in Nat /\ DOMAIN file = 1 .. Len(file)
      /\ scanned \in 0 .. Len(file)
      /\ Len(readErrs) \in Nat /\ DOMAIN readErrs = 1 .. Len(readErrs)
      /\ readErrs # <<>> <=> Len(readErrs) > 0
      /\ ReadSoFar /\ ErrorsAreOfLines /\ IsFile(file)
  BY <1>1, ReaderTypes DEF ReaderInv
<1>3. i \in 1 .. Len(file) /\ i \in DOMAIN file /\ i - 1 = scanned
  <2>1. scanned \in 0 .. Len(file) /\ Len(file) \in Nat /\ scanned # Len(file)
    BY <1>1, <1>2
  <2>2. i \in 1 .. Len(file) /\ i - 1 = scanned
    BY <2>1
  <2> QED  BY <1>2, <2>2
<1>16. i \in Int /\ scanned \in Int /\ scanned < i /\ i <= i
  BY <1>2
<1>4. R[i] = IF i \in Good THEN Append(R[scanned], RecordOf(file[i])) ELSE R[scanned]
  BY <1>2, <1>3, RecordsFromStep
<1>5. i \in Good <=> file[i] # Blank /\ Parses(file[i])
  BY <1>1, <1>3 DEF Good
<1>6. Good' = Good
  BY <1>1 DEF Good
<1> HIDE DEF R
<1>7. read = R[scanned] /\ read \in Seq(Record) /\ Len(read) \in 0 .. scanned
  BY <1>2 DEF ReadSoFar, R
<1>8. read' = R[i] /\ read' \in Seq(Record) /\ Len(read') <= i
  <2>1. CASE i \in Good
    <3>1. RecordOf(file[i]) \in Record
      BY <1>5, <2>1 DEF Parses
    <3>2. read' = Append(read, RecordOf(file[i]))
      BY <1>5, <2>1 DEF ScanLine
    <3> QED  BY <1>2, <1>4, <1>7, <2>1, <3>1, <3>2
  <2>2. CASE i \notin Good
    <3>1. read' = read
      BY <1>5, <2>2 DEF ScanLine
    <3> QED  BY <1>2, <1>4, <1>7, <2>2, <3>1
  <2> QED  BY <2>1, <2>2
<1>9. \A n \in 1 .. i : n = i \/ n \in 1 .. scanned
  BY <1>2
<1>10. ReadSoFar'
  <2>1. \A n \in 1 .. i : file[n] # TooLong
    BY <1>1, <1>2, <1>9 DEF ReadSoFar
  <2> QED  BY <1>1, <1>3, <1>6, <1>8, <2>1 DEF ReadSoFar, R
<1> DEFINE bad == Error("bad line", i)
<1>11. \A k \in DOMAIN readErrs :
          readErrs[k].why = "bad line" /\ readErrs[k].line <= scanned
  BY <1>1, <1>2 DEF ErrorsAreOfLines
<1>15. \A k \in DOMAIN readErrs : readErrs[k].line \in Int
  <2>1. \A k \in DOMAIN readErrs : readErrs[k].line \in 1 .. Len(file) + 1
    BY <1>1, ReaderTypes
  <2> QED  BY <1>2, <2>1
<1>12. readErrs \in Seq(ErrorRecord)
  BY <1>2 DEF ErrorsAreOfLines
<1>13. CASE file[i] # Blank /\ ~Parses(file[i])
  <2>1. readErrs' = Append(readErrs, bad)
    BY <1>13 DEF ScanLine
  <2>2. bad \in ErrorRecord /\ bad.why = "bad line" /\ bad.line = i
    BY <1>3 DEF Error, ErrorRecord
  <2> HIDE DEF bad
  <2>3. /\ readErrs' \in Seq(ErrorRecord)
        /\ DOMAIN readErrs' = 1 .. Len(readErrs) + 1 /\ Len(readErrs') = Len(readErrs) + 1
        /\ readErrs'[Len(readErrs) + 1] = bad
        /\ \A k \in DOMAIN readErrs : readErrs'[k] = readErrs[k] /\ k \in DOMAIN readErrs'
        /\ \A k \in DOMAIN readErrs' : k = Len(readErrs) + 1 \/ k \in DOMAIN readErrs
    <3>1. /\ Append(readErrs, bad) \in Seq(ErrorRecord)
          /\ DOMAIN Append(readErrs, bad) = 1 .. Len(readErrs) + 1
          /\ Len(Append(readErrs, bad)) = Len(readErrs) + 1
          /\ Append(readErrs, bad)[Len(readErrs) + 1] = bad
          /\ \A k \in DOMAIN readErrs :
                Append(readErrs, bad)[k] = readErrs[k] /\ k \in DOMAIN Append(readErrs, bad)
          /\ \A k \in DOMAIN Append(readErrs, bad) :
                k = Len(readErrs) + 1 \/ k \in DOMAIN readErrs
      BY ONLY <1>12, <2>2, OneMore
    <3> QED  BY <2>1, <3>1
  <2>4. ~ScanFailed'
    BY <1>2, <2>2, <2>3 DEF ScanFailed
  <2>5. \A k \in DOMAIN readErrs' : readErrs'[k].why = "bad line" /\ readErrs'[k].line <= i
    <3>1. \A n \in Int : n <= scanned => n <= i
      BY <1>2
    <3>2. \A k \in DOMAIN readErrs : readErrs[k].why = "bad line" /\ readErrs[k].line <= i
      BY <1>11, <1>15, <3>1
    <3>3. bad.why = "bad line" /\ bad.line <= i
      BY <1>16, <2>2
    <3> QED  BY <2>3, <3>2, <3>3
  <2>6. ASSUME NEW n \in 1 .. i
        PROVE  (\E k \in DOMAIN readErrs' : readErrs'[k] = Error("bad line", n))
                  <=> file[n] # Blank /\ ~Parses(file[n])
    <3>1. CASE n = i
      <4>1. Len(readErrs) + 1 \in DOMAIN readErrs'
        BY <1>2, <2>3
      <4>2. readErrs'[Len(readErrs) + 1] = Error("bad line", n)
        BY <2>3, <3>1 DEF bad
      <4> QED  BY <1>13, <3>1, <4>1, <4>2
    <3>2. CASE n \in 1 .. scanned
      <4>1. bad # Error("bad line", n)
        <5>1. Error("bad line", n).line = n
          BY DEF Error
        <5>2. n # i
          BY <1>16, <3>2
        <5> QED  BY <2>2, <5>1, <5>2
      <4>2. (\E k \in DOMAIN readErrs : readErrs[k] = Error("bad line", n))
                  <=> file[n] # Blank /\ ~Parses(file[n])
        BY <1>2, <3>2 DEF ErrorsAreOfLines, NamesTheBadOnes
      <4> QED  BY <2>3, <4>1, <4>2
    <3> QED  BY <1>9, <3>1, <3>2
  <2>7. ErrorsAreOfLines'
    BY <1>1, <2>3, <2>4, <2>5, <2>6 DEF ErrorsAreOfLines, ErrorRecord, NamesTheBadOnes
  <2> QED  BY <1>1, <1>2, <1>10, <2>7 DEF ReaderInv
<1>14. CASE ~(file[i] # Blank /\ ~Parses(file[i]))
  <2>1. readErrs' = readErrs
    BY <1>14 DEF ScanLine
  <2>2. ~ScanFailed'
    BY <1>1, <2>1 DEF ScanFailed
  <2>3. \A k \in DOMAIN readErrs : readErrs[k] # bad
    <3>1. bad.line = i /\ ~(i <= scanned)
      BY <1>2 DEF Error
    <3> HIDE DEF bad
    <3> QED  BY <1>11, <3>1
  <2>4. \A n \in 1 .. i : (\E k \in DOMAIN readErrs : readErrs[k] = Error("bad line", n))
                             <=> file[n] # Blank /\ ~Parses(file[n])
    BY <1>2, <1>9, <1>14, <2>3 DEF ErrorsAreOfLines, NamesTheBadOnes
  <2>5. \A k \in DOMAIN readErrs : readErrs[k].why = "bad line" /\ readErrs[k].line <= i
    <3>1. \A k \in DOMAIN readErrs :
             readErrs[k].line \in Int /\ readErrs[k].line <= scanned
      BY <1>11, <1>15
    <3>2. \A n \in Int : n <= scanned => n <= i
      BY <1>2
    <3> QED  BY <1>11, <3>1, <3>2
  <2>6. ErrorsAreOfLines'
    BY <1>1, <1>12, <2>1, <2>2, <2>4, <2>5 DEF ErrorsAreOfLines, ErrorRecord, NamesTheBadOnes
  <2> QED  BY <1>1, <1>2, <1>10, <2>6 DEF ReaderInv
<1> QED  BY <1>13, <1>14

(***************************************************************************)
(* The error that ends the reading, alone or after that of the last piece. *)
(***************************************************************************)
LEMMA LastError ==
    ASSUME ReaderInv, file # Absent, UNCHANGED <<file, scanned>>,
           NEW errs \in Seq(ErrorRecord), NamesTheBadOnes(errs),
           NEW e \in ErrorRecord, readErrs' = Append(errs, e), e.why # "bad line",
           e.why = "too long" => scanned < Len(file) /\ file[scanned + 1] = TooLong
    PROVE  ErrorsAreOfLines'
<1>0. errs \in Seq(ErrorRecord) /\ e \in ErrorRecord
  OBVIOUS
<1>1. /\ Append(errs, e) \in Seq(ErrorRecord)
      /\ Len(Append(errs, e)) = Len(errs) + 1
      /\ DOMAIN Append(errs, e) = 1 .. Len(errs) + 1
      /\ Append(errs, e)[Len(errs) + 1] = e
      /\ \A k \in DOMAIN errs :
            Append(errs, e)[k] = errs[k] /\ k \in DOMAIN Append(errs, e)
      /\ \A k \in DOMAIN Append(errs, e) : k = Len(errs) + 1 \/ k \in DOMAIN errs
  BY ONLY <1>0, OneMore
<1> DEFINE now == Append(errs, e)
<1>2. NamesTheBadOnes(now)
  <2>1. \A n : e # Error("bad line", n)
    <3>1. \A n : Error("bad line", n).why = "bad line"
      BY DEF Error
    <3> QED  BY <3>1
  <2> HIDE DEF now
  <2> QED  BY <1>1, <2>1 DEF NamesTheBadOnes, now
<1>3. ScanFailed' /\ readErrs'[Len(readErrs')] = e
  <2>1. now # <<>>
    BY <1>0, AppendProperties
  <2> QED  BY <1>1, <2>1 DEF ScanFailed
<1>4. NamesTheBadOnes(readErrs)' /\ readErrs' \in Seq(ErrorRecord')
  BY <1>1, <1>2 DEF NamesTheBadOnes, ErrorRecord
<1> QED  BY <1>3, <1>4 DEF ErrorsAreOfLines

LEMMA NothingMoreRead ==
    ASSUME ReaderInv, file # Absent, UNCHANGED <<file, scanned, read>>, ErrorsAreOfLines'
    PROVE  ReaderInv'
<1>1. ReadSoFar' /\ IsFile(file)'
  BY ReaderTypes DEF ReadSoFar, Good
<1> QED  BY <1>1 DEF ReaderInv

LEMMA LineTooLongInv == ReaderInv /\ LineTooLong => ReaderInv'
<1> SUFFICES ASSUME ReaderInv, LineTooLong PROVE ReaderInv'
  OBVIOUS
<1> DEFINE e == Error("too long", scanned + 1)
<1>1. /\ file # Absent /\ UNCHANGED <<file, scanned, read>>
      /\ readErrs' = Append(readErrs, e) /\ file[scanned + 1] = TooLong
      /\ scanned # Len(file)
  BY DEF LineTooLong, Stopped
<1>2. /\ Len(file) \in Nat /\ scanned \in 0 .. Len(file)
      /\ readErrs \in Seq(ErrorRecord) /\ NamesTheBadOnes(readErrs)
  BY <1>1, ReaderTypes DEF ErrorsAreOfLines
<1>3. scanned < Len(file) /\ scanned + 1 \in 1 .. Len(file) + 1
  <2>1. Len(file) \in Nat /\ scanned \in 0 .. Len(file) /\ scanned # Len(file)
    BY <1>1, <1>2
  <2> QED  BY ONLY <2>1
<1>4. e \in ErrorRecord /\ e.why = "too long"
  BY <1>3 DEF Error, ErrorRecord
<1> HIDE DEF e
<1>5. ErrorsAreOfLines'
  BY <1>1, <1>2, <1>3, <1>4, LastError
<1> QED  BY <1>1, <1>5, NothingMoreRead

LEMMA ReadFailsInv == ReaderInv /\ ReadFails => ReaderInv'
<1> SUFFICES ASSUME ReaderInv, ReadFails PROVE ReaderInv'
  OBVIOUS
<1> DEFINE e == Error("refused", scanned + 1)
           b == Error("bad line", scanned + 1)
<1>1. /\ file # Absent /\ UNCHANGED <<file, scanned, read>>
      /\ \/ readErrs' = readErrs \o <<>> \o <<e>>
         \/ readErrs' = readErrs \o <<b>> \o <<e>>
  BY DEF ReadFails
<1>2. /\ Len(file) \in Nat /\ scanned \in 0 .. Len(file)
      /\ readErrs \in Seq(ErrorRecord) /\ NamesTheBadOnes(readErrs)
  BY <1>1, ReaderTypes DEF ErrorsAreOfLines
<1>3. scanned + 1 \in 1 .. Len(file) + 1
  BY <1>2
<1>4. e \in ErrorRecord /\ b \in ErrorRecord /\ e.why = "refused"
  BY <1>3 DEF Error, ErrorRecord
<1>5. \A n \in 1 .. scanned : b # Error("bad line", n)
  <2>1. \A n : Error("bad line", n).line = n
    BY DEF Error
  <2>2. \A n \in 1 .. scanned : n # scanned + 1
    BY <1>2
  <2>3. b.line = scanned + 1
    BY DEF Error
  <2> HIDE DEF b
  <2> QED  BY ONLY <2>1, <2>2, <2>3
<1> HIDE DEF e, b
<1>6. CASE readErrs' = readErrs \o <<>> \o <<e>>
  <2>1. readErrs' = Append(readErrs, e)
    BY <1>2, <1>4, <1>6, ConcatEmptySeq, AppendIsConcat
  <2>2. ErrorsAreOfLines'
    BY <1>1, <1>2, <1>4, <2>1, LastError
  <2> QED  BY <1>1, <2>2, NothingMoreRead
<1>7. CASE readErrs' = readErrs \o <<b>> \o <<e>>
  <2> DEFINE errs == Append(readErrs, b)
  <2>1. /\ errs \in Seq(ErrorRecord)
        /\ errs[Len(readErrs) + 1] = b
        /\ \A k \in DOMAIN readErrs : errs[k] = readErrs[k] /\ k \in DOMAIN errs
        /\ \A k \in DOMAIN errs : k = Len(readErrs) + 1 \/ k \in DOMAIN readErrs
    BY <1>2, <1>4, OneMore
  <2>2. errs = readErrs \o <<b>>
    BY <1>2, <1>4, AppendIsConcat
  <2> HIDE DEF errs
  <2>3. readErrs' = Append(errs, e)
    BY <1>4, <1>7, <2>1, <2>2, AppendIsConcat
  <2>4. NamesTheBadOnes(errs)
    BY <1>2, <1>5, <2>1 DEF NamesTheBadOnes
  <2>5. ErrorsAreOfLines'
    BY <1>1, <1>4, <2>1, <2>3, <2>4, LastError
  <2> QED  BY <1>1, <2>5, NothingMoreRead
<1> QED  BY <1>1, <1>6, <1>7

LEMMA ScanStepInv == ReaderInv /\ ScanStep => ReaderInv'
BY ScanLineInv, LineTooLongInv, ReadFailsInv DEF ScanStep

LEMMA StartReadingInv ==
    ASSUME ReaderInit, NEW lines, IsFile(lines), lines # Absent, StartReading(lines)
    PROVE  ReaderInv'
<1>1. /\ file' = lines /\ scanned' = 0 /\ read' = <<>> /\ readErrs' = <<>>
  BY DEF ReaderInit, StartReading
<1>2. Len(lines) \in Nat
  BY RecordAssumption DEF IsFile
<1>3. RecordsFrom(lines, Good')[0] = <<>>
  BY <1>2, RecordsFromStep
<1>4. ReadSoFar'
  BY <1>1, <1>2, <1>3 DEF ReadSoFar
<1>5. ErrorsAreOfLines'
  BY <1>1 DEF ErrorsAreOfLines, NamesTheBadOnes, ScanFailed
<1> QED  BY <1>1, <1>4, <1>5 DEF ReaderInv

LEMMA ReaderUnchangedInv == ReaderInv /\ UNCHANGED readerVars => ReaderInv'
<1> SUFFICES ASSUME ReaderInv, UNCHANGED readerVars PROVE ReaderInv'
  OBVIOUS
<1>1. file' = file /\ scanned' = scanned /\ read' = read /\ readErrs' = readErrs
  BY DEF readerVars
<1>2. ReaderInit' = ReaderInit /\ IsFile(file)' = IsFile(file)
  BY <1>1 DEF ReaderInit
<1>3. ReadSoFar' = ReadSoFar
  BY <1>1 DEF ReadSoFar, Good
<1>4. ErrorsAreOfLines' = ErrorsAreOfLines
  BY <1>1 DEF ErrorsAreOfLines, NamesTheBadOnes, ScanFailed, ErrorRecord
<1> QED  BY <1>1, <1>2, <1>3, <1>4 DEF ReaderInv

-----------------------------------------------------------------------------
LEMMA ReaderTypeCorrect == ReaderInv => ReaderTypeOK
<1> SUFFICES ASSUME ReaderInv PROVE ReaderTypeOK
  OBVIOUS
<1>1. CASE file = Absent
  BY <1>1 DEF ReaderInv, ReaderInit, ReaderTypeOK
<1>2. CASE file # Absent
  <2>1. read \in Seq(Record)
    BY <1>2, ReaderTypes DEF ReadSoFar
  <2> QED  BY <1>2, <2>1, ReaderTypes DEF ReaderTypeOK
<1> QED  BY <1>1, <1>2

(***************************************************************************)
(* Every line that the reader was given is accounted for (chain.go:93),    *)
(* whatever the file, wherever the reading ends.                           *)
(***************************************************************************)
LEMMA Accounted == ReaderInv => EveryLineIsAccountedFor
<1> SUFFICES ASSUME ReaderInv, file # Absent, Stopped
             PROVE  LET given == 1 .. scanned
                        good == {n \in given : file[n] # Blank /\ Parses(file[n])}
                        blamed == {n \in given : \E k \in DOMAIN readErrs :
                                      readErrs[k] = Error("bad line", n)}
                    IN  /\ \A n \in given : file[n] # TooLong
                        /\ read = RecordsFrom(file, good)[scanned]
                        /\ blamed = {n \in given : file[n] # Blank /\ ~Parses(file[n])}
                        /\ readErrs = <<>> => given = DOMAIN file
  BY DEF EveryLineIsAccountedFor
<1> DEFINE given == 1 .. scanned
           good == {n \in given : file[n] # Blank /\ Parses(file[n])}
<1>1. /\ Len(file) \in Nat /\ DOMAIN file = 1 .. Len(file)
      /\ scanned \in 0 .. Len(file) /\ ReadSoFar /\ ErrorsAreOfLines
  BY ReaderTypes
<1>2. \A n \in given : n \in good <=> n \in Good
  <2>1. given \subseteq DOMAIN file /\ \A n \in given : file[n] # TooLong
    BY <1>1 DEF ReadSoFar
  <2> QED  BY <2>1 DEF Good
<1>3. read = RecordsFrom(file, good)[scanned]
  <2>1. read = RecordsFrom(file, Good)[scanned]
    BY <1>1 DEF ReadSoFar
  <2>2. /\ Len(file) \in Nat /\ scanned \in 0 .. Len(file)
        /\ \A n \in 1 .. scanned : n \in Good <=> n \in good
    BY <1>1, <1>2
  <2> HIDE DEF good
  <2>3. RecordsFrom(file, Good)[scanned] = RecordsFrom(file, good)[scanned]
    BY ONLY <2>2, RecordsFromAgree
  <2> QED  BY <2>1, <2>3
<1>4. readErrs = <<>> => given = DOMAIN file
  BY <1>1 DEF Stopped, ScanFailed
<1> QED  BY <1>1, <1>3, <1>4 DEF ReadSoFar, ErrorsAreOfLines, NamesTheBadOnes

(***************************************************************************)
(* The reader has no error exactly for the files whose lines are all in    *)
(* order, and then it has their records.  A read that is refused says      *)
(* nothing about the lines.                                                *)
(***************************************************************************)
InOrder(lines) ==
    \A n \in DOMAIN lines :
        lines[n] = Blank \/ (lines[n] # TooLong /\ Parses(lines[n]))

LEMMA NoErrors ==
    ASSUME ReaderInv, file # Absent, Stopped, readErrs = <<>>
    PROVE  InOrder(file) /\ read = RecordsOf(file) /\ Len(read) <= Len(file)
<1>1. /\ Len(file) \in Nat /\ DOMAIN file = 1 .. Len(file)
      /\ scanned \in 0 .. Len(file) /\ ReadSoFar /\ ErrorsAreOfLines
  BY ReaderTypes
<1>2. scanned = Len(file)
  BY DEF Stopped, ScanFailed
<1>3. \A n \in DOMAIN file : file[n] # TooLong /\ (file[n] # Blank => Parses(file[n]))
  <2>1. \A n \in 1 .. scanned : file[n] # TooLong
    BY <1>1 DEF ReadSoFar
  <2>2. NamesTheBadOnes(<<>>)
    BY <1>1 DEF ErrorsAreOfLines
  <2> QED  BY <1>1, <1>2, <2>1, <2>2 DEF NamesTheBadOnes
<1>4. Good = {n \in DOMAIN file : file[n] # Blank}
  BY <1>3 DEF Good
<1>5. read = RecordsOf(file)
  BY <1>1, <1>2, <1>4 DEF ReadSoFar, RecordsOf
<1> QED  BY <1>1, <1>2, <1>3, <1>5 DEF InOrder, ReadSoFar

LEMMA SomeError ==
    ASSUME ReaderInv, file # Absent, readErrs # <<>>,
           readErrs[Len(readErrs)].why # "refused"
    PROVE  ~InOrder(file)
<1>1. /\ Len(file) \in Nat /\ DOMAIN file = 1 .. Len(file)
      /\ scanned \in 0 .. Len(file) /\ ReadSoFar /\ ErrorsAreOfLines
      /\ Len(readErrs) \in DOMAIN readErrs
  <2>1. /\ Len(readErrs) \in Nat /\ DOMAIN readErrs = 1 .. Len(readErrs)
        /\ Len(readErrs) > 0
    BY ReaderTypes
  <2>2. Len(readErrs) \in DOMAIN readErrs
    BY ONLY <2>1
  <2> QED  BY <2>2, ReaderTypes
<1> DEFINE e == readErrs[Len(readErrs)]
<1>2. e.why \in {"bad line", "too long"} /\ e.line \in 1 .. Len(file) + 1
  BY <1>1, ReaderTypes
<1>3. CASE e.why = "too long"
  <2>1. scanned < Len(file) /\ file[scanned + 1] = TooLong
    BY <1>1, <1>3 DEF ErrorsAreOfLines, ScanFailed
  <2>2. scanned + 1 \in DOMAIN file
    BY <1>1, <2>1
  <2> QED  BY <2>1, <2>2, DifferentLines DEF InOrder
<1>4. CASE e.why = "bad line"
  <2>1. e.line \in 1 .. scanned
    <3>1. ~ScanFailed
      BY <1>4 DEF ScanFailed
    <3>2. e.line <= scanned
      BY <1>1, <3>1 DEF ErrorsAreOfLines
    <3>3. scanned \in Int /\ e.line \in Int /\ 1 <= e.line
      <4>1. scanned \in 0 .. Len(file) /\ Len(file) \in Nat /\ e.line \in 1 .. Len(file) + 1
        BY <1>1, <1>2
      <4> HIDE DEF e
      <4> QED  BY ONLY <4>1
    <3> HIDE DEF e
    <3> QED  BY <3>2, <3>3
  <2>2. e = Error("bad line", e.line)
    <3>1. e \in ErrorRecord
      <4>1. readErrs \in Seq(ErrorRecord)
        BY <1>1 DEF ErrorsAreOfLines
      <4> QED  BY <1>1, <4>1
    <3> QED  BY <1>4, <3>1 DEF ErrorRecord, Error
  <2>3. file[e.line] # Blank /\ ~Parses(file[e.line])
    BY <1>1, <2>1, <2>2 DEF ErrorsAreOfLines, NamesTheBadOnes
  <2>4. e.line \in DOMAIN file
    BY <1>1, <2>1
  <2> QED  BY <2>3, <2>4 DEF InOrder
<1> QED  BY <1>2, <1>3, <1>4

-----------------------------------------------------------------------------
Report ==
    [verdict : Verdicts \union {"none"}, exit_code : 0 .. 2,
     workspace_id : Tenants \union {Nil}, chain_ok : BOOLEAN,
     total : Nat, verified : Int, attested : Nat, unattested : Nat, failed : Nat,
     keys_resolved : Nat]

\* Nothing has been walked, nothing is judged.
NotYetWalked ==
    /\ stage \in {"open", "chain", "read", "keys"} => StartOfWalk /\ bundle = Nil
    /\ stage \in {"open", "chain", "read"} => records = <<>>
    /\ stage \in {"open", "chain"} => file = Absent

NotYetJudged ==
    stage # "done" => report.verdict = "none" /\ report.exit_code = 0 /\ refused = FALSE

\* What the stages passed have established.
Established ==
    /\ stage \in {"chain", "read", "keys", "walk"} => Openable(pack)
    /\ stage = "read" => file = pack.chain
    /\ stage \in {"keys", "walk"} => Readable(pack) /\ records = RecordsOf(pack.chain)
    /\ stage = "walk" => pack.keys # BadKeys /\ bundle = BundleOf(pack)

PackInv ==
    /\ Inv /\ ReaderInv
    /\ pack \in Packs /\ stage \in Stages /\ refused \in BOOLEAN
    /\ report \in Report
    /\ NotYetWalked /\ NotYetJudged /\ Established
    /\ ReportAddsUp

-----------------------------------------------------------------------------
\* What is assumed of a pack.
LEMMA APack ==
    ASSUME NEW p \in Packs
    PROVE  /\ p.tenant \in Tenants
           /\ p.chain # Absent => IsFile(p.chain)
           /\ p.keys \in {Absent, BadKeys} \/ p.keys \in Seq(KeyRecord)
           /\ p.keys # BadKeys => BundleOf(p) \in KeyBundle
<1>1. /\ p.tenant \in Tenants
      /\ p.chain # Absent => Len(p.chain) \in 0 .. MaxInt /\ DOMAIN p.chain = 1 .. Len(p.chain)
      /\ p.keys \in {Absent, BadKeys} \/ p.keys \in Seq(KeyRecord)
  BY PackAssumption
<1> QED  BY <1>1 DEF IsFile, BundleOf, KeyBundle

LEMMA ReadableIsInOrder == \A p : Readable(p) <=> InOrder(p.chain)
BY DEF Readable, InOrder

LEMMA PackInitInv == PackInit => PackInv
<1> SUFFICES ASSUME PackInit PROVE PackInv
  OBVIOUS
<1> USE DEF PackInit
<1>1. Called
  BY RecordAssumption DEF Called, IsChain, KeyBundle
<1>2. Inv
  BY <1>1, StartInv
<1>3. ReaderInv
  BY DEF ReaderInv, ReaderInit
<1>4. report \in Report
  BY DEF EmptyReport, Report
<1>5. NotYetWalked /\ NotYetJudged /\ Established
  BY DEF NotYetWalked, NotYetJudged, Established, EmptyReport, ReaderInit
<1>6. ReportAddsUp
  BY DEF ReportAddsUp, EmptyReport, Verdicts
<1> QED  BY <1>2, <1>3, <1>4, <1>5, <1>6 DEF PackInv, Stages

\* The invariant of the walk while the walk stands still, and where it starts.
LEMMA WalkStands ==
    ASSUME Inv, UNCHANGED <<records, bundle, kek, strict, cache, walked, carried,
                            errors, statuses, result>>
    PROVE  Inv'
BY StutterInv DEF vars, inputs

LEMMA CalledNext == Called' => Inv'
BY StartInv, PTL

-----------------------------------------------------------------------------
\* An early return leaves the walk where it was and says "malformed".
EarlyReturn ==
    /\ report' = [report EXCEPT !.verdict = "malformed", !.exit_code = 2]
    /\ stage' = "done" /\ refused' \in BOOLEAN
    /\ UNCHANGED <<records, bundle, readerVars>>

LEMMA EarlyReturnInv ==
    ASSUME PackInv, BeforeWalk, EarlyReturn
    PROVE  PackInv'
<1> USE DEF EarlyReturn, BeforeWalk
<1>1. Inv'
  BY WalkStands DEF PackInv
<1>2. ReaderInv'
  BY ReaderUnchangedInv DEF PackInv
<1>3. report' \in Report /\ report'.verdict = "malformed"
  <2>1. report \in Report
    BY DEF PackInv
  <2>2. "malformed" \in Verdicts \union {"none"} /\ 2 \in 0 .. 2
    BY DEF Verdicts
  <2> QED  BY <2>1, <2>2 DEF Report
<1>4. NotYetWalked' /\ NotYetJudged' /\ Established'
  BY DEF NotYetWalked, NotYetJudged, Established
<1>5. ReportAddsUp'
  BY <1>3 DEF ReportAddsUp
<1> QED  BY <1>1, <1>2, <1>3, <1>4, <1>5 DEF PackInv, Stages

LEMMA OpenPackInv == PackInv /\ OpenPack => PackInv'
<1> SUFFICES ASSUME PackInv, OpenPack PROVE PackInv'
  OBVIOUS
<1>1. stage = "open" /\ BeforeWalk
  BY DEF OpenPack
<1>2. CASE Malformed(~Openable(pack))
  BY <1>1, <1>2, EarlyReturnInv DEF Malformed, EarlyReturn
<1>3. CASE /\ Openable(pack) /\ stage' = "chain"
           /\ report' = [report EXCEPT !.workspace_id = pack.tenant]
           /\ UNCHANGED <<records, bundle, readerVars, refused>>
  <2> USE DEF BeforeWalk
  <2>1. Inv'
    BY <1>1, <1>3, WalkStands DEF PackInv
  <2>2. ReaderInv'
    BY <1>3, ReaderUnchangedInv DEF PackInv
  <2>3. report' \in Report /\ report'.verdict = "none" /\ report'.exit_code = 0
    <3>1. report \in Report /\ pack.tenant \in Tenants
      BY APack DEF PackInv
    <3>2. report.verdict = "none" /\ report.exit_code = 0
      BY <1>1 DEF PackInv, NotYetJudged
    <3> QED  BY <1>3, <3>1, <3>2 DEF Report
  <2>4. NotYetWalked'
    BY <1>1, <1>3 DEF PackInv, NotYetWalked, StartOfWalk, carried, readerVars
  <2>5. NotYetJudged'
    BY <1>1, <1>3, <2>3 DEF PackInv, NotYetJudged
  <2>6. Established'
    BY <1>1, <1>3 DEF Established
  <2>7. ReportAddsUp'
    BY <2>3 DEF ReportAddsUp, Verdicts
  <2> QED  BY <1>1, <1>3, <2>1, <2>2, <2>3, <2>4, <2>5, <2>6, <2>7 DEF PackInv, Stages
<1> QED  BY <1>2, <1>3 DEF OpenPack

LEMMA OpenChainInv == PackInv /\ OpenChain => PackInv'
<1> SUFFICES ASSUME PackInv, OpenChain PROVE PackInv'
  OBVIOUS
<1>1. stage = "chain" /\ BeforeWalk
  BY DEF OpenChain
<1>2. CASE Malformed(FALSE)
  BY <1>1, <1>2, EarlyReturnInv DEF Malformed, EarlyReturn
<1>3. CASE /\ StartReading(pack.chain) /\ stage' = "read"
           /\ UNCHANGED <<records, bundle, report, refused>>
  <2> USE DEF BeforeWalk
  <2>1. Inv'
    BY <1>1, <1>3, WalkStands DEF PackInv
  <2>2. ReaderInv' /\ file' = pack.chain
    <3>1. ReaderInit
      BY <1>1 DEF PackInv, NotYetWalked, ReaderInv
    <3>2. pack.chain # Absent /\ IsFile(pack.chain)
      BY <1>1, APack DEF PackInv, Established, Openable
    <3> QED  BY <1>3, <3>1, <3>2, StartReadingInv DEF StartReading
  <2>3. NotYetWalked'
    BY <1>1, <1>3 DEF PackInv, NotYetWalked, StartOfWalk, carried
  <2>4. NotYetJudged' /\ report.verdict = "none"
    BY <1>1, <1>3 DEF PackInv, NotYetJudged
  <2>5. Established'
    BY <1>1, <1>3, <2>2 DEF PackInv, Established
  <2>6. ReportAddsUp'
    BY <1>3, <2>4 DEF ReportAddsUp, Verdicts
  <2> QED  BY <1>1, <1>3, <2>1, <2>2, <2>3, <2>4, <2>5, <2>6 DEF PackInv, Stages, Report
<1> QED  BY <1>2, <1>3 DEF OpenChain

LEMMA ScanChainInv == PackInv /\ ScanChain => PackInv'
<1> SUFFICES ASSUME PackInv, ScanChain PROVE PackInv'
  OBVIOUS
<1>1. stage = "read" /\ ScanStep /\ UNCHANGED <<vars, packVars>>
  BY DEF ScanChain
<1>2. /\ UNCHANGED <<records, bundle, kek, strict, cache, walked, carried, errors,
                     statuses, result, pack, stage, refused, report>>
      /\ UNCHANGED vars
  BY <1>1 DEF vars, inputs, packVars
<1>3. Inv'
  BY <1>2, StutterInv DEF PackInv
<1>4. ReaderInv' /\ file' = file
  <2>1. file' = file
    BY <1>1 DEF ScanStep, ScanLine, LineTooLong, ReadFails
  <2> QED  BY <1>1, <2>1, ScanStepInv DEF PackInv
<1>5. NotYetWalked'
  BY <1>1, <1>2 DEF PackInv, NotYetWalked, StartOfWalk, carried
<1>6. NotYetJudged' /\ Established'
  BY <1>1, <1>2, <1>4 DEF PackInv, NotYetJudged, Established
<1>7. ReportAddsUp'
  BY <1>2 DEF PackInv, ReportAddsUp
<1> QED  BY <1>2, <1>3, <1>4, <1>5, <1>6, <1>7 DEF PackInv, Report

LEMMA ReadChainInv == PackInv /\ ReadChain => PackInv'
<1> SUFFICES ASSUME PackInv, ReadChain PROVE PackInv'
  OBVIOUS
<1>1. stage = "read" /\ Stopped /\ BeforeWalk
  BY DEF ReadChain
<1>2. CASE Malformed(readErrs[Len(readErrs)].why # "refused")
  BY <1>1, <1>2, EarlyReturnInv DEF Malformed, EarlyReturn
<1>3. CASE /\ readErrs = <<>> /\ records' = read /\ stage' = "keys"
           /\ UNCHANGED <<bundle, readerVars, report, refused>>
  <2> USE DEF BeforeWalk
  <2>1. /\ file = pack.chain /\ Openable(pack) /\ file # Absent /\ IsFile(file)
        /\ StartOfWalk /\ bundle = Nil
    BY <1>1, APack DEF PackInv, NotYetWalked, Established, Openable
  <2>2. InOrder(file) /\ read = RecordsOf(file) /\ Len(read) <= Len(file)
    BY <1>1, <1>3, <2>1, NoErrors DEF PackInv
  <2>3. StartOfWalk' /\ bundle' = Nil
    BY <1>1, <1>3, <2>1 DEF StartOfWalk, carried
  <2>4. Inv'
    <3>1. IsChain(read)
      <4>1. read \in Seq(Record)
        BY <2>1, ReaderTypes DEF PackInv, ReadSoFar
      <4>2. Len(read) \in Nat /\ Len(file) \in Int /\ Len(file) <= MaxInt /\ MaxInt \in Int
        BY <2>1, <4>1, RecordAssumption DEF IsFile
      <4>3. Len(read) <= MaxInt
        BY <2>2, <4>2
      <4> QED  BY <4>1, <4>3 DEF IsChain
    <3>2. kek' \in Keks \union {Nil} /\ strict' \in BOOLEAN
      BY <1>1 DEF PackInv, Inv, TypeOK
    <3>3. bundle' \in KeyBundle
      BY <2>3 DEF KeyBundle
    <3> QED  BY <1>3, <2>3, <3>1, <3>2, <3>3, CalledNext DEF Called
  <2>5. ReaderInv'
    BY <1>3, ReaderUnchangedInv DEF PackInv
  <2>6. NotYetWalked'
    BY <1>3, <2>3 DEF NotYetWalked
  <2>7. NotYetJudged' /\ report.verdict = "none"
    BY <1>1, <1>3 DEF PackInv, NotYetJudged
  <2>8. Established'
    BY <1>1, <1>3, <2>1, <2>2, ReadableIsInOrder DEF Established
  <2>9. ReportAddsUp'
    BY <1>3, <2>7 DEF ReportAddsUp, Verdicts
  <2> QED  BY <1>1, <1>3, <2>4, <2>5, <2>6, <2>7, <2>8, <2>9 DEF PackInv, Stages, Report
<1> QED  BY <1>2, <1>3 DEF ReadChain

LEMMA BuildResolverInv == PackInv /\ BuildResolver => PackInv'
<1> SUFFICES ASSUME PackInv, BuildResolver PROVE PackInv'
  OBVIOUS
<1>1. stage = "keys" /\ BeforeWalk
  BY DEF BuildResolver
<1>2. CASE Malformed(pack.keys = BadKeys)
  BY <1>1, <1>2, EarlyReturnInv DEF Malformed, EarlyReturn
<1>3. CASE /\ pack.keys # BadKeys /\ bundle' = BundleOf(pack)
           /\ report' = [report EXCEPT !.keys_resolved =
                            IF pack.keys = Absent THEN 0 ELSE Len(pack.keys)]
           /\ stage' = "walk"
           /\ UNCHANGED <<records, readerVars, refused>>
  <2> USE DEF BeforeWalk
  <2>1. StartOfWalk'
    BY <1>1, <1>3 DEF PackInv, NotYetWalked, StartOfWalk, carried
  <2>2. Inv'
    <3>1. bundle' \in KeyBundle
      BY <1>3, APack DEF PackInv
    <3>2. IsChain(records') /\ kek' \in Keks \union {Nil} /\ strict' \in BOOLEAN
      BY <1>1, <1>3 DEF PackInv, Inv, TypeOK
    <3> QED  BY <2>1, <3>1, <3>2, CalledNext DEF Called
  <2>3. ReaderInv'
    BY <1>3, ReaderUnchangedInv DEF PackInv
  <2>4. report' \in Report /\ report'.verdict = "none" /\ report'.exit_code = 0
    <3>1. (IF pack.keys = Absent THEN 0 ELSE Len(pack.keys)) \in Nat
      <4>1. pack.keys = Absent \/ pack.keys \in Seq(KeyRecord)
        BY <1>3, APack DEF PackInv
      <4> QED  BY <4>1
    <3>2. report \in Report /\ report.verdict = "none" /\ report.exit_code = 0
      BY <1>1 DEF PackInv, NotYetJudged
    <3> QED  BY <1>3, <3>1, <3>2 DEF Report
  <2>5. NotYetWalked'
    BY <1>3 DEF NotYetWalked
  <2>6. NotYetJudged'
    BY <1>1, <1>3, <2>4 DEF PackInv, NotYetJudged
  <2>7. Established'
    BY <1>1, <1>3 DEF PackInv, Established
  <2>8. ReportAddsUp'
    BY <2>4 DEF ReportAddsUp, Verdicts
  <2> QED  BY <1>1, <1>3, <2>2, <2>3, <2>4, <2>5, <2>6, <2>7, <2>8 DEF PackInv, Stages
<1> QED  BY <1>2, <1>3 DEF BuildResolver

LEMMA PackWalkInv == PackInv /\ Walk => PackInv'
<1> SUFFICES ASSUME PackInv, Walk PROVE PackInv'
  OBVIOUS
<1>1. stage = "walk" /\ Next /\ UNCHANGED <<readerVars, packVars>>
  BY DEF Walk, Next
<1>2. Inv'
  BY <1>1, VerifyRecordInv, ReturnInv DEF PackInv, Next
<1>3. ReaderInv'
  BY <1>1, ReaderUnchangedInv DEF PackInv
<1>4. /\ UNCHANGED <<pack, stage, refused, report>>
      /\ UNCHANGED <<records, bundle, kek, strict>>
  BY <1>1 DEF packVars, Next, VerifyRecord, Return, inputs
<1>5. NotYetWalked' /\ NotYetJudged' /\ Established'
  BY <1>1, <1>4 DEF PackInv, NotYetWalked, NotYetJudged, Established
<1>6. ReportAddsUp'
  BY <1>1, <1>4 DEF PackInv, NotYetJudged, ReportAddsUp, Verdicts
<1> QED  BY <1>2, <1>3, <1>4, <1>5, <1>6 DEF PackInv, Report

-----------------------------------------------------------------------------
(***************************************************************************)
(* The three tallies: they are disjoint and cover the records.             *)
(***************************************************************************)
Having(attestation) == {i \in DOMAIN statuses : statuses[i].attestation = attestation}

LEMMA Tallies ==
    ASSUME Inv, result # Nil
    PROVE  /\ Tally("attested") \in Nat /\ Tally("unattested") \in Nat
           /\ Tally("failed") \in Nat
           /\ Tally("attested") + Tally("unattested") + Tally("failed") = Len(records)
           /\ \A a \in {"attested", "unattested", "failed"} :
                 Tally(a) > 0 <=> \E i \in DOMAIN records : statuses[i].attestation = a
<1> DEFINE A == Having("attested")
           U == Having("unattested")
           F == Having("failed")
           D == DOMAIN statuses
<1>1. /\ Len(records) \in Nat /\ DOMAIN records = 1 .. Len(records)
      /\ D = DOMAIN records /\ statuses \in Seq(RecordStatus)
  BY DEF Inv, TypeOK, IsChain, ResultOfAll
<1>2. \A i \in D : statuses[i].attestation \in {"attested", "unattested", "failed"}
  <2>1. \A i \in D : statuses[i] \in RecordStatus
    BY <1>1
  <2> QED  BY <2>1 DEF RecordStatus
<1>3. IsFiniteSet(D) /\ Cardinality(D) = Len(records)
  <2>1. /\ IsFiniteSet(1 .. Len(records))
        /\ Cardinality(1 .. Len(records)) =
              IF 1 > Len(records) THEN 0 ELSE Len(records) - 1 + 1
    BY <1>1, FS_Interval
  <2> QED  BY <1>1, <2>1
<1>4. \A a : Having(a) \subseteq D
  BY DEF Having
<1>5. \A a : IsFiniteSet(Having(a)) /\ Cardinality(Having(a)) \in Nat
  BY <1>3, <1>4, FS_Subset, FS_CardinalityType
<1>6. A \cap U = {} /\ (A \union U) \cap F = {} /\ (A \union U) \union F = D
  BY <1>2 DEF Having
<1>7. \A a : Cardinality(Having(a)) > 0 <=> \E i \in D : statuses[i].attestation = a
  <2> TAKE a
  <2>1. Cardinality(Having(a)) = 0 <=> Having(a) = {}
    BY <1>5, FS_EmptySet
  <2>2. Having(a) # {} <=> \E i \in D : statuses[i].attestation = a
    BY DEF Having
  <2> QED  BY <1>5, <2>1, <2>2
<1> HIDE DEF A, U, F, D
<1>8. IsFiniteSet(A) /\ IsFiniteSet(U) /\ IsFiniteSet(F)
  BY <1>5 DEF A, U, F
<1>9. /\ IsFiniteSet(A \union U)
      /\ Cardinality(A \union U) = Cardinality(A) + Cardinality(U) - Cardinality(A \cap U)
  BY <1>8, FS_Union
<1>10. Cardinality((A \union U) \union F) =
          Cardinality(A \union U) + Cardinality(F) - Cardinality((A \union U) \cap F)
  BY <1>8, <1>9, FS_Union
<1>11. Cardinality({}) = 0
  BY FS_EmptySet
<1>12. /\ Cardinality(A) \in Nat /\ Cardinality(U) \in Nat /\ Cardinality(F) \in Nat
  BY <1>5 DEF A, U, F
<1>13. Cardinality(A) + Cardinality(U) + Cardinality(F) = Len(records)
  <2>1. Cardinality(A \union U) = Cardinality(A) + Cardinality(U) - 0
    BY <1>6, <1>9, <1>11
  <2>2. Len(records) = Cardinality(A \union U) + Cardinality(F) - 0
    BY <1>3, <1>6, <1>10, <1>11
  <2> QED  BY ONLY <1>12, <2>1, <2>2
<1>14. /\ Tally("attested") = Cardinality(A) /\ Tally("unattested") = Cardinality(U)
       /\ Tally("failed") = Cardinality(F)
       /\ \A a : Tally(a) = Cardinality(Having(a))
  BY DEF Tally, A, U, F, Having
<1>15. \A a : Tally(a) > 0 <=> \E i \in DOMAIN records : statuses[i].attestation = a
  BY <1>1, <1>7, <1>14 DEF D
<1> QED  BY <1>12, <1>13, <1>14, <1>15

(***************************************************************************)
(* What the outcome of the walk says of the statuses.                      *)
(***************************************************************************)
LEMMA Outcome ==
    ASSUME Inv, result # Nil
    PROVE  /\ DOMAIN statuses = DOMAIN records
           /\ result.ok <=> errors = <<>>
           /\ result.ok <=> \A i \in DOMAIN records : AcceptableAt(i)
           /\ result.ok => result.verified = Len(records)
           /\ \A i \in DOMAIN records :
                 LET a == statuses[i].attestation
                 IN  /\ a \in {"attested", "unattested", "failed"}
                     /\ a = "attested" <=>
                           Sound(records, i) /\ Signed(records[i], bundle, kek)
                     /\ a = "unattested" <=> Sound(records, i) /\ records[i].hmac = Nil
<1>1. /\ DOMAIN records = 1 .. walked /\ DOMAIN statuses = 1 .. walked
      /\ Len(records) \in Nat /\ statuses \in Seq(RecordStatus)
  BY DEF Inv, TypeOK, IsChain, ResultOfAll
<1>2. result.ok <=> errors = <<>>
  BY DEF Inv, ResultOfAll
<1>3. result.ok <=> \A i \in DOMAIN records : AcceptableAt(i)
  BY <1>1, <1>2 DEF Inv, ErrorsSoFar
<1>4. result.ok => result.verified = Len(records)
  <2> SUFFICES ASSUME result.ok PROVE result.verified = Len(records)
    OBVIOUS
  <2>1. {errors[e].seq : e \in DOMAIN errors} = {}
    BY <1>2
  <2>2. CountSeqsWithErrors = 0
    BY <2>1, FS_EmptySet DEF CountSeqsWithErrors
  <2> QED  BY <1>1, <2>2 DEF Inv, ResultOfAll
<1>5. \A i \in DOMAIN statuses :
         statuses[i].attestation \in {"attested", "unattested", "failed"}
  <2>0. statuses \in Seq(RecordStatus)
    BY <1>1
  <2>1. \A i \in DOMAIN statuses : statuses[i] \in RecordStatus
    BY ONLY <2>0
  <2> QED  BY <2>1 DEF RecordStatus
<1>6. \A i \in DOMAIN statuses : LocalStatus(statuses[i], records, i, bundle, kek)
  BY DEF Inv, StatusesAreLocal
<1> QED  BY <1>1, <1>2, <1>3, <1>4, <1>5, <1>6 DEF LocalStatus

(***************************************************************************)
(* The verdict switch, which looks at the counts, decides what Judgement   *)
(* says about the records.                                                 *)
(***************************************************************************)
LEMMA VerdictIsDeserved ==
    ASSUME Inv, result # Nil, WellFormed(pack),
           records = RecordsOf(pack.chain), bundle = BundleOf(pack),
           strict \in BOOLEAN
    PROVE  VerdictOf(result.ok, Tally("attested"), Tally("unattested"), Len(records))
              = Judgement(pack, kek, strict)
<1> DEFINE att == Tally("attested")
           unatt == Tally("unattested")
           AllAcceptable == \A i \in DOMAIN records :
                               Acceptable(records, i, bundle, kek, strict)
           AllAttested == \A i \in DOMAIN records : records[i].hmac # Nil
<1>1. result.ok <=> AllAcceptable
  BY Outcome DEF AcceptableAt
<1>2. /\ att \in Nat /\ unatt \in Nat /\ Tally("failed") \in Nat
      /\ att + unatt + Tally("failed") = Len(records)
      /\ unatt > 0 <=> \E i \in DOMAIN records : statuses[i].attestation = "unattested"
      /\ Tally("failed") > 0 <=> \E i \in DOMAIN records : statuses[i].attestation = "failed"
  BY Tallies
<1>3. ASSUME AllAcceptable
      PROVE  \A i \in DOMAIN records :
                /\ statuses[i].attestation # "failed"
                /\ statuses[i].attestation = "unattested" <=> records[i].hmac = Nil
                /\ records[i].hmac = Nil => ~strict
  BY <1>3, Outcome DEF Acceptable
<1>4. ASSUME AllAcceptable
      PROVE  /\ att = Len(records) <=> unatt = 0
             /\ unatt = 0 <=> AllAttested
             /\ unatt > 0 => ~strict
  <2>1. Tally("failed") = 0
    BY <1>2, <1>3, <1>4
  <2>2. unatt > 0 <=> ~AllAttested
    BY <1>2, <1>3, <1>4
  <2>3. unatt > 0 => ~strict
    BY <1>2, <1>3, <1>4
  <2> HIDE DEF att, unatt, AllAttested
  <2> QED  BY <1>2, <2>1, <2>2, <2>3
<1>5. Judgement(pack, kek, strict) =
         IF ~AllAcceptable THEN "failed"
         ELSE IF AllAttested THEN "verified" ELSE "verified_with_unattested_records"
  BY DEF Judgement
<1> DEFINE verdict == VerdictOf(result.ok, att, unatt, Len(records))
<1>6. CASE ~AllAcceptable
  <2>1. ~result.ok
    BY <1>1, <1>6
  <2>2. verdict = "failed"
    BY <2>1 DEF VerdictOf
  <2> QED  BY <1>5, <1>6, <2>2
<1>7. CASE AllAcceptable
  <2>1. result.ok
    BY <1>1, <1>7
  <2>2. CASE unatt = 0
    <3>1. att = Len(records) /\ AllAttested
      BY <1>4, <1>7, <2>2
    <3> HIDE DEF att, unatt, AllAcceptable, AllAttested
    <3>2. verdict = "verified"
      BY <2>1, <3>1 DEF VerdictOf
    <3> QED  BY <1>5, <1>7, <3>1, <3>2 DEF att, unatt
  <2>3. CASE unatt # 0
    <3>1. att # Len(records) /\ ~AllAttested /\ unatt > 0 /\ ~strict
      BY <1>2, <1>4, <1>7, <2>3
    <3> HIDE DEF att, unatt, AllAcceptable, AllAttested
    <3>2. verdict = "verified_with_unattested_records"
      BY <2>1, <3>1 DEF VerdictOf
    <3> QED  BY <1>5, <1>7, <3>1, <3>2 DEF att, unatt
  <2> QED  BY <2>2, <2>3
<1> QED  BY <1>6, <1>7

LEMMA ConcludeInv == PackInv /\ Conclude => PackInv'
<1> SUFFICES ASSUME PackInv, Conclude PROVE PackInv'
  OBVIOUS
<1> DEFINE att == Tally("attested")
           unatt == Tally("unattested")
           fail == Tally("failed")
           verdict == VerdictOf(result.ok, att, unatt, Len(records))
<1>1. /\ stage = "walk" /\ result # Nil /\ Inv /\ stage' = "done"
      /\ report' = [report EXCEPT !.verdict    = verdict,
                                  !.exit_code  = ExitCodeOf(verdict),
                                  !.chain_ok   = result.ok,
                                  !.total      = Len(records),
                                  !.verified   = result.verified,
                                  !.attested   = att,
                                  !.unattested = unatt,
                                  !.failed     = fail]
      /\ UNCHANGED <<vars, readerVars, pack, refused>>
  BY DEF Conclude, PackInv
<1>2. UNCHANGED <<records, bundle, kek, strict, errors, walked, file>>
  BY <1>1 DEF vars, inputs, readerVars
<1>3. /\ att \in Nat /\ unatt \in Nat /\ fail \in Nat
      /\ att + unatt + fail = Len(records)
      /\ unatt > 0 <=> \E i \in DOMAIN records : statuses[i].attestation = "unattested"
      /\ fail > 0 <=> \E i \in DOMAIN records : statuses[i].attestation = "failed"
  BY <1>1, Tallies
<1>4. /\ result.ok <=> errors = <<>>
      /\ result.ok <=> \A i \in DOMAIN records : AcceptableAt(i)
      /\ result.ok => result.verified = Len(records)
  BY <1>1, Outcome
<1>5. /\ result.ok \in BOOLEAN /\ result.verified \in Int
      /\ Len(records) \in Nat /\ strict \in BOOLEAN
  BY <1>1 DEF Inv, TypeOK, IsChain
<1>6. result.ok => fail = 0 /\ (att # Len(records) => unatt > 0) /\ (unatt > 0 => ~strict)
  <2> SUFFICES ASSUME result.ok
               PROVE  fail = 0 /\ (att # Len(records) => unatt > 0) /\ (unatt > 0 => ~strict)
    OBVIOUS
  <2>1. \A i \in DOMAIN records : statuses[i].attestation # "failed"
                             /\ (statuses[i].attestation = "unattested" => ~strict)
    BY <1>1, <1>4, Outcome DEF AcceptableAt, Acceptable
  <2>2. ~(fail > 0) /\ (unatt > 0 => ~strict)
    BY <1>3, <2>1
  <2> HIDE DEF att, unatt, fail
  <2> QED  BY <1>3, <1>5, <2>2
<1>7. ~result.ok => fail > 0 \/ (strict /\ unatt > 0)
  <2> SUFFICES ASSUME ~result.ok PROVE fail > 0 \/ (strict /\ unatt > 0)
    OBVIOUS
  <2>1. PICK i \in DOMAIN records : ~AcceptableAt(i)
    BY <1>4
  <2>2. \/ statuses[i].attestation = "failed"
        \/ strict /\ statuses[i].attestation = "unattested"
    BY <1>1, <2>1, Outcome DEF AcceptableAt, Acceptable
  <2> QED  BY <1>3, <2>2
<1> HIDE DEF att, unatt, fail
<1>8. /\ verdict = "verified" <=> result.ok /\ att = Len(records)
      /\ verdict = "verified_with_unattested_records" <=>
            result.ok /\ att # Len(records) /\ unatt > 0 /\ ~strict
      /\ verdict \in {"verified", "verified_with_unattested_records", "failed"}
  BY DEF VerdictOf
<1> HIDE DEF verdict
<1>9. /\ ExitCodeOf(verdict) \in 0 .. 2
      /\ ExitCodeOf(verdict) = 0 <=> verdict # "failed"
  BY <1>8 DEF ExitCodeOf
<1>10. /\ report' \in Report
       /\ report'.verdict = verdict /\ report'.exit_code = ExitCodeOf(verdict)
       /\ report'.chain_ok = result.ok /\ report'.total = Len(records)
       /\ report'.verified = result.verified /\ report'.attested = att
       /\ report'.unattested = unatt /\ report'.failed = fail
  <2>1. report \in Report
    BY DEF PackInv
  <2>2. verdict \in Verdicts \union {"none"}
    BY <1>8 DEF Verdicts
  <2> QED  BY <1>1, <1>3, <1>5, <1>9, <2>1, <2>2 DEF Report
<1>11. ReportAddsUp'
  <2>1. att + unatt + fail = Len(records)
    BY <1>3
  <2>2. ExitCodeOf(verdict) = 0 => fail = 0 /\ result.verified = Len(records) /\ result.ok
    BY <1>4, <1>6, <1>8, <1>9
  <2>3. verdict = "verified_with_unattested_records" => unatt > 0 /\ ~strict
    BY <1>8
  <2>4. verdict = "failed" => errors # <<>> /\ (fail > 0 \/ (strict /\ unatt > 0))
    <3>1. verdict = "failed" => ~result.ok
      BY <1>5, <1>6, <1>8
    <3> QED  BY <1>4, <1>7, <3>1
  <2> QED  BY <1>2, <1>10, <2>1, <2>2, <2>3, <2>4 DEF ReportAddsUp
<1>12. Inv'
  BY <1>1, StutterInv DEF PackInv
<1>13. ReaderInv'
  BY <1>1, ReaderUnchangedInv DEF PackInv
<1>14. NotYetWalked' /\ NotYetJudged' /\ Established'
  BY <1>1 DEF NotYetWalked, NotYetJudged, Established
<1> QED  BY <1>1, <1>10, <1>11, <1>12, <1>13, <1>14 DEF PackInv, Stages

LEMMA PackStutterInv == PackInv /\ UNCHANGED allVars => PackInv'
<1> SUFFICES ASSUME PackInv, UNCHANGED allVars PROVE PackInv'
  OBVIOUS
<1>1. /\ UNCHANGED vars /\ UNCHANGED readerVars
      /\ UNCHANGED <<pack, stage, refused, report, file>>
      /\ UNCHANGED <<records, bundle, kek, strict, cache, walked, carried, errors,
                     statuses, result>>
  BY DEF allVars, vars, inputs, packVars, readerVars
<1>2. Inv' /\ ReaderInv'
  BY <1>1, StutterInv, ReaderUnchangedInv DEF PackInv
<1>3. NotYetWalked' /\ NotYetJudged' /\ Established' /\ ReportAddsUp'
  BY <1>1 DEF PackInv, NotYetWalked, StartOfWalk, carried, NotYetJudged, Established,
              ReportAddsUp
<1> QED  BY <1>1, <1>2, <1>3 DEF PackInv, Report

\* The invariant holds throughout every verification of a pack.
THEOREM PackInvariance == PackSpec => []PackInv
<1>1. PackInv /\ [PackNext]_allVars => PackInv'
  BY OpenPackInv, OpenChainInv, ScanChainInv, ReadChainInv, BuildResolverInv,
     PackWalkInv, ConcludeInv, PackStutterInv DEF PackNext
<1> QED  BY <1>1, PackInitInv, PTL DEF PackSpec

-----------------------------------------------------------------------------
(***************************************************************************)
(* Pack, its reader and its walk keep their types (verify.go:61-145),      *)
(* whatever the pack.                                                      *)
(***************************************************************************)
THEOREM PackTypeCorrect == PackSpec => []PackTypeOK
<1>1. PackInv => PackTypeOK
  BY ReaderTypeCorrect DEF PackInv, Inv, PackTypeOK, Report
<1> QED  BY <1>1, PackInvariance, PTL

(***************************************************************************)
(* Each line that the reader is given is blank, is a record in its place   *)
(* or has an error of its own, whatever the file and wherever the reading  *)
(* ends (chain.go:93-129).                                                 *)
(***************************************************************************)
THEOREM EveryLineAccounted == PackSpec => []EveryLineIsAccountedFor
<1>1. PackInv => EveryLineIsAccountedFor
  BY Accounted DEF PackInv
<1> QED  BY <1>1, PackInvariance, PTL

(***************************************************************************)
(* The counters of a report agree with one another and with its verdict    *)
(* (verify.go:107-145), for every chain, bundle and KEK.                   *)
(***************************************************************************)
THEOREM ReportsAddUp == PackSpec => []ReportAddsUp
<1>1. PackInv => ReportAddsUp
  BY DEF PackInv
<1> QED  BY <1>1, PackInvariance, PTL

-----------------------------------------------------------------------------
(***************************************************************************)
(* The abstract specification speaks of packs and chains in the same       *)
(* words.                                                                  *)
(***************************************************************************)
LEMMA SameWords ==
    /\ \A line : Promise!RecordOf(line) = RecordOf(line)
    /\ \A lines : Promise!RecordsOf(lines) = RecordsOf(lines)
    /\ \A p : Promise!WellFormed(p) <=> WellFormed(p)
    /\ \A p : Promise!BundleOf(p) = BundleOf(p)
    /\ \A v : Promise!ExitCodeOf(v) = ExitCodeOf(v)
<1>1. \A line : Promise!RecordOf(line) = RecordOf(line)
  BY DEF Promise!RecordOf, Promise!Fields, Promise!Required, Promise!ZeroOf,
         RecordOf, Fields, Required, ZeroOf
<1>2. \A lines, chosen : Promise!RecordsFrom(lines, chosen) = RecordsFrom(lines, chosen)
  BY <1>1 DEF Promise!RecordsFrom, RecordsFrom
<1>3. \A lines : Promise!RecordsOf(lines) = RecordsOf(lines)
  BY <1>2 DEF Promise!RecordsOf, RecordsOf
<1>4. \A line : Promise!Parses(line) <=> Parses(line)
  BY <1>1 DEF Promise!Parses, Parses, Promise!Required, Required, Promise!Record, Record,
         Promise!Numbers, Numbers
<1>5. \A p : Promise!WellFormed(p) <=> WellFormed(p)
  BY <1>4 DEF Promise!WellFormed, WellFormed, Promise!Openable, Openable,
         Promise!Readable, Readable
<1>6. \A p : Promise!BundleOf(p) = BundleOf(p)
  BY DEF Promise!BundleOf, BundleOf
<1>7. \A v : Promise!ExitCodeOf(v) = ExitCodeOf(v)
  BY DEF Promise!ExitCodeOf, ExitCodeOf
<1> QED  BY <1>1, <1>3, <1>5, <1>6, <1>7

LEMMA SameAcceptable ==
    ASSUME NEW rs, NEW i, NEW b, NEW key, NEW str
    PROVE  Promise!Acceptable(rs, i, b, key, str) <=> Acceptable(rs, i, b, key, str)
<1>1. /\ \A x : Promise!DerefOrNull(x) = DerefOrNull(x)
      /\ \A n : Promise!Successor(n) = Successor(n)
      /\ Promise!Predecessor(rs, i) = Predecessor(rs, i)
  BY DEF Promise!DerefOrNull, DerefOrNull, Promise!Successor, Successor,
         Promise!Predecessor, Predecessor
<1>2. Promise!Follows(rs, i) <=> Follows(rs, i)
  BY <1>1 DEF Promise!Follows, Follows
<1>3. \A r : Promise!SelfConsistent(r) <=> SelfConsistent(r)
  BY DEF Promise!SelfConsistent, SelfConsistent, Promise!IdOf, IdOf,
         Promise!CanonicalPayload, CanonicalPayload, Promise!ChainHashOf, ChainHashOf
<1>4. \A k : /\ Promise!Holds(b, k) <=> Holds(b, k)
             /\ Promise!FirstRecord(b, k) = FirstRecord(b, k)
  BY DEF Promise!Holds, Holds, Promise!FirstRecord, FirstRecord
<1>5. \A k : Promise!Usable(b, key, k) <=> Usable(b, key, k)
  BY <1>4 DEF Promise!Usable, Usable, Promise!Opens, Opens
<1>6. \A r : Promise!Signed(r, b, key) <=> Signed(r, b, key)
  BY <1>4, <1>5 DEF Promise!Signed, Signed, Promise!MacOf, MacOf
<1> QED
  BY <1>2, <1>3, <1>6 DEF Promise!Acceptable, Acceptable, Promise!Sound, Sound

LEMMA SameJudgement ==
    ASSUME NEW p, NEW key, NEW str
    PROVE  Promise!Judgement(p, key, str) = Judgement(p, key, str)
BY SameWords, SameAcceptable DEF Promise!Judgement, Judgement

-----------------------------------------------------------------------------
LEMMA InitRefines == PackInit => Promise!Init
BY DEF PackInit, EmptyReport, Promise!Init

\* An early return without a refusal by the operating system blames the pack.
LEMMA EarlyReturnJudges ==
    ASSUME PackInv, stage # "done", BeforeWalk, EarlyReturn,
           ~refused' => ~WellFormed(pack)
    PROVE  Promise!Judge
<1>1. report.verdict = "none" /\ report \in Report
  BY DEF PackInv, NotYetJudged
<1>2. report'.verdict = "malformed" /\ report'.exit_code = 2
  BY <1>1 DEF EarlyReturn, Report
<1>3. Promise!ExitCodeOf("malformed") = 2
  BY DEF Promise!ExitCodeOf
<1>4. ~refused' => Promise!Judgement(pack, kek, strict) = "malformed"
  <2>1. ~WellFormed(pack) => Judgement(pack, kek, strict) = "malformed"
    BY DEF Judgement
  <2> QED  BY <2>1, SameJudgement
<1>5. /\ refused' \in BOOLEAN
      /\ report'.verdict = IF refused' THEN "malformed"
                                       ELSE Promise!Judgement(pack, kek, strict)
  BY <1>2, <1>4 DEF EarlyReturn
<1>6. report'.exit_code = Promise!ExitCodeOf(report'.verdict)
  BY <1>2, <1>3
<1>7. UNCHANGED <<pack, kek, strict>>
  BY DEF BeforeWalk
<1> QED  BY <1>1, <1>5, <1>6, <1>7 DEF Promise!Judge

LEMMA OpenPackRefines == PackInv /\ OpenPack => Promise!Judge \/ UNCHANGED Promise!vars
<1> SUFFICES ASSUME PackInv, OpenPack PROVE Promise!Judge \/ UNCHANGED Promise!vars
  OBVIOUS
<1>1. stage = "open" /\ BeforeWalk
  BY DEF OpenPack
<1>2. CASE Malformed(~Openable(pack))
  <2>1. EarlyReturn /\ (~refused' => ~WellFormed(pack))
    BY <1>2 DEF Malformed, EarlyReturn, WellFormed
  <2> QED  BY <1>1, <2>1, EarlyReturnJudges
<1>3. CASE /\ report' = [report EXCEPT !.workspace_id = pack.tenant]
           /\ UNCHANGED refused
  <2>1. report'.verdict = report.verdict /\ report'.exit_code = report.exit_code
    BY <1>3 DEF PackInv, Report
  <2> QED  BY <1>1, <1>3, <2>1 DEF BeforeWalk, Promise!vars
<1> QED  BY <1>2, <1>3 DEF OpenPack

LEMMA OpenChainRefines == PackInv /\ OpenChain => Promise!Judge \/ UNCHANGED Promise!vars
<1> SUFFICES ASSUME PackInv, OpenChain PROVE Promise!Judge \/ UNCHANGED Promise!vars
  OBVIOUS
<1>1. stage = "chain" /\ BeforeWalk
  BY DEF OpenChain
<1>2. CASE Malformed(FALSE)
  <2>1. EarlyReturn /\ (~refused' => ~WellFormed(pack))
    BY <1>2 DEF Malformed, EarlyReturn
  <2> QED  BY <1>1, <2>1, EarlyReturnJudges
<1>3. CASE UNCHANGED <<report, refused>>
  BY <1>1, <1>3 DEF BeforeWalk, Promise!vars
<1> QED  BY <1>2, <1>3 DEF OpenChain

LEMMA ReadChainRefines == PackInv /\ ReadChain => Promise!Judge \/ UNCHANGED Promise!vars
<1> SUFFICES ASSUME PackInv, ReadChain PROVE Promise!Judge \/ UNCHANGED Promise!vars
  OBVIOUS
<1>1. stage = "read" /\ BeforeWalk
  BY DEF ReadChain
<1>2. CASE readErrs # <<>> /\ Malformed(readErrs[Len(readErrs)].why # "refused")
  <2>1. EarlyReturn /\ (~refused' => readErrs[Len(readErrs)].why # "refused")
    BY <1>2 DEF Malformed, EarlyReturn
  <2>2. ReaderInv /\ file = pack.chain /\ file # Absent
    BY <1>1 DEF PackInv, Established, Openable
  <2>3. ~refused' => ~WellFormed(pack)
    BY <1>2, <2>1, <2>2, SomeError, ReadableIsInOrder DEF WellFormed
  <2> QED  BY <1>1, <2>1, <2>3, EarlyReturnJudges
<1>3. CASE UNCHANGED <<report, refused>>
  BY <1>1, <1>3 DEF BeforeWalk, Promise!vars
<1> QED  BY <1>2, <1>3 DEF ReadChain

LEMMA BuildResolverRefines ==
    PackInv /\ BuildResolver => Promise!Judge \/ UNCHANGED Promise!vars
<1> SUFFICES ASSUME PackInv, BuildResolver PROVE Promise!Judge \/ UNCHANGED Promise!vars
  OBVIOUS
<1>1. stage = "keys" /\ BeforeWalk
  BY DEF BuildResolver
<1>2. CASE Malformed(pack.keys = BadKeys)
  <2>1. EarlyReturn /\ (~refused' => ~WellFormed(pack))
    BY <1>2 DEF Malformed, EarlyReturn, WellFormed
  <2> QED  BY <1>1, <2>1, EarlyReturnJudges
<1>3. CASE /\ report' = [report EXCEPT !.keys_resolved =
                            IF pack.keys = Absent THEN 0 ELSE Len(pack.keys)]
           /\ UNCHANGED refused
  <2>1. report'.verdict = report.verdict /\ report'.exit_code = report.exit_code
    BY <1>3 DEF PackInv, Report
  <2> QED  BY <1>1, <1>3, <2>1 DEF BeforeWalk, Promise!vars
<1> QED  BY <1>2, <1>3 DEF BuildResolver

LEMMA ConcludeRefines == PackInv /\ Conclude => Promise!Judge
<1> SUFFICES ASSUME PackInv, Conclude PROVE Promise!Judge
  OBVIOUS
<1> DEFINE verdict == VerdictOf(result.ok, Tally("attested"), Tally("unattested"),
                                Len(records))
<1>1. /\ stage = "walk" /\ result # Nil /\ Inv /\ report \in Report
      /\ report.verdict = "none" /\ refused = FALSE /\ UNCHANGED <<pack, refused, vars>>
  BY DEF PackInv, NotYetJudged, Conclude
<1>2. verdict = Judgement(pack, kek, strict)
  <2>1. /\ WellFormed(pack) /\ records = RecordsOf(pack.chain)
        /\ bundle = BundleOf(pack) /\ strict \in BOOLEAN
    BY <1>1 DEF PackInv, Established, WellFormed, Inv, TypeOK
  <2> QED  BY <1>1, <2>1, VerdictIsDeserved
<1> HIDE DEF verdict
<1>3. report'.verdict = verdict /\ report'.exit_code = ExitCodeOf(verdict)
  BY <1>1 DEF Conclude, Report, verdict
<1>4. UNCHANGED <<pack, kek, strict>>
  BY <1>1 DEF vars, inputs
<1> QED  BY <1>1, <1>2, <1>3, <1>4, SameJudgement, SameWords DEF Promise!Judge

LEMMA StepRefines ==
    PackInv /\ [PackNext]_allVars => Promise!Judge \/ UNCHANGED Promise!vars
<1>1. ASSUME UNCHANGED <<pack, kek, strict, refused, report>>
      PROVE  UNCHANGED Promise!vars
  BY <1>1 DEF Promise!vars
<1>2. ScanChain \/ UNCHANGED allVars => UNCHANGED <<pack, kek, strict, refused, report>>
  BY DEF ScanChain, allVars, vars, inputs, packVars
<1>3. Walk => UNCHANGED <<pack, kek, strict, refused, report>>
  BY DEF Walk, VerifyRecord, Return, inputs, packVars
<1> QED
  BY <1>1, <1>2, <1>3, OpenPackRefines, OpenChainRefines, ReadChainRefines,
     BuildResolverRefines, ConcludeRefines DEF PackNext

(***************************************************************************)
(* verify.Pack gives a pack one verdict, the one it deserves, with its     *)
(* exit code, or "malformed" where the operating system refuses a file:    *)
(* every step of Pack (verify.go:61-145) is PackJudgement's one step or    *)
(* changes nothing that it speaks of.                                      *)
(***************************************************************************)
THEOREM PackKeepsItsPromise ==
    PackSpec => Promise!Init /\ [][Promise!Judge]_(Promise!vars)
<1>1. PackInv /\ [PackNext]_allVars => [Promise!Judge]_(Promise!vars)
  BY StepRefines
<1> QED  BY <1>1, InitRefines, PackInvariance, PTL DEF PackSpec
===============================================================================
