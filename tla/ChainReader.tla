----------------------------- MODULE ChainReader -----------------------------
(***************************************************************************)
(* ReadChainJSONL of internal/provenance/chain.go: chain.jsonl line by     *)
(* line.  Blank lines are passed over, a line that does not parse costs an *)
(* error and no more; a line that is too long or a read that fails ends    *)
(* the reading with what there is so far, and an error beside it.          *)
(***************************************************************************)
EXTENDS CompliancePack

VARIABLES
    file,       \* the lines of the file being read, Absent before
    scanned,    \* how many of them the scanner has handed over
    read,       \* records
    readErrs    \* errs: why, and in or after which line

readerVars == <<file, scanned, read, readErrs>>

ReaderInit == file = Absent /\ scanned = 0 /\ read = <<>> /\ readErrs = <<>>

StartReading(lines) ==
    /\ file' = lines
    /\ UNCHANGED <<scanned, read, readErrs>>

Error(why, line) == [why |-> why, line |-> line]

\* scan.Err() is not nil.
ScanFailed == readErrs # <<>> /\ readErrs[Len(readErrs)].why # "bad line"
Stopped == ScanFailed \/ scanned = Len(file)

ScanToBadLine ==                \* mutant: nothing read after a line that fails
    /\ file # Absent /\ ~Stopped /\ file[scanned + 1] # TooLong
    /\ LET line == file[scanned + 1]
           ok == line = Blank \/ Parses(line)
       IN  /\ scanned' = IF ok THEN scanned + 1 ELSE Len(file)
           /\ read' = IF ok /\ line # Blank THEN Append(read, RecordOf(line)) ELSE read
           /\ readErrs' = readErrs \o IF ok THEN <<>> ELSE <<Error("bad line", scanned + 1)>>
    /\ UNCHANGED file

ScanLine ==
    /\ file # Absent /\ ~Stopped /\ file[scanned + 1] # TooLong
    /\ LET line == file[scanned + 1]
       IN  \/ line = Blank /\ UNCHANGED <<read, readErrs>>
           \/ /\ line # Blank /\ Parses(line)
              /\ read' = Append(read, RecordOf(line)) /\ UNCHANGED readErrs
           \/ /\ line # Blank /\ ~Parses(line)
              /\ readErrs' = Append(readErrs, Error("bad line", scanned + 1))
              /\ UNCHANGED read
    /\ scanned' = scanned + 1
    /\ UNCHANGED file

ScanErrorLost ==                \* mutant: scan.Err() not asked for
    /\ file # Absent /\ ~Stopped /\ file[scanned + 1] = TooLong
    /\ scanned' = Len(file)
    /\ UNCHANGED <<file, read, readErrs>>

\* bufio.ErrTooLong: nothing is read from this line on.
LineTooLong ==
    /\ file # Absent /\ ~Stopped /\ file[scanned + 1] = TooLong
    /\ readErrs' = Append(readErrs, Error("too long", scanned + 1))
    /\ UNCHANGED <<file, scanned, read>>

\* A read fails, at the end of the file at the latest.  A piece of the current
\* line is handed over as if the file ended there, and may not parse.
ReadFails ==
    /\ file # Absent /\ ~ScanFailed
    /\ \E piece \in {<<>>} \union
             IF Stopped THEN {} ELSE {<<Error("bad line", scanned + 1)>>} :
          readErrs' = readErrs \o piece \o <<Error("refused", scanned + 1)>>
    /\ UNCHANGED <<file, scanned, read>>

ScanStep == ScanLine \/ LineTooLong \/ ReadFails

-----------------------------------------------------------------------------
ReaderTypeOK ==
    /\ read \in Seq(Record)
    /\ \A n \in DOMAIN readErrs :
          /\ readErrs[n].why \in {"bad line", "too long", "refused"}
          /\ readErrs[n].line \in 1 .. Len(file) + 1
    /\ file # Absent => scanned \in 0 .. Len(file)

(***************************************************************************)
(* chain.go:93: no line goes missing.  When the reader stops, each line it *)
(* was given is blank, is a record in its place, or has an error of its    *)
(* own; none was too long, and without an error there is no line left.     *)
(***************************************************************************)
EveryLineIsAccountedFor ==
    (file # Absent /\ Stopped) =>
        LET given == 1 .. scanned
            good == {n \in given : file[n] # Blank /\ Parses(file[n])}
            blamed == {n \in given : \E k \in DOMAIN readErrs :
                          readErrs[k] = Error("bad line", n)}
        IN  /\ \A n \in given : file[n] # TooLong
            /\ read = RecordsFrom(file, good)[scanned]
            /\ blamed = {n \in given : file[n] # Blank /\ ~Parses(file[n])}
            /\ readErrs = <<>> => given = DOMAIN file
===============================================================================
