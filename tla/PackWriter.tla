------------------------------ MODULE PackWriter ------------------------------
(***************************************************************************)
(* WritePack of internal/fixturegen/fixturegen.go, call by call: the       *)
(* manifest, the chain record by record, the keys.  Any call may fail and  *)
(* leaves what is there; a reader, or a crash, may come between any two.   *)
(***************************************************************************)
EXTENDS ChainWriter, CompliancePack, SequencesExt

VARIABLES
    chain,      \* the Chain: its records, and its bundle or Nil
    disk,       \* the files, chain.jsonl as lines, a line as what it is made of
    written,    \* how many records have been written
    lineEnded,  \* chain.jsonl ends with a newline, or is empty
    step        \* the next call

writerVars == <<chain, disk, written, lineEnded, step>>

\* A file that is there is not Absent.
ASSUME WriterAssumption ==
    LET Line == Record \union {BadLine}
    IN  Absent \notin Seq(Line) /\ Absent \notin Seq(Seq(Line))

EmptyDisk == [manifest |-> "absent", chain |-> Absent, keys |-> Absent]

WriterInit(ch) ==
    /\ chain = ch /\ disk = EmptyDisk
    /\ written = 0 /\ lineEnded = TRUE /\ step = "mkdir"

WriteNext(ch) ==
    /\ chain' = ch /\ disk' = EmptyDisk
    /\ written' = 0 /\ lineEnded' = TRUE /\ step' = "mkdir"

\* ParseRecord decodes the first value of a line, whatever follows it.
LineOf(pieces) == pieces[1]

PackOnDisk ==
    [manifest |-> disk.manifest,
     chain    |-> IF disk.chain = Absent THEN Absent
                  ELSE [n \in DOMAIN disk.chain |-> LineOf(disk.chain[n])],
     keys     |-> disk.keys]

-----------------------------------------------------------------------------
KeysBeforeChain(s) ==       \* mutant: the two files in the other order
    CASE s \in {"manifest", "keys"} ->
            IF s = "manifest" /\ chain.bundle # Nil THEN "keys" ELSE "chain"
      [] s = "records" -> "written"

\* What is written after a file: keys.json last, if there is a bundle.
StepAfter(s) ==
    CASE s = "manifest" -> "chain"
      [] s = "records" -> IF chain.bundle # Nil THEN "keys" ELSE "written"
      [] s = "keys" -> "written"

Goes(from, to) == step = from /\ step' = to

MakeDirectory == Goes("mkdir", "manifest") /\ UNCHANGED <<chain, disk, written, lineEnded>>

\* os.WriteFile creates an empty file and then fills it.
WriteManifest ==
    /\ \/ Goes("manifest", "fill manifest") /\ disk' = [disk EXCEPT !.manifest = "unparsable"]
       \/ /\ Goes("fill manifest", StepAfter("manifest"))
          /\ disk' = [disk EXCEPT !.manifest = "ok"]
    /\ UNCHANGED <<chain, written, lineEnded>>

CreateChain ==
    /\ Goes("chain", "records")
    /\ disk' = [disk EXCEPT !.chain = <<>>]
    /\ UNCHANGED <<chain, written, lineEnded>>

\* Where bytes go: to the line that has not ended, or to a new one.
Appended(piece) ==
    IF lineEnded
      THEN Append(disk.chain, <<piece>>)
      ELSE [disk.chain EXCEPT ![Len(disk.chain)] = Append(@, piece)]

\* jf.Write(b), in part if it fails.
WriteRecord ==
    /\ step = "records" /\ written < Len(chain.records)
    /\ \E whole \in BOOLEAN :
          /\ disk' = [disk EXCEPT !.chain =
                         Appended(IF whole THEN chain.records[written + 1] ELSE BadLine)]
          /\ step' = IF whole THEN "newline" ELSE "failed"
    /\ written' = written + 1
    /\ lineEnded' = FALSE
    /\ UNCHANGED chain

CountNewline ==             \* mutant: the loop counts both of its writes
    /\ Goes("newline", "records")
    /\ lineEnded' = TRUE /\ written' = written + 1
    /\ UNCHANGED <<chain, disk>>

NewlineLost ==              \* mutant: records written without a newline
    /\ Goes("newline", "records")
    /\ UNCHANGED <<chain, disk, written, lineEnded>>

WriteNewline ==
    /\ Goes("newline", "records")
    /\ lineEnded' = TRUE
    /\ UNCHANGED <<chain, disk, written>>

EndOfRecords ==
    /\ written = Len(chain.records)
    /\ Goes("records", StepAfter("records"))
    /\ UNCHANGED <<chain, disk, written, lineEnded>>

WriteKeys ==
    /\ \/ Goes("keys", "fill keys") /\ disk' = [disk EXCEPT !.keys = BadKeys]
       \/ /\ Goes("fill keys", StepAfter("keys"))
          /\ disk' = [disk EXCEPT !.keys = chain.bundle]
    /\ UNCHANGED <<chain, written, lineEnded>>

\* A call that fails leaves a file as it was, or filled in part, which for the
\* manifest and the keys is no better than empty.
CallFails ==
    /\ step \notin {"written", "failed"} /\ step' = "failed"
    /\ UNCHANGED <<chain, disk, written, lineEnded>>

WriteStep ==
    \/ MakeDirectory \/ WriteManifest \/ CreateChain \/ WriteRecord
    \/ WriteNewline \/ EndOfRecords \/ WriteKeys \/ CallFails

-----------------------------------------------------------------------------
WriterTypeOK ==
    /\ disk.manifest \in ManifestConditions
    /\ disk.chain # Absent =>
          \A n \in DOMAIN disk.chain : \A k \in DOMAIN disk.chain[n] :
              disk.chain[n][k] = BadLine \/ DOMAIN disk.chain[n][k] = Fields
    /\ disk.keys \in {Absent, BadKeys, chain.bundle}
    /\ written \in 0 .. Len(chain.records)
    /\ lineEnded \in BOOLEAN

(***************************************************************************)
(* Whenever a reader looks at a pack that WritePack is at work on, or has  *)
(* given up: if it accepts the pack at all, what it reads is the beginning *)
(* of the chain, and it sees a signed record only if it sees all of them.  *)
(***************************************************************************)
AttestedOnlyWhole ==
    \A kek \in Keks \union {Nil}, strict \in BOOLEAN :
        ExitCodeOf(Judgement(PackOnDisk, kek, strict)) = 0 =>
            LET seen == RecordsOf(PackOnDisk.chain)
            IN  /\ IsPrefix(seen, chain.records)
                /\ (\E n \in DOMAIN seen : seen[n].hmac # Nil) => seen = chain.records
===============================================================================
