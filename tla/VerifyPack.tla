------------------------------ MODULE VerifyPack ------------------------------
(***************************************************************************)
(* verify.Pack of internal/verify/verify.go: open the pack, read the       *)
(* chain, build the resolver, walk the chain, count the statuses, give the *)
(* verdict.  Every stage before the walk can end the run as malformed: the *)
(* file is bad, or the operating system refuses to open or read it.        *)
(***************************************************************************)
EXTENDS ChainVerify, ChainReader

VARIABLES
    pack,       \* the pack at packPath
    stage,      \* how far Pack has come
    refused,    \* the operating system refused to open or read a file
    report      \* the Report

packVars == <<pack, stage, refused, report>>
allVars == <<vars, readerVars, packVars>>

EmptyReport ==
    [verdict |-> "none", exit_code |-> 0, workspace_id |-> Nil,
     chain_ok |-> FALSE, total |-> 0, verified |-> 0,
     attested |-> 0, unattested |-> 0, failed |-> 0, keys_resolved |-> 0]

PackInit ==
    /\ pack \in Packs
    /\ kek \in Keks \union {Nil}
    /\ strict \in BOOLEAN
    /\ records = <<>> /\ bundle = Nil
    /\ StartOfWalk /\ ReaderInit
    /\ stage = "open" /\ refused = FALSE
    /\ report = EmptyReport

-----------------------------------------------------------------------------
\* The early return of a stage before the walk: the file is bad, or the
\* operating system refused it.
Malformed(bad) ==
    /\ report' = [report EXCEPT !.verdict = "malformed", !.exit_code = 2]
    /\ stage' = "done"
    /\ refused' \in IF bad THEN BOOLEAN ELSE {TRUE}
    /\ UNCHANGED <<records, bundle, readerVars>>

BeforeWalk ==
    UNCHANGED <<pack, kek, strict, cache, walked, carried, errors, statuses, result>>

OpenPack ==
    /\ stage = "open"
    /\ \/ /\ Openable(pack)
          /\ report' = [report EXCEPT !.workspace_id = pack.tenant]
          /\ stage' = "chain"
          /\ UNCHANGED <<records, bundle, readerVars, refused>>
       \/ Malformed(~Openable(pack))
    /\ BeforeWalk

\* ChainJSONL.
OpenChain ==
    /\ stage = "chain"
    /\ \/ /\ StartReading(pack.chain)
          /\ stage' = "read"
          /\ UNCHANGED <<records, bundle, report, refused>>
       \/ Malformed(FALSE)
    /\ BeforeWalk

\* ReadChainJSONL scans, and one error of any kind is enough to stop.
ScanChain ==
    /\ stage = "read" /\ ScanStep
    /\ UNCHANGED <<vars, packVars>>

ReadChain ==
    /\ stage = "read" /\ Stopped
    /\ \/ /\ readErrs = <<>>
          /\ records' = read
          /\ stage' = "keys"
          /\ UNCHANGED <<bundle, readerVars, report, refused>>
       \/ /\ readErrs # <<>>
          /\ Malformed(readErrs[Len(readErrs)].why # "refused")
    /\ BeforeWalk

\* buildResolver.  Without keys.json nothing is opened and nothing can fail.
BuildResolver ==
    /\ stage = "keys"
    /\ \/ /\ pack.keys # BadKeys
          /\ bundle' = BundleOf(pack)
          /\ report' = [report EXCEPT !.keys_resolved =
                           IF pack.keys = Absent THEN 0 ELSE Len(pack.keys)]
          /\ stage' = "walk"
          /\ UNCHANGED <<records, readerVars, refused>>
       \/ pack.keys # Absent /\ Malformed(pack.keys = BadKeys)
    /\ BeforeWalk

\* provenance.Verify.
Walk ==
    /\ stage = "walk"
    /\ VerifyRecord \/ Return
    /\ UNCHANGED <<readerVars, packVars>>

Tally(attestation) ==
    Cardinality({i \in DOMAIN statuses : statuses[i].attestation = attestation})

UnattestedExcuses(ok, attested, unattested, total) ==   \* mutant: ok not asked for
    CASE ok /\ attested = total -> "verified"
      [] ~(ok /\ attested = total) /\ unattested > 0 /\ ~strict ->
            "verified_with_unattested_records"
      [] OTHER -> "failed"

OneAttestedIsEnough(ok, attested, unattested, total) == \* mutant: > 0 for = total
    CASE ok /\ attested > 0 -> "verified"
      [] ok /\ ~(attested > 0) /\ unattested > 0 /\ ~strict ->
            "verified_with_unattested_records"
      [] OTHER -> "failed"

\* The verdict switch.
VerdictOf(ok, attested, unattested, total) ==
    CASE ok /\ attested = total -> "verified"
      [] ok /\ attested # total /\ unattested > 0 /\ ~strict ->
            "verified_with_unattested_records"
      [] OTHER -> "failed"

Conclude ==
    /\ stage = "walk" /\ result # Nil
    /\ LET total == Len(records)
           verdict == VerdictOf(result.ok, Tally("attested"), Tally("unattested"), total)
       IN  report' = [report EXCEPT !.verdict    = verdict,
                                    !.exit_code  = ExitCodeOf(verdict),
                                    !.chain_ok   = result.ok,
                                    !.total      = total,
                                    !.verified   = result.verified,
                                    !.attested   = Tally("attested"),
                                    !.unattested = Tally("unattested"),
                                    !.failed     = Tally("failed")]
    /\ stage' = "done"
    /\ UNCHANGED <<vars, readerVars, pack, refused>>

PackNext ==
    \/ OpenPack \/ OpenChain \/ ScanChain \/ ReadChain \/ BuildResolver \/ Walk \/ Conclude

\* Pack runs to its end: no stage waits for anything.
PackSpec == PackInit /\ [][PackNext]_allVars /\ WF_allVars(PackNext)

-----------------------------------------------------------------------------
Stages == {"open", "chain", "read", "keys", "walk", "done"}

\* The variables of Pack and of the walk under it have their types.
PackTypeOK ==
    /\ TypeOK /\ ReaderTypeOK
    /\ stage \in Stages /\ refused \in BOOLEAN
    /\ report.verdict \in Verdicts \union {"none"}
    /\ report.exit_code \in 0 .. 2
    /\ report.workspace_id \in Tenants \union {Nil}
    /\ report.chain_ok \in BOOLEAN
    /\ \A f \in {"total", "attested", "unattested", "failed", "keys_resolved"} :
          report[f] \in Nat
    /\ report.verified \in Int

(***************************************************************************)
(* verify.Pack keeps the promise of PackJudgement: its stages, its walk    *)
(* and its counting lead to the verdict the pack deserves, and to one.     *)
(***************************************************************************)
Promise == INSTANCE PackJudgement
               WITH verdict <- report.verdict, exitCode <- report.exit_code
JudgesThePack == Promise!Spec

(***************************************************************************)
(* The counters of a report agree with its verdict.  The three tallies     *)
(* cover the records; an accepted pack has no failed record and counts     *)
(* every record as verified; a failed one names the reason, a failed       *)
(* record or, in strict mode, an unattested one.                           *)
(***************************************************************************)
ReportAddsUp ==
    report.verdict \in Verdicts \ {"malformed"} =>
        /\ report.attested + report.unattested + report.failed = report.total
        /\ report.exit_code = 0 =>
              report.failed = 0 /\ report.verified = report.total /\ report.chain_ok
        /\ report.verdict = "verified_with_unattested_records" =>
              report.unattested > 0 /\ ~strict
        /\ report.verdict = "failed" =>
              /\ errors # <<>>
              /\ report.failed > 0 \/ (strict /\ report.unattested > 0)

(***************************************************************************)
(* docs/verification-protocol.md 7: with a KEK but without keys.json the   *)
(* KEK is ignored and linkage alone decides.  Every hmac here has a key_id *)
(* to look up: what becomes of one without is another question.            *)
(***************************************************************************)
LinkageDecidesWithoutKeys ==
    (/\ report.verdict \in Verdicts \ {"malformed"}
     /\ pack.keys = Absent /\ kek # Nil /\ ~strict
     /\ \A i \in DOMAIN records :
           Sound(records, i) /\ (records[i].hmac # Nil => records[i].key_id # Nil))
        => report.exit_code = 0
===============================================================================
