---------------------------- MODULE CompliancePack ----------------------------
(***************************************************************************)
(* A Compliance Pack as verify.Pack sees it: what became of each of its    *)
(* files, whether it is a directory or a zip archive.                      *)
(***************************************************************************)
EXTENDS ValidChain, FiniteSets

CONSTANTS
    Tenants,    \* manifest tenant_id values
    Absent,     \* the file is not in the pack
    BadLine,    \* a line of chain.jsonl that is no JSON object
    Blank,      \* a line of nothing but blanks
    TooLong,    \* a line that the scanner's buffer cannot hold
    EmptyText,  \* the text ""
    EmptyBody,  \* the body of a record whose payload fields are null
    BadKeys,    \* a keys.json that ParseBundle refuses
    Packs       \* the packs considered

Verdicts == {"verified", "verified_with_unattested_records", "failed", "malformed"}

\* manifest.json missing, not JSON, of another version, or usable.
ManifestConditions == {"absent", "unparsable", "unsupported", "ok"}

-----------------------------------------------------------------------------
(***************************************************************************)
(* ParseRecord.  An object is a function on the fields it spells out; a    *)
(* JSON null is Nil.  A required field has to be there, but null will do:  *)
(* decoding leaves a field that is null, or not there, at its zero value.  *)
(***************************************************************************)
Required == {"id", "seq", "body", "previous_id", "previous_chain_hash", "chain_hash"}
Fields == Required \union {"hmac", "key_id"}

ZeroOf(f) ==
    CASE f = "seq" -> 0
      [] f \in {"id", "previous_chain_hash", "chain_hash"} -> EmptyText
      [] f = "body" -> EmptyBody
      [] OTHER -> Nil

RecordOf(line) ==
    [f \in Fields |-> IF f \in DOMAIN line /\ line[f] # Nil THEN line[f] ELSE ZeroOf(f)]

AnyObjectParses(line) == line # BadLine     \* mutant: no field required

\* A number with a fraction or beyond int, a text that is none: no Record.
Parses(line) ==
    /\ line # BadLine
    /\ Required \subseteq DOMAIN line
    /\ RecordOf(line) \in Record

\* The records in the first n lines, if those in `chosen' have one each.
RecordsFrom(lines, chosen) ==
    LET upTo[n \in 0 .. Len(lines)] ==
            IF n = 0 THEN <<>>
            ELSE IF n \in chosen THEN Append(upTo[n - 1], RecordOf(lines[n]))
            ELSE upTo[n - 1]
    IN  upTo

\* What ReadChainJSONL makes of lines that are all in order.
RecordsOf(lines) ==
    RecordsFrom(lines, {n \in DOMAIN lines : lines[n] # Blank})[Len(lines)]

-----------------------------------------------------------------------------
ASSUME PackAssumption ==
    /\ Cardinality({BadLine, Blank, TooLong}) = 3
    /\ {BadLine, Blank, TooLong} \cap Record = {}
    /\ EmptyText \in Texts /\ EmptyBody \in Bodies /\ Nil \notin Bodies
    /\ Absent # BadKeys /\ Absent # Nil /\ BadKeys # Nil
    /\ {Absent, BadKeys} \cap Seq(KeyRecord) = {}
    /\ \A p \in Packs :
          /\ p.manifest \in ManifestConditions /\ p.tenant \in Tenants
          /\ p.chain # Absent =>
                /\ Len(p.chain) \in 0 .. MaxInt
                /\ DOMAIN p.chain = 1 .. Len(p.chain)
                /\ \A n \in DOMAIN p.chain :
                      \/ p.chain[n] \in {BadLine, Blank, TooLong}
                      \/ DOMAIN p.chain[n] \subseteq Fields
          /\ p.keys \in {Absent, BadKeys} \/ p.keys \in Seq(KeyRecord)

-----------------------------------------------------------------------------
\* pack.Open wants a usable manifest and a chain.jsonl.
Openable(p) == p.manifest = "ok" /\ p.chain # Absent

\* ReadChainJSONL has no error for any line.
Readable(p) ==
    \A n \in DOMAIN p.chain :
        p.chain[n] = Blank \/ (p.chain[n] # TooLong /\ Parses(p.chain[n]))

WellFormed(p) == Openable(p) /\ Readable(p) /\ p.keys # BadKeys

BundleUnchecked(p) == p.keys        \* mutant: the branch for no keys.json lost

\* buildResolver: without keys.json there is no bundle.
BundleOf(p) == IF p.keys = Absent THEN Nil ELSE p.keys

ExitCodeOf(verdict) ==
    CASE verdict \in {"verified", "verified_with_unattested_records"} -> 0
      [] verdict = "failed"    -> 1
      [] verdict = "malformed" -> 2

(***************************************************************************)
(* The verdict a pack deserves.                                            *)
(***************************************************************************)
Judgement(p, kek, strict) ==
    LET rs == RecordsOf(p.chain)
        AllAcceptable == \A i \in DOMAIN rs :
                            Acceptable(rs, i, BundleOf(p), kek, strict)
        AllAttested == \A i \in DOMAIN rs : rs[i].hmac # Nil
    IN  CASE ~WellFormed(p)                     -> "malformed"
          [] WellFormed(p) /\ ~AllAcceptable    -> "failed"
          [] WellFormed(p) /\ AllAcceptable /\ AllAttested -> "verified"
          [] OTHER -> "verified_with_unattested_records"
===============================================================================
