# wotw-verify in TLA+

`wotw-verify` decides whether a *Compliance Pack* -- a manifest, a chain of
provenance records, a bundle of wrapped keys -- is the one a workspace's daemon
wrote.  The program is small and sequential; what makes it hard is that its
verdict is the conclusion of many partial decisions, each taken from values
carried over from earlier ones: the record before, a cache of unwrapped keys,
counters kept by one function and judged by another.  This directory models
those decisions, model-checks them on small instances and proves the central
ones for every chain.

## 1. Inventory

| Component | Source | State | Operations |
|---|---|---|---|
| Provenance record | `internal/provenance/record.go` | one record, raw and typed | `ParseRecord`, `CanonicalPayload`, `HMACInput` |
| Chain reader | `provenance/chain.go:96-129` | records and errors so far | `ReadChainJSONL` |
| Chain walk | `provenance/chain.go:143-341` | previous hash, previous id, expected seq, errors, statuses | `Verify`, `verifyHMAC`, `countSeqsWithErrors` |
| Keys and resolver | `internal/keys/keys.go` | bundle, KEK, cache of DEKs, key states | `ParseBundle`, `ParseKEK`, `NewResolver`, `ResolveByID`, `Fallback` |
| Pack reader | `internal/pack/pack.go` | manifest, presence flags, zip handle | `Open`, `ChainJSONL`, `KeysJSON`, `Close` |
| Pack verification | `internal/verify/verify.go` | the report | `Pack`, `buildResolver` |
| Command line | `cmd/wotw-verify/main.go` | flags | `main`, `runSelfTest`, printing |
| Self-test | `internal/selftest/selftest.go` | a temporary directory, results | `Run` and five scenarios |
| Fixture generator | `internal/fixturegen/fixturegen.go` | a chain, a directory | `BuildChain`, `BundleFromDEKs`, `WritePack` |
| Canonical JSON | `internal/canonical/canonical.go` | none | `Encode`, `SHA256Hex` |
| Contract test | `internal/contract/contract.go` | none | one comparison |
| Installer | `scripts/install.sh` | a temporary directory, the installed file | one script |
| Release pipeline | `.github/workflows`, `.goreleaser.yaml`, `homebrew/` | published artefacts | external tools |
| Daemon | not in the repository | the chain it appends to | append, rotate, export |

How they interact: `main` parses flags, loads the KEK and calls `verify.Pack`;
that opens the pack, reads the whole chain into memory, builds a resolver from
`keys.json` and hands both to `provenance.Verify`, which calls the resolver back
once for every record with `hmac` and `key_id`.  `Pack` then counts the statuses
and turns them into a verdict and an exit code.  Nothing in the verifier runs
concurrently; the outside world does (files, releases, the writer of a pack).

What is hard, and what makes each component correct:

* *Walk.*  Values are carried from what a record says, so that the walk
  resynchronises.  Correct: it accepts exactly the chains in which every record
  follows its predecessor, digests to its own id and chain_hash, and is signed
  or (outside strict mode) unsigned; a bad record is named and its neighbours
  are judged on their own merits; integer wrap-around lets nothing through.
* *Resolver.*  Lazily unwrapped keys are cached and failures are not.  Correct:
  no answer depends on the lookups before it.
* *Pack verification.*  Early returns leave a half-filled report; the verdict
  combines two counters with two flags.  Correct: exactly one verdict, the one
  the pack deserves, with its exit code, and counters that agree with it.
* *Tamper evidence* (records, writer and walk together).  Correct: a pack that
  was edited by somebody without the DEKs is accepted only as far as it still
  says what the daemon wrote.
* *Pack reader.*  Files are found first and opened later; an archive may have a
  prefix.  Correct: all files come from one pack; every path closes the handle.
* *Chain reader.*  A bad line, a line beyond the buffer and a failing read each
  leave a shorter chain that looks in order.  Correct: no line is passed over
  silently.
* *Writer and self-test.*  A pack is written in a dozen calls, nothing marks it
  as finished, and any call may fail.  Correct: half a pack does not pass for a
  whole signed one; a self-test that exits with 0 has seen all of its scenarios.
* *Installer.*  What it fetches changes between two downloads, and any command
  may fail.  Correct: nothing unsigned replaces what was installed.
* *Canonical JSON.*  Digests are equal when bytes are.  Correct: two payloads
  have the same bytes if and only if they say the same, number spelling aside.
* *Command line.*  Correct: every flag is honoured, exit codes mean what the
  usage says.

## 2. Modules

| Module | Models | Builds on |
|---|---|---|
| `ProvenanceRecord` | a record, its payload and its digests (`record.go`, `canonical.SHA256Hex`) | |
| `WorkspaceKeys` | the bundle, and the resolver with its cache (`keys.go`) | `ProvenanceRecord` |
| `ValidChain` | the declarative definition of a valid chain: `Sound`, `Signed`, `Acceptable` | `WorkspaceKeys` |
| `ChainVerify` | `provenance.Verify`: one step per record, one for the return | `ValidChain` |
| `ChainWriter` | `fixturegen.BuildChain`, `encryptDEK`: how records and keys are written | `ValidChain` |
| `CompliancePack` | what became of each file of a pack, a chain as its lines; `Parses` and `RecordOf`, what `ParseRecord` makes of a line; `Judgement`, the verdict a pack deserves | `ValidChain` |
| `PackJudgement` | abstract specification: one verdict, the one deserved, and it comes | `CompliancePack` |
| `ChainReader` | `ReadChainJSONL`: one step per line, and the two ways the scanner fails | `CompliancePack` |
| `VerifyPack` | `verify.Pack`: stages, early returns, tallies, verdict; reader, resolver and walk composed | `ChainVerify`, `ChainReader` |
| `AttestedPack` | daemon, transport and verifier together | `ChainVerify`, `ChainWriter` |
| `PackFiles` | `pack.Open`, `ChainJSONL`, `KeysJSON`, `Close` and the file system under them | `CompliancePack` |
| `CommandLine` | `main`: flags, early exits, the KEK file (`ParseKEK`), exit codes | |
| `PackWriter` | `fixturegen.WritePack`: one step per call, any of which may fail | `ChainWriter`, `CompliancePack` |
| `SelfTest` | `selftest.Run`, its scenarios, `runSelfTest` | `PackWriter` |
| `Install` | `install.sh`, and the releases it downloads from | |
| `CanonicalJSON` | `canonical.Encode` with `write`, `writeObject`, `writeString`, `writeFloat` | |
| `SampleRecords`, `MC*` | instances for TLC | |
| `CompliancePackProofs` | lemmas about what is in a pack: keys and the resolver's cache, sound chains, lines and their records | `CompliancePack` |
| `ChainVerifyProofs` | theorems about the walk | `ChainVerify`, `CompliancePackProofs` |
| `AttestedPackProofs` | theorems about what a verdict promises | `AttestedPack`, `ChainVerifyProofs` |
| `VerifyPackProofs` | theorems about the reader, the report and the verdict | `VerifyPack`, `ChainVerifyProofs` |
| `PackFilesProofs` | theorems about the files | `PackFiles`, `CompliancePackProofs` |
| `SelfTestProofs` | theorems about the writer and the self-test | `SelfTest`, `CompliancePackProofs` |
| `ShellProofs` | theorems about the two programs that a shell runs: the command line and the installer | `CommandLine`, `Install` |
| `CanonicalJSONProofs` | theorems about canonical JSON | `CanonicalJSON` |

How state and actions correspond to the code:

* `ChainVerify`.  `prevChainHash`, `prevID`, `expectedSeq`, `errors` and
  `statuses` are the local variables and result fields of `Verify`;
  `walked` is the loop index; `cache` is the resolver's map of DEKs, its
  `states` map is `LastState`.  `VerifyRecord` is one iteration with all its
  checks and the resolver call, `Return` the end.
* `VerifyPack`.  `report` is the `Report`; `stage` says which call of `Pack`
  comes next.  Each of `OpenPack`, `OpenChain`, `ReadChain`, `BuildResolver` goes
  on or ends the run as malformed; `refused` is set when it was the operating
  system that failed and not the pack.  `ScanChain` is a turn of the reader's loop.  `Conclude` counts the statuses and runs the
  verdict switch.
* `ChainReader`.  `read` and `readErrs` are `records` and `errs`; `scanned` is how
  far `scan` has come.  `ScanLine` is one turn of the loop; `LineTooLong` and
  `ReadFails` make `scan.Err()` not nil, the latter perhaps after it has handed
  over a piece of a line.
* `PackWriter`.  `step` is the next call of `WritePack`, `disk` what is in the
  directory.  `os.WriteFile` is two steps, because it empties the file first; a
  record and its newline are two, as in the code.  `PackOnDisk` is what a reader
  finds at any moment.
* `SelfTest`.  `results` and `harness` are what `Run` returns; a scenario is the
  chain it builds and damages, a sequence of `PackWriter` steps, and `JudgePack`.
* `Install`.  `step` is the next command; `tmp` the temporary directory; `Leave`
  is `set -e` and the script's own exits.  `UploadArchive`, `UploadSignature`,
  `Announce` and `ChangeKey` are the world outside.
* `CanonicalJSON`.  `todo` is the stack of the recursion of `write`, `buf` the
  buffer.  Each action is a case of `write`, or a return of `Encode`.  `Values`
  are the Go values considered, with all that is in them; `Depth` says how deep
  each is nested.
* `AttestedPack`.  `AppendRecord` is a round of `BuildChain`; `Export` is
  `BundleFromDEKs` and `WritePack`; the `Alter`, `Lose` and `Insert` actions are
  what may become of a pack on its way; `Submit` and `Walk` are the verifier.
* `PackFiles`.  One action per call that may fail, in the order of `Open` and
  `Pack`; `found` is the `Pack` value, `archive` the zip handle, `defers` the
  stack of deferred `Close` calls.  Each of the six error returns of `openZip`
  (no manifest, its open, its read, its parse, its version, no chain) is in an
  action of its own, which closes what that return closes; the manifest of an
  archive has a handle of its own, as in the code.  `Replace` is the outside
  world.  A directory that is replaced between two calls is read in part from
  each pack, as by the code, which keeps no handle on it and promises nothing.
* `CommandLine`.  `rest` is what `flag.Parse` has left; `TakeFlag` is one
  flag, the other actions are the branches of `main` in their order.

### Abstractions

* A digest is a term that names its input (`<<"id", payload>>`), so digests are
  injective and no digest equals a text of another kind.  `chain_hash` digests a
  concatenation; the term keeps its two parts apart, as the code's texts do when
  both are 64 characters long.  The case of hex digits is not distinguished.
* `body` stands for the payload fields that no check looks at.  `fact_hashes_*`
  and `merkle_root` are outside every digest and every check, and left out.
* A line of `chain.jsonl` is the fields it spells out with their values, or one of
  `Blank`, `BadLine` (no JSON object), `TooLong`.  A null decodes to the zero
  value of its field, for the payload's other fields `EmptyBody`; its digest is that
  of the zero value, where the code digests the null: no accepted chain has either.  Repeated keys of one object and
  keys in another case, which Go's decoder matches too, are left out.  What
  follows the first JSON value of a line is ignored, as in the code (`LineOf`).
* `SelfTest` takes `verify.Pack` at what `PackJudgement` promises, which
  `verify_pack` checks of it; a refusal of the operating system is `malformed`.
  A key drawn at random differs from every other.
* In `Install` a signature is over one build by one key, and `cosign` accepts it
  for those only.  The temporary directory and its removal are left out, and so
  is the platform, but for its refusal.  Commands may fail at any time; with
  which code other than 0 is not told apart.
* In `CanonicalJSON` a string is a sequence of characters in the order of their
  bytes; a number is its value, with its spellings, its exponent and whether it
  is integral.  All 32 control characters are there, the five with a letter and the
  27 written as `\u00XX`; of the characters above them, those that JSON gives a
  meaning and a few letters and digits.  A value
  contains itself at no depth: `encoding/json` yields none that does.
* `canonical.Encode` cannot fail on a value that `ParseRecord` yields; the
  branch of `Verify` for such a failure is left out.
* A DEK is opened only by the KEK that sealed it; every envelope that never
  opens is `Corrupt`.
* Go's `int` is `MinInt .. MaxInt` and `Successor` wraps around.
* A KEK file is what each decoder of `ParseKEK` makes of its text, and the KEK it
  was written to hold.
* Durations, wording, `--json`, `--verbose` and `IncludeStatuses` only change
  what is printed.
* External code: package `flag` takes flags up to the first argument that is
  none, and an option without `=` takes the argument after it; `zip.Reader`
  opens the first entry of a name; what is opened stays what it was.

## 3. Runs

| Run | Asks | Instance | Why it is enough |
|---|---|---|---|
| `walk` | does `Verify` accept exactly the valid chains, name the others' records, count them? does the caching resolver change any verdict? | every chain of at most 3 of 13 records, each sound or with one structural fault, or of 11 with every HMAC outcome; 8 bundles, two KEKs or none, both modes; `int` is -4..3 | a check relates a record to its predecessor, three records give a bad one a good neighbour on each side; `seq` 3 is the largest `int`, so it wraps around; a third lookup can hit what the first one cached and the second one missed; the bundles hold a repeated key_id in each order of good and bad |
| `verify_pack` | does `verify.Pack` implement `PackJudgement`, does its report add up, is any line lost? | every condition of each file, chains of at most 2 of 8 records, files of up to 3 lines blank, broken, incomplete, null or too long; any call refused; both modes | the tallies and the switch tell none, some and all apart, which two records show; three lines put a bad one between two others |
| `attested_pack` | what does "attested" promise? | 2 records, 2 DEKs and a fallback key, 2 changes out of all kinds, KEK or none | two changes are the fewest that can compensate for one another (a record altered and its hmac replaced); bodies and keys are symmetric, nothing orders them; the theorems cover every number |
| `pack_files` | is one whole pack read, and every handle closed? | every archive of at most 3 of 12 entries in root, `p/` and `p/q/`; every directory; one replacement; any call refused | three entries are a manifest, a chain and one thing too many, in every order; one replacement falls between any two calls |
| `command_line` | is every flag honoured or refused? | every list of at most 4 of 15 arguments; KEK files in hex, both kinds of base64, and one too short | a bare `--workspace-key` with its value, one flag and the path; 64 hex digits are base64 too |
| `self_test` | does exit code 0 mean that every scenario was seen and passed? can a half-written pack be taken for a signed one? | the five scenarios as they are; any call may fail, records in part; every KEK or none, both modes, at every step | the scenarios are fixed, nothing is cut short |
| `install` | is anything unsigned ever installed? | two releases, the second not yet published, two keys, 4 events (uploads, announcements, key changes) between any two commands; every command may fail; four kinds of `/usr/local/bin` | publishing the second release under a new key takes four events: archive, signature, key, announcement |
| `canonical` | do equal bytes mean equal payloads, and the other way round? | every pair of 125 values: texts that look like JSON or have to be escaped, each control character among them, numbers at each edge of each spelling, arrays and objects of at most two of them, nested once more, every order of a map's keys | a text can run into the next one only at a quote, a backslash or a separator, and each is at every place; 1e6, 1e15, 0.5, 1e-5 are on both sides of `writeFloat`'s borders |

`TypeOK`, `PackTypeOK`, `AttestedTypeOK`, `FilesTypeOK`, `CliTypeOK`,
`SelfTestTypeOK`, `InstallTypeOK` and `EncoderTypeOK` are the type invariants.  The properties in one line each:

* `OkIffValid` -- accepted exactly if every record is `Acceptable`.
* `OkIsNumbered` -- an accepted chain counts 1, 2, ... and repeats no digest.
* `StatusesAreLocal` -- a status depends on the record, its predecessor and the
  bundle; not on failures or lookups before.
* `ErrorsNameTheUnacceptable` -- no record passed over, none blamed wrongly.
* `VerifiedCount` -- exact when no two records claim one `seq`, never too low.
* `KeyStateFollowsLookups` -- the key_state reported is the bundle's last for that
  key_id once a lookup of it has succeeded, and the first before and on failure.
* `EveryLineIsAccountedFor` -- each line is blank, a record or an error.
* `JudgesThePack` -- refinement of `PackJudgement`, with its liveness.
* `ReportAddsUp` -- the counters and the verdict tell one story.
* `AttestedIsWritten`, `AttestedPrefixIsWritten` -- an attested record says what
  the daemon wrote under its number, and vouches for all before it.
* `UnchangedIsAccepted` -- a pack that was left alone is not refused.
* `EveryHandleIsClosed`, `ArchiveIsOnePack`, `JudgedIfWellFormed` -- the files.
  A refusal of the operating system never makes a pack of several out of one, and
  leaves a keys.json unread only where `fileExists` takes it for absent.
* `FlagsAreHonoured` -- the command line.
* `AttestedOnlyWhole` -- at no moment while a pack is written, or after a failure,
  does a reader accept a signed record of it without all the others.
* `ZeroMeansAllPassed`, `HealthyVerifierPasses`, `Ends` -- the self-test.
* `OnlySignedIsInstalled`, `ExitTells` -- the installer.
* `EqualBytesSayTheSame`, `TheSameHasEqualBytes` -- canonical JSON, both ways.

`CHECK_DEADLOCK FALSE` everywhere: each of these programs ends.

**Fairness.**  `ChainVerify`, `VerifyPack` and `SelfTest` have weak
fairness of their next-state relation: straight-line code that waits for nothing
takes its next step.  Liveness is claimed of `JudgesThePack` (a verdict comes) and
`Ends`.  The other modules claim safety only: `AttestedPack` waits
for whoever passes the pack on, and `install.sh` calls `curl` without a timeout,
so that nothing in the code makes it end.

### Where documents and code differ

Each is a run that TLC ends with a counterexample, but for the last, which the
code's own property states; PROJECT.json quotes the lines.

| Run | The document | The code |
|---|---|---|
| `hmac_without_key_id` | reported as unattested outside strict mode | fails |
| `linkage_only` | KEK without `keys.json`: linkage alone decides | signed records fail, those with a key_id too |
| `unchanged` | any change later on fails verification | a chain that lost its last records is verified |
| `flags_last` | flags follow the path | flags after the path are wrong usage |
| `walk` | a failed unwrap gives an empty state (keys.go:189-190) | it gives the state of the record that would not open (keys.go:204), and the status has it; `KeyStateFollowsLookups` is stated so |

Seen on the way, without a run of their own; the modules have what the code does:

* With one key_id on two records of keys.json, which `ParseBundle` does not
  refuse, the first lookup reports the first one's key_state, every later one the
  last one's (keys.go:172, 196, 207); docs/verification-protocol.md:243 has the
  state of the key.  `KeyStateFollowsLookups` states what does hold.
* A first record whose previous_id is the text `null` passes the linkage check
  (chain.go:336); docs/verification-protocol.md:165 asks for a null.
* A required field may be null (record.go:83), and whatever follows the first JSON
  value of a line is ignored (record.go:71).
* A `json.Number` is written as it was spelled (canonical.go:84-88), so `1.0` and
  `1` digest differently; a float from 1e6 on that is not integral, and any from
  1e15 on, is written with an exponent, where JavaScript writes none below 1e21
  (canonical.go:202 has them match "for normal magnitudes").  `Odd` is the set of
  such numbers; `TheSameHasEqualBytes` leaves them out.  The fields the daemon
  writes hold small integers only.
* Where `/usr/local` is writable but has no `bin`, the installer chooses
  `/usr/local/bin` and fails (install.sh:132, 146), although the archive is in
  order.
* An archive's prefix may be any number of directories deep (pack.go:149), not a
  single one (pack.go:142).
* `fileExists` takes every error for absence (pack.go:215): a directory's
  keys.json that could not be examined goes unread.

## 4. Proofs

TLAPS checks, for every value of the constants:

| Theorem | Statement |
|---|---|
| `TypeCorrect` | `Spec => []TypeOK` |
| `VerifySoundAndComplete` | `Spec => []OkIffValid` |
| `StatusesDecidedLocally` | `Spec => []StatusesAreLocal` |
| `AcceptedChainIsNumbered` | `Spec => []OkIsNumbered` |
| `UnacceptableAreNamed` | `Spec => []ErrorsNameTheUnacceptable` |
| `KeyStatesAreDue` | `Spec => []KeyStateFollowsLookups` |
| `VerifiedIsCounted` | `Spec => []VerifiedCount` |
| `ChainHashFixesThePrefix` | two sound chains that share a chain_hash are one chain up to there |
| `AttestedTypeCorrect` | `AttestedSpec => []AttestedTypeOK` |
| `AttestedRecordsAreWritten` | `AttestedSpec => []AttestedIsWritten` |
| `AttestedPrefixesAreWritten` | `AttestedSpec => []AttestedPrefixIsWritten` |
| `UnchangedPacksAreAccepted` | `AttestedSpec => []UnchangedIsAccepted` |
| `PackTypeCorrect` | `PackSpec => []PackTypeOK` |
| `EveryLineAccounted` | `PackSpec => []EveryLineIsAccountedFor` |
| `ReportsAddUp` | `PackSpec => []ReportAddsUp` |
| `PackKeepsItsPromise` | `PackSpec => Promise!Init /\ [][Promise!Judge]_(Promise!vars)`: `VerifyPack` refines `PackJudgement`, but for its liveness |
| `FilesTypeCorrect` | `Spec => []FilesTypeOK` of `PackFiles` |
| `HandlesAreClosed` | `Spec => []EveryHandleIsClosed` |
| `ArchivesAreOnePack` | `Spec => []ArchiveIsOnePack` |
| `WellFormedIsJudged` | `Spec => []JudgedIfWellFormed` |
| `SelfTestTypeCorrect` | `Spec => []SelfTestTypeOK` of `SelfTest` |
| `AttestedIsWhole` | `Spec => []AttestedOnlyWhole` |
| `ZeroIsAllPassed` | `Spec => []ZeroMeansAllPassed` |
| `HealthyVerifiersPass` | `Spec => []HealthyVerifierPasses` |
| `CliTypeCorrect` | `Spec => []CliTypeOK` of `CommandLine` |
| `EveryFlagIsHonoured` | `Spec => []FlagsAreHonoured` |
| `InstallTypeCorrect` | `InstallSpec => []InstallTypeOK` |
| `SignedIsInstalled` | `InstallSpec => []OnlySignedIsInstalled` |
| `ExitIsTrue` | `InstallSpec => []ExitTells` |
| `EncoderTypesOK` | `Spec => []EncoderTypeOK` of `CanonicalJSON` |
| `BytesSayTheSame` | `Spec => []EqualBytesSayTheSame` |
| `SameValuesSameBytes` | `Spec => []TheSameHasEqualBytes` |

*The walk.*  `OkIffValid` speaks of the moment of return and is not inductive.
`Inv` in `ChainVerifyProofs` adds what the loop keeps: the carried values are
those of the last record walked; the cache is `Coherent`, that is, every cached
DEK is what unwrapping again would give; `errors` blames exactly the records
walked that are not acceptable; every status written is local.  Coherence is what
makes a cached answer as good as a scanned one (`ResolveProperties`,
`CacheStaysCoherent`).  `CacheRemembers` is its converse, every key_id looked up
with success is cached, and with it says which key_state a lookup reports
(`KeyStateFollowsLookups`).  That an accepted chain counts from 1 without wrapping is
an induction over positions (`SoundChainIsNumbered`), which uses that a slice is
no longer than the largest `int`.  `VerifiedCount` compares two cardinalities:
the walk subtracts the number of distinct `seq` among the errors, and a `seq`
stands for at most as many records as have it.

*Transport.*  `PackInv` of `AttestedPackProofs` says who can have made what is in
the pack: every hmac is none, one of the daemon's, or made with a foreign key;
every envelope that opens with the workspace KEK holds a daemon's DEK; the
daemon's own chain is sound.  An attested record then has an hmac of the daemon's
over its id and chain_hash, so it shares both with a record written
(`AttestedHasWrittenDigests`), and the id digests what the record says.  For the
prefix, a shared chain_hash fixes everything before it
(`ChainHashFixesThePrefix`).  The other direction, `UnchangedIsAccepted`, needs
to know what a pack that nobody changed has in it (`Unaltered`): the daemon's
chain, and under each key_id in use the DEK that signed with it.

*A pack.*  The reader appends record by record; `RecordsFrom`, a recursive
function over the lines, says what the lines amount to, and `ReaderInv` that the
two agree on the lines scanned and that the errors name the others.  `PackInv` of
`VerifyPackProofs` adds, for each stage of `verify.Pack`, what is known by then: that
the pack can be opened, that its lines are in order and what records they are,
that its keys can be used, and then the walk's own `Inv`, taken over as it is.  At
the end the tallies are cardinalities of a partition of the records
(`ReportAddsUp`), and the switch is compared case by case with `Judgement`: a
step of the detailed specification is a step of `PackJudgement` if it sets the
verdict and changes nothing there if it does not (`PackKeepsItsPromise`).

*Files.*  `FilesInv` says for each call which handles are open and which of them
have a deferred `Close`, and that all that was read has one source.  It is what
`EveryHandleIsClosed` and `ArchiveIsOnePack` need, which hold whatever is replaced
meanwhile.  `JudgedIfWellFormed` speaks of a path that is left alone; `JudgedInv`
says what the calls so far have found out about the pack there.  `OnePlace` and
`FirstIsNamed` are the heart: the prefix that `openZip` takes from the first
manifest is the one place that `AsPack`, which knows of no order, gives the
archive.

*Writer and self-test.*  `WriterInv` says for each step of `WritePack` what is on
the disk: which lines of chain.jsonl are whole, and that keys.json is there only
after all of them.  A record is read back as it was written
(`RecordIsReadBack`), so a reader at any moment has a prefix of the chain, and
has either all of it or no keys (`WholeOrUnattested`).  `SelfTestInv` adds that
the results so far are of the scenarios so far, in their order.  For
`HealthyVerifierPasses` the scenarios themselves have to deserve what they expect:
`BuildChain` is a recursive function over the records, whose equation
(`BuildChainEquation`) gives a sound chain that is signed as it was asked to be
(`ChainsAreBuilt`); its keys are in the bundle (`KeysOfTheBundles`); a changed
content has another id, a flipped digit is no signature; and so each scenario's
chain has the verdict that is expected of it (`ScenarioVerdicts`).  `HealthyInv`
says that the pack which is judged is that chain, whole (`WrittenIsWhole`).

*Command line.*  `FlagsAreHonoured` speaks of all arguments at once, `Parse` takes
them one by one.  `ParseInv` says that it is always between two flags, never at
the value of a bare `--workspace-key` (`IsValue`, a recursive function over the
arguments; `NextFlag`), and that what it has taken so far is what the arguments
before that point ask for.  Where it stops, what is left is one path or main
refuses it (`NothingIsMissed`).

*Installer.*  `InstallInv` says for each command what the temporary directory
holds by then, and that a file once signed stays signed.

*Canonical JSON.*  What a value says (`meaning`), what is in it (`parts`) and what
has to be written for it (`encoding`) are recursive functions; `Depth` makes their
equations have one solution (`Recursion`).  `BytesTell` is the heart of one
direction: if the bytes of two values, each followed by whatever may follow a
value, are the same text, then the two encodings end at the same place and the
values say the same.  It goes by induction over the depth.  An escaped character
is told by its second byte, or, where that is a `u`, by its last two
(`DigitsTell`), and none begins with a quote, so a string ends at its quote
(`QuotedTold`); what may follow a value begins with a comma or a closing
bracket, which no number has in it (`NumberTold`); a list is told item by item
(`Parsed`, `ListTold`), an object member by member.  `MeaningDecides` is the other
direction: sorted keys come in one order only, whatever the map was ranged over in
(`SortedKeysAreUnique`), and a number that is not `Odd` has one spelling.  `IInv` of
`CanonicalJSONProofs` ties the program to this: the buffer, and behind it what the
stack stands for (`Written`), is the encoding of the value at every moment, and
the stack has something to refuse exactly if the value has.

Assumptions, each evaluated by TLC on the runs: `RecordAssumption` (a signed `int`
with room for 0, 1 and 2; nil is no text and no number), `KeysAssumption` and
`ChainsAssumption` (the constants have their types, nil is no key and no bundle),
`AttestedPackAssumption` (the daemon's keys are keys; a chain fits into an `int`),
`PackAssumption` (a file has at most `MaxInt` lines; a blank, a broken and a too
long line are three different things and no record; an empty body is a body, nil is
none; keys that are absent or
unusable are no bundle), `PackFilesAssumption` (what is at a path is a list of
entries, each readable or in one of the two ways not; a handle is not nil),
`SelfTestAssumption` (the keys, contents and KEK of the scenarios are of the
types, and old and new ones differ), `FlipChanges` (an HMAC with a flipped digit is
another text), `WriterAssumption` (a chain.jsonl that is there is not an absent one),
`ValuesAssumption` (the Go values have their types, what is in one of them is
one of them and less deep, a map has finitely many keys), `NumbersAssumption` (only
a whole number is spelled without point and exponent, an `int` has at most 19
digits, a text spells one number), `CommandLineAssumption` (arguments are lists;
bytes as many as a KEK has, from whichever decoder, are the KEK that the file was
written to hold: 64 hex digits are 48 bytes in base64, and a text in both base64
alphabets is the same bytes in both), `InstallAssumption`.
`ScenariosAreOfRecords` says that the constants have the digests which the scenarios
compute: their chains are of records, and what they are signed with is a text.  `PackInvariance` of `AttestedPackProofs` and what follows
from it have one hypothesis of their own, `DigestsAreTexts`: texts are closed under
digesting.  It is satisfied by the infinite set of all terms; TLC's finite `Texts`
holds only the digests that its bounds can reach, which is why it is a hypothesis
and not an ASSUME.

*Only model-checked.*  Liveness (the fairness part of `JudgesThePack`, and `Ends`): out of the provers' reach.
Every invariant of a run is proved.

## 5. Plan

All of it is done, in this order.

1. `ProvenanceRecord`, `WorkspaceKeys`, `ValidChain`, `ChainVerify` and their
   proofs: the verdict on a chain is the core of the program.
2. `CompliancePack`, `PackJudgement`, `VerifyPack`.
3. `ChainWriter`, `AttestedPack` and its proofs: what a verdict promises.
4. `PackFiles`: how the files are reached.
5. `CommandLine`.
6. `ChainReader`, composed into `VerifyPack`.
7. `PackWriter`: which packs left half written verify.
8. `SelfTest`: the scenarios in turn over `PackWriter`.
9. `Install`: `install.sh` while releases and keys change.
10. `CanonicalJSON`: number spelling, escaping and key order.
11. Proofs of the invariants of the runs, component by component, and of the
    safety part of the refinement.

## 6. Not modelled

The release pipeline and the Homebrew formula (configuration of external tools:
goreleaser, cosign and GitHub decide what it does), the contract test (one
equality of a document's digest, no state), printing and JSON output.  The daemon
is not in the repository: `ChainWriter` has it as `fixturegen` imitates it.
