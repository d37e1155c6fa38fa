------------------------------- MODULE SelfTest -------------------------------
(***************************************************************************)
(* wotw-verify --self-test: Run and its five scenarios of                  *)
(* internal/selftest/selftest.go, and runSelfTest of main.go.  A scenario  *)
(* builds a chain, may damage it, writes it as a pack and compares what    *)
(* verify.Pack says of it with what it ought to say.  verify.Pack is       *)
(* taken at its word here: the verdict is the one PackJudgement promises.  *)
(***************************************************************************)
EXTENDS PackWriter

CONSTANTS
    Content, Tampered,          \* a record's content, before and after
    TamperedText,               \* an hmac with its first digit flipped
    OldKey, NewKey,             \* key_ids
    OldDek, NewDek, Kek         \* keys, drawn anew by each scenario

ASSUME SelfTestAssumption ==
    /\ {Content, Tampered} \subseteq Bodies /\ Content # Tampered
    /\ {OldKey, NewKey} \subseteq KeyIds /\ OldKey # NewKey
    /\ {OldDek, NewDek} \subseteq Deks /\ OldDek # NewDek
    /\ Kek \in Keks
    /\ {"active", "rotating"} \subseteq KeyStates

-----------------------------------------------------------------------------
\* BuildChain over specs, each with the key to sign with, or Nil for none.
Pair(keyId) == IF keyId = OldKey THEN OldDek ELSE NewDek

Signing(r, keyId) == IF keyId = Nil THEN r ELSE Sign(r, Pair(keyId), keyId)

BuildChain(specs) ==
    LET record[n \in DOMAIN specs] ==
            Signing(IF n = 1 THEN SealFirst(Content)
                             ELSE SealAfter(record[n - 1], Content), specs[n])
    IN  record

OneKey == <<OldKey, OldKey, OldKey>>
Bundle1 == <<Wrapped(OldKey, "active", Kek, OldDek)>>
Bundle2 == <<Wrapped(NewKey, "active", Kek, NewDek), Wrapped(OldKey, "rotating", Kek, OldDek)>>

Scenario(name, records, bundle0, kek, verdict) ==
    [name |-> name, chain |-> [records |-> records, bundle |-> bundle0],
     kek |-> kek, verdict |-> verdict]

FlipNothing(records) == records     \* mutant: the flip writes the digit back
TamperHmac(records) == [records EXCEPT ![2].hmac = TamperedText]
TamperContent(records) == [records EXCEPT ![2].body = Tampered]

Scenarios ==
    <<Scenario("valid_g5", BuildChain(OneKey), Bundle1, Kek, "verified"),
      Scenario("tampered_content", TamperContent(BuildChain(OneKey)), Bundle1, Kek, "failed"),
      Scenario("tampered_hmac", TamperHmac(BuildChain(OneKey)), Bundle1, Kek, "failed"),
      Scenario("mid_chain_rotation", BuildChain(<<OldKey, OldKey, NewKey, NewKey>>),
               Bundle2, Kek, "verified"),
      Scenario("pre_g5_backward_compat", BuildChain(<<Nil, Nil, Nil>>), Nil, Nil,
               "verified_with_unattested_records")>>

\* Every text that a scenario computes is one of Texts, an HMAC too.
ASSUME ScenariosAreOfRecords ==
    \A n \in DOMAIN Scenarios :
        LET c == Scenarios[n].chain
        IN  /\ c.records \in Seq(Record)
            /\ c.bundle # Nil => \A k \in DOMAIN c.records : c.records[k].hmac \in Texts

\* A flipped digit is another one: selftest.go:123-128 write a, or b over an a.
ASSUME FlipChanges == BuildChain(OneKey)[2].hmac # TamperedText

-----------------------------------------------------------------------------
VARIABLES
    results,    \* what the scenarios so far came to
    phase,      \* "start", "testing", "returned" from Run, "exited"
    harness,    \* Run's error
    exit        \* the exit code, -1 before

testVars == <<results, phase, harness, exit>>
vars == <<writerVars, testVars>>

Init ==
    /\ WriterInit(Scenarios[1].chain)
    /\ results = <<>> /\ phase = "start"
    /\ harness = FALSE /\ exit = -1

MakeTempDir ==
    /\ phase = "start"
    /\ \/ phase' = "testing" /\ UNCHANGED harness
       \/ phase' = "returned" /\ harness' = TRUE
    /\ UNCHANGED <<writerVars, results, exit>>

Write ==
    /\ phase = "testing" /\ WriteStep
    /\ UNCHANGED testVars

Current == Scenarios[Len(results) + 1]

Collect(verdict, refused) ==
    [name |-> Current.name, wantVerdict |-> Current.verdict,
     wantExit |-> ExitCodeOf(Current.verdict),
     gotVerdict |-> verdict, gotExit |-> ExitCodeOf(verdict), refused |-> refused]

\* The pack is written: judge it, and go on to the next scenario.
JudgePack ==
    /\ phase = "testing" /\ step = "written"
    /\ \E refused \in BOOLEAN :
          LET verdict == IF refused THEN "malformed"
                         ELSE Judgement(PackOnDisk, Current.kek, FALSE)
          IN  results' = Append(results, Collect(verdict, refused))
    /\ IF Len(results') < Len(Scenarios)
         THEN WriteNext(Scenarios[Len(results') + 1].chain) /\ UNCHANGED phase
         ELSE phase' = "returned" /\ UNCHANGED writerVars
    /\ UNCHANGED <<harness, exit>>

HarnessErrorLost ==         \* mutant: the results so far, without the error
    /\ phase = "testing" /\ step = "failed"
    /\ phase' = "returned"
    /\ UNCHANGED <<writerVars, results, harness, exit>>

TryAgain ==                 \* mutant: a pack that was not written is written again
    /\ phase = "testing" /\ step = "failed"
    /\ WriteNext(chain)
    /\ UNCHANGED testVars

\* WritePack failed: Run returns the results so far and the error.
GiveUp ==
    /\ phase = "testing" /\ step = "failed"
    /\ phase' = "returned" /\ harness' = TRUE
    /\ UNCHANGED <<writerVars, results, exit>>

Pass(r) == r.gotVerdict = r.wantVerdict /\ r.gotExit = r.wantExit
AllPassed(rs) == \A n \in DOMAIN rs : Pass(rs[n])

RunSelfTest ==
    /\ phase = "returned" /\ phase' = "exited"
    /\ exit' = CASE harness -> 2
                 [] ~harness /\ ~AllPassed(results) -> 1
                 [] OTHER -> 0
    /\ UNCHANGED <<writerVars, results, harness>>

Next == MakeTempDir \/ Write \/ JudgePack \/ GiveUp \/ RunSelfTest

Spec == Init /\ [][Next]_vars /\ WF_vars(Next)

-----------------------------------------------------------------------------
\* The pack being written, the results and the exit code have their types.
SelfTestTypeOK ==
    /\ WriterTypeOK
    /\ Len(results) <= Len(Scenarios)
    /\ \A n \in DOMAIN results :
          results[n].gotVerdict \in Verdicts /\ results[n].gotExit \in 0 .. 2
    /\ phase \in {"start", "testing", "returned", "exited"}
    /\ harness \in BOOLEAN
    /\ exit \in -1 .. 2

(***************************************************************************)
(* README.md:151, threat-model.md:110: a self-test that exits with 0 has   *)
(* seen all five scenarios, and each came out as it should.                *)
(***************************************************************************)
ZeroMeansAllPassed ==
    exit = 0 => /\ Len(results) = Len(Scenarios)
                /\ \A n \in DOMAIN results :
                      results[n].name = Scenarios[n].name /\ Pass(results[n])

(***************************************************************************)
(* With a verifier that keeps its promise the scenarios do come out as     *)
(* they should, damage included: nothing but a refusal of the operating    *)
(* system makes the self-test exit with anything but 0.                    *)
(***************************************************************************)
HealthyVerifierPasses ==
    phase = "exited" =>
        CASE exit = 0 -> TRUE
          [] exit = 1 -> \E n \in DOMAIN results : results[n].refused
          [] exit = 2 -> step = "failed" \/ results = <<>>

\* The self-test ends, whichever call fails.
Ends == <>(phase = "exited")
===============================================================================
