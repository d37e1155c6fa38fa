----------------------------- MODULE MCCommandLine -----------------------------
(***************************************************************************)
(* Every command line of at most four arguments out of fifteen.            *)
(***************************************************************************)
EXTENDS CommandLine, SequencesExt

Word(w) == [kind |-> "word", word |-> w]
Switch(f, v) == [kind |-> "switch", flag |-> f, on |-> v]
Key(w) == [kind |-> "key", word |-> w]

Pool ==
    {Word("pack"), Word("hex kek"), Word("no file"),
     Switch("strict", TRUE), Switch("strict", FALSE),
     Switch("version", TRUE), Switch("self-test", TRUE),
     Key("hex kek"), Key("base64 kek"), Key("url kek"), Key("short kek"), Key(NoWord),
     [kind |-> "bare key"], [kind |-> "terminator"], [kind |-> "refused"]}

\* KEKs in each format, and 48 hex digits: 24 bytes, or 36 in base64.
Bytes(length, of) == [length |-> length, of |-> of]
File(base64, base64url, hex, meant) ==
    [read |-> ("base64" :> base64 @@ "base64url" :> base64url @@ "hex" :> hex),
     meant |-> meant]
Files ==
    "hex kek" :> File(Bytes(48, "h"), Bytes(48, "h"), Bytes(32, "H"), Bytes(32, "H"))
    @@ "base64 kek" :> File(Bytes(32, "B"), NoBytes, NoBytes, Bytes(32, "B"))
    @@ "url kek" :> File(NoBytes, Bytes(32, "U"), NoBytes, Bytes(32, "U"))
    @@ "short kek" :> File(Bytes(36, "s"), Bytes(36, "s"), Bytes(24, "S"), NoBytes)

AllArguments == BoundedSeq(Pool, 4)
================================================================================
