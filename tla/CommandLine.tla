------------------------------ MODULE CommandLine ------------------------------
(***************************************************************************)
(* main of cmd/wotw-verify/main.go: the flags, the early exits in their    *)
(* order, the KEK that keys.LoadKEKFromFile reads, and the exit code.      *)
(*                                                                         *)
(* Go's flag package, which main uses as it is, takes arguments as flags   *)
(* up to the first that is none, and never looks behind it.                *)
(***************************************************************************)
EXTENDS Integers, Sequences

CONSTANTS
    Arguments,      \* the argument lists considered
    Packs,          \* the words that are the path of a pack
    KekFiles,       \* for each word that is the path of a file, what is in it
    NoWord,         \* the empty word
    DashWord        \* any word that is spelled like a flag

(***************************************************************************)
(* An argument is a word; a Boolean flag with its value; --workspace-key=  *)
(* with a word, or without one, which makes the next argument its value;   *)
(* the terminator --; or one that makes Parse fail: an unknown flag, a     *)
(* value that does not parse, --help.                                      *)
(***************************************************************************)
Switches == {"strict", "version", "self-test"}
Kinds == {"word", "switch", "key", "bare key", "terminator", "refused"}

(***************************************************************************)
(* What is in a file, less the space around it, is what each decoder makes *)
(* of it -- 64 hex digits are base64 too, of 48 bytes -- and the KEK that  *)
(* it was written to hold.  No bytes stand for a decoder that fails, for a *)
(* file that holds no KEK, and for a nil KEK.                              *)
(***************************************************************************)
NoBytes == [length |-> 0, of |-> NoWord]
Decoders == {"base64", "base64url", "hex"}

ASSUME CommandLineAssumption ==
    /\ {NoWord, DashWord} \cap (Packs \union DOMAIN KekFiles) = {}
    /\ Packs \cap DOMAIN KekFiles = {}
    /\ \A w \in DOMAIN KekFiles :
          /\ DOMAIN KekFiles[w].read = Decoders
          /\ \A d \in Decoders : KekFiles[w].read[d].length = 32 =>
                KekFiles[w].meant = KekFiles[w].read[d]
    /\ \A a \in Arguments :
          /\ a \in Seq({a[n] : n \in DOMAIN a})
          /\ \A n \in DOMAIN a :
                /\ a[n].kind \in Kinds
                /\ a[n].kind = "switch" => a[n].flag \in Switches /\ a[n].on \in BOOLEAN

VARIABLES
    args,       \* os.Args[1:]
    rest,       \* what Parse has left, at the end the positional arguments
    switches,   \* the Boolean flags that are on
    key,        \* workspaceKeyPath
    kek,        \* the bytes of the KEK
    at,         \* the next step of main
    exit        \* how main ended: the exit code and what decided it

vars == <<args, rest, switches, key, kek, at, exit>>

Running == [code |-> -1, by |-> "nobody"]

Init ==
    /\ args \in Arguments /\ rest = args
    /\ switches = {} /\ key = NoWord /\ kek = NoBytes
    /\ at = "parse" /\ exit = Running

Exit(codes, by) ==
    /\ at' = "exited"
    /\ exit' \in {[code |-> c, by |-> by] : c \in codes}

-----------------------------------------------------------------------------
\* An argument where a word is wanted.
WordOf(a) == IF a.kind = "word" THEN a.word ELSE DashWord

TakeFlag ==
    /\ at = "parse" /\ rest # <<>>
    /\ \/ /\ Head(rest).kind = "switch"
          /\ switches' = IF Head(rest).on THEN switches \union {Head(rest).flag}
                                          ELSE switches \ {Head(rest).flag}
          /\ rest' = Tail(rest) /\ UNCHANGED key
       \/ /\ Head(rest).kind = "key"
          /\ key' = Head(rest).word
          /\ rest' = Tail(rest) /\ UNCHANGED switches
       \/ /\ Head(rest).kind = "bare key" /\ Tail(rest) # <<>>
          /\ key' = WordOf(rest[2])
          /\ rest' = Tail(Tail(rest)) /\ UNCHANGED switches
    /\ UNCHANGED <<args, kek, at, exit>>

Refuse ==
    /\ at = "parse" /\ rest # <<>>
    /\ \/ Head(rest).kind = "refused"
       \/ Head(rest).kind = "bare key" /\ Tail(rest) = <<>>
    /\ Exit({2}, "flags")
    /\ UNCHANGED <<args, rest, switches, key, kek>>

EndOfFlags ==
    /\ at = "parse"
    /\ \/ rest = <<>> /\ UNCHANGED rest
       \/ rest # <<>> /\ Head(rest).kind = "word" /\ UNCHANGED rest
       \/ rest # <<>> /\ Head(rest).kind = "terminator" /\ rest' = Tail(rest)
    /\ at' = "dispatch"
    /\ UNCHANGED <<args, switches, key, kek, exit>>

-----------------------------------------------------------------------------
ShowVersion ==
    /\ at = "dispatch" /\ "version" \in switches
    /\ Exit({0}, "version")
    /\ UNCHANGED <<args, rest, switches, key, kek>>

\* runSelfTest: all scenarios as expected, one not, or the harness failed.
SelfTest ==
    /\ at = "dispatch" /\ "version" \notin switches /\ "self-test" \in switches
    /\ Exit({0, 1, 2}, "self-test")
    /\ UNCHANGED <<args, rest, switches, key, kek>>

AtLeastOne(n) == n >= 1         \* mutant: further arguments let through
OnePath(n) == n = 1

WrongUsage ==
    /\ at = "dispatch" /\ switches \cap {"version", "self-test"} = {}
    /\ ~OnePath(Len(rest))
    /\ Exit({2}, "usage")
    /\ UNCHANGED <<args, rest, switches, key, kek>>

AnyLength(bytes) == bytes # NoBytes     \* mutant: the length not looked at
IsKek(bytes) == bytes.length = 32

\* The first decoder wins whose bytes are as many as a KEK has.
ParseKEK(read) ==
    CASE IsKek(read["base64"]) -> read["base64"]
      [] ~IsKek(read["base64"]) /\ IsKek(read["base64url"]) -> read["base64url"]
      [] ~IsKek(read["base64"]) /\ ~IsKek(read["base64url"]) /\ IsKek(read["hex"]) -> read["hex"]
      [] OTHER -> NoBytes

LoadKEKFromFile(word) ==
    IF word \in DOMAIN KekFiles THEN ParseKEK(KekFiles[word].read) ELSE NoBytes

LoadKek ==
    /\ at = "dispatch" /\ switches \cap {"version", "self-test"} = {}
    /\ OnePath(Len(rest))
    /\ \/ key = NoWord /\ at' = "verify" /\ UNCHANGED <<kek, exit>>
       \/ /\ key # NoWord /\ LoadKEKFromFile(key) # NoBytes
          /\ kek' = LoadKEKFromFile(key)
          /\ at' = "verify" /\ UNCHANGED exit
       \/ /\ key # NoWord /\ LoadKEKFromFile(key) = NoBytes
          /\ Exit({2}, "kek") /\ UNCHANGED kek
    /\ UNCHANGED <<args, rest, switches, key>>

\* verify.Pack: any verdict for a pack, malformed for anything else.
Verify ==
    /\ at = "verify"
    /\ Exit(IF WordOf(rest[1]) \in Packs THEN {0, 1, 2} ELSE {2}, "verify")
    /\ UNCHANGED <<args, rest, switches, key, kek>>

Next ==
    \/ TakeFlag \/ Refuse \/ EndOfFlags
    \/ ShowVersion \/ SelfTest \/ WrongUsage \/ LoadKek \/ Verify

Spec == Init /\ [][Next]_vars

-----------------------------------------------------------------------------
\* The variables of main have their types.
CliTypeOK ==
    /\ switches \subseteq Switches
    /\ kek.length \in {0, 32}
    /\ at \in {"parse", "dispatch", "verify", "exited"}
    /\ exit.code \in -1 .. 2 /\ (at = "exited" <=> exit.code # -1)

\* Is argument n the value of a --workspace-key before it, rather than a flag?
IsValue[n \in 1 .. Len(args) + 1] ==
    n > 1 /\ args[n - 1].kind = "bare key" /\ ~IsValue[n - 1]

StrictWasAsked ==
    LET said == {n \in DOMAIN args :
                    /\ ~IsValue[n]
                    /\ args[n].kind = "switch" /\ args[n].flag = "strict"}
    IN  \E n \in said : args[n].on /\ \A m \in said : m <= n

KeyFileNamed(word) ==
    LET said == {n \in DOMAIN args :
                    ~IsValue[n] /\ args[n].kind \in {"key", "bare key"}}
    IN  \/ said = {} /\ word = NoWord
        \/ \E n \in {m \in said : \A k \in said : k <= m} :
              \/ args[n].kind = "key" /\ word = args[n].word
              \/ args[n].kind = "bare key" /\ n < Len(args) /\ word = WordOf(args[n + 1])

(***************************************************************************)
(* No flag is passed over: if main reports on a pack at all, then in the   *)
(* mode and with the KEK that the command line asks for, wherever in it    *)
(* the flags stand and however often, and the KEK is the one its file was  *)
(* written to hold, in whichever of the formats.                           *)
(***************************************************************************)
FlagsAreHonoured ==
    (exit.by = "verify" /\ exit.code # 2) =>
        /\ "strict" \in switches <=> StrictWasAsked
        /\ \/ KeyFileNamed(NoWord) /\ kek = NoBytes
           \/ \E w \in DOMAIN KekFiles :
                 KeyFileNamed(w) /\ kek = KekFiles[w].meant /\ kek # NoBytes

(***************************************************************************)
(* main.go:30, README.md:85: the flags follow the path of the pack.        *)
(***************************************************************************)
FlagsMayFollowThePath ==
    (/\ Len(args) > 1 /\ args[1].kind = "word"
     /\ \A n \in 2 .. Len(args) : args[n].kind \in {"switch", "key"})
        => exit.by # "usage"
===============================================================================
