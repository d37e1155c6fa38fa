---------------------------- MODULE CanonicalJSON ----------------------------
(***************************************************************************)
(* Encode of internal/canonical/canonical.go.  The recursion of write is   *)
(* kept on a stack: its head is a value still to be written, or text.  Two *)
(* values are encoded one after the other -- the payload that was sealed   *)
(* and the one that is verified -- because what matters is when their      *)
(* bytes are equal.                                                        *)
(***************************************************************************)
EXTENDS Integers, Sequences, SequencesExt, FiniteSetsExt

CONSTANTS
    Values,     \* the Go values encoded, with those in them
    Bytes,      \* the characters of strings, in the order of their bytes
    Depth       \* how deep a value is nested: no value contains itself

(***************************************************************************)
(* A string is a sequence of characters; punctuation is named: QUOTE,      *)
(* COMMA, ...  A number has a text for each way to spell it; exp is its    *)
(* decimal exponent.  json.Number is a text that was read, a float64 will  *)
(* be spelled by writeFloat, which refuses what is not finite or beyond    *)
(* 1e308: not `finite' here.                                               *)
(***************************************************************************)
\* []any and []string, map[string]any and map[string]string.
Arrays == {"anys", "strings"}
Objects == {"anyMap", "stringMap"}
Numbers == {"jsonNumber", "float64", "int"}
Kinds == {"null", "bool", "string", "foreign"} \union Arrays \union Objects \union Numbers
Styles == {"bare", "point", "exponent"}

\* What is at place n of an array, or under key n.
Item(v, n) ==
    IF v.kind \in {"strings", "stringMap"}
      THEN [kind |-> "string", of |-> v.of[n]] ELSE v.of[n]

Items(v) ==
    IF v.kind \in Arrays \union Objects THEN {Item(v, n) : n \in DOMAIN v.of} ELSE {}

Strings == Seq(Range(Bytes))

ASSUME ValuesAssumption ==
    /\ Bytes \in Seq(Range(Bytes))
    /\ Depth \in [Values -> Nat]
    /\ \A v \in Values :
          /\ v.kind \in Kinds
          /\ v.kind = "bool" => v.of \in BOOLEAN
          /\ v.kind = "string" => v.of \in Strings
          /\ v.kind = "anys" => v.of \in Seq(Values)
          /\ v.kind = "strings" => v.of \in Seq(Strings)
          /\ v.kind \in Objects => /\ IsFiniteSet(DOMAIN v.of)
                                   /\ \A key \in DOMAIN v.of : key \in Strings
          /\ \A u \in Items(v) : u \in Values /\ Depth[u] < Depth[v]

(***************************************************************************)
(* What holds of numbers.  Only a whole number can be spelled bare, only a *)
(* float64 is NaN or infinite, an int has at most 19 digits, and a text    *)
(* spells one number.                                                      *)
(***************************************************************************)
NumberChars == {"0", "1", "2", "3", "4", "5", "6", "7", "8", "9", "DOT", "e", "E", "PLUS", "MINUS"}
NumberTexts == Seq(NumberChars) \ {<<>>}

ASSUME NumbersAssumption ==
    /\ \A v \in Values : v.kind \in Numbers =>
          LET n == v.of
          IN  /\ n.exp \in Int /\ (n.integral => n.exp >= 0)
              /\ (v.kind = "float64" /\ ~n.finite) \/ \A style \in Styles :
                    (style = "bare" => n.integral) => n.text[style] \in NumberTexts
              /\ v.kind = "jsonNumber" =>
                    v.style \in Styles /\ (v.style = "bare" => n.integral)
              /\ v.kind = "int" => n.integral /\ n.exp <= 18
              /\ v.kind # "float64" => n.finite \/ n.exp >= 308
    /\ \A v, w \in {u \in Values : u.kind \in Numbers} : \A s, t \in Styles :
          v.of.text[s] = w.of.text[t] /\ v.of.text[s] # <<>> => v.of = w.of

VARIABLES
    pair,       \* the two values
    todo,       \* what is to be written yet, the next first
    buf,        \* the bytes.Buffer
    outs        \* what Encode returned so far, <<>> for an error

vars == <<pair, todo, buf, outs>>

Text(bytes) == [kind |-> "text", of |-> bytes]

Init ==
    /\ pair \in Values \X Values
    /\ todo = <<pair[1]>> /\ buf = <<>> /\ outs = <<>>

Running == Len(outs) < 2
This == Head(todo)
Pending == Running /\ todo # <<>>

-----------------------------------------------------------------------------
NotEscaped(s) == s          \* mutant: quote and backslash as they are

\* The characters below 0x20, in the order of their bytes.
Controls ==
    <<"NUL", "SOH", "STX", "ETX", "EOT", "ENQ", "ACK", "BEL",
      "BS", "TAB", "LF", "VT", "FF", "CR", "SO", "SI",
      "DLE", "DC1", "DC2", "DC3", "DC4", "NAK", "SYN", "ETB",
      "CAN", "EM", "SUB", "ESC", "FS", "GS", "RS", "US">>

CodeOf(char) == (CHOOSE n \in DOMAIN Controls : Controls[n] = char) - 1

HexDigits ==
    <<"0", "1", "2", "3", "4", "5", "6", "7", "8", "9", "a", "b", "c", "d", "e", "f">>
High(code) == HexDigits[(code \div 16) + 1]
Low(code) == HexDigits[(code % 16) + 1]

Unpadded(code) ==           \* mutant: one digit where the code has one
    <<"BACKSLASH", "u", "0", "0", "0">>
    \o (IF code < 16 THEN <<Low(code)>> ELSE <<High(code), Low(code)>>)
FourDigits(code) == <<"BACKSLASH", "u", "0", "0", High(code), Low(code)>>

\* The characters that writeString escapes by a letter, or by themselves.
Letters ==
    [QUOTE |-> "QUOTE", BACKSLASH |-> "BACKSLASH", BS |-> "b", FF |-> "f",
     LF |-> "n", CR |-> "r", TAB |-> "t"]

\* writeString's switch.
Escape(char) ==
    CASE char \in DOMAIN Letters -> <<"BACKSLASH", Letters[char]>>
      [] char \in Range(Controls) \ DOMAIN Letters -> FourDigits(CodeOf(char))
      [] OTHER -> <<char>>
Escaped(s) == FlattenSeq([n \in DOMAIN s |-> Escape(s[n])])

Quoted(s) == <<"QUOTE">> \o Escaped(s) \o <<"QUOTE">>

\* writeFloat: FormatInt below 1e15, else FormatFloat 'g', which leaves the
\* point where it is for the exponents -4 to 5.
StyleAlwaysG(n) ==          \* mutant: no case of its own for integers
    IF n.exp < -4 \/ n.exp >= 6 THEN "exponent"
    ELSE IF n.integral THEN "bare" ELSE "point"
FloatStyle(n) ==
    CASE n.integral /\ n.exp < 15 -> "bare"
      [] ~(n.integral /\ n.exp < 15) /\ (n.exp < -4 \/ n.exp >= 6) -> "exponent"
      [] OTHER -> "point"

\* The scalar cases of write.
Scalar(v) ==
    CASE v.kind = "null" -> <<"n", "u", "l", "l">>
      [] v.kind = "bool" -> IF v.of THEN <<"t", "r", "u", "e">> ELSE <<"f", "a", "l", "s", "e">>
      [] v.kind = "string" -> Quoted(v.of)
      [] v.kind = "jsonNumber" -> v.of.text[v.style]
      [] v.kind = "float64" -> v.of.text[FloatStyle(v.of)]
      [] v.kind = "int" -> v.of.text["bare"]
      [] v.kind = "text" -> v.of

Scalars == {"null", "bool", "string", "jsonNumber", "int", "text"}
IsScalar(v) == v.kind \in Scalars \/ (v.kind = "float64" /\ v.of.finite)

WriteScalar ==
    /\ Pending /\ IsScalar(This)
    /\ buf' = buf \o Scalar(This)
    /\ todo' = Tail(todo)
    /\ UNCHANGED <<pair, outs>>

NoCommas(parts) == FlattenSeq(parts)        \* mutant: items side by side
Separated(parts) ==
    FlattenSeq([n \in DOMAIN parts |->
        IF n = 1 THEN parts[n] ELSE <<Text(<<"COMMA">>)>> \o parts[n]])

WriteArray ==
    /\ Pending /\ This.kind \in Arrays
    /\ todo' = <<Text(<<"LBRACKET">>)>>
               \o Separated([n \in DOMAIN This.of |-> <<Item(This, n)>>])
               \o <<Text(<<"RBRACKET">>)>> \o Tail(todo)
    /\ UNCHANGED <<pair, buf, outs>>

ByteOf(c) == CHOOSE n \in DOMAIN Bytes : Bytes[n] = c

\* The order of sort.Strings: at the first place where they differ, s is at its
\* end or has the smaller byte.
Precedes(s, t) ==
    \E n \in DOMAIN t :
        /\ n <= Len(s) + 1 /\ \A m \in 1 .. n - 1 : s[m] = t[m]
        /\ n <= Len(s) => ByteOf(s[n]) < ByteOf(t[n])

AsItComes(keys) == TRUE                     \* mutant: sort.Strings lost
Sorted(keys) == \A n \in DOMAIN keys : \A m \in 1 .. n - 1 : Precedes(keys[m], keys[n])

\* writeObject.  A Go map is ranged over in any order: what is written is sorted.
WriteObject ==
    /\ Pending /\ This.kind \in Objects
    /\ \E keys \in SetToSeqs(DOMAIN This.of) :
          /\ Sorted(keys)
          /\ todo' = <<Text(<<"LBRACE">>)>>
                     \o Separated([n \in DOMAIN keys |->
                            <<Text(Quoted(keys[n]) \o <<"COLON">>), Item(This, keys[n])>>])
                     \o <<Text(<<"RBRACE">>)>> \o Tail(todo)
    /\ UNCHANGED <<pair, buf, outs>>

OneBuffer(out) ==           \* mutant: one buffer for all calls, never reset
    /\ outs' = Append(outs, out)
    /\ todo' = <<pair[2]>>
    /\ UNCHANGED <<pair, buf>>

\* Encode returns; the second value gets a buffer of its own.
EncodeReturns(out) ==
    /\ outs' = Append(outs, out)
    /\ todo' = <<pair[2]>> /\ buf' = <<>>
    /\ UNCHANGED pair

\* A type that write does not know, NaN, an infinity: nothing is returned.
Fail ==
    /\ Pending
    /\ This.kind = "foreign" \/ (This.kind = "float64" /\ ~This.of.finite)
    /\ EncodeReturns(<<>>)

Return == Running /\ todo = <<>> /\ EncodeReturns(buf)

Next == WriteScalar \/ WriteArray \/ WriteObject \/ Fail \/ Return

Spec == Init /\ [][Next]_vars

-----------------------------------------------------------------------------
\* The stack holds values and text, and Encode starts with an empty buffer.
EncoderTypeOK ==
    /\ pair \in Values \X Values
    /\ \A n \in DOMAIN todo : todo[n].kind \in Kinds \union {"text"}
    /\ Len(outs) <= 2
    /\ (Running /\ todo = <<pair[Len(outs) + 1]>>) => buf = <<>>

(***************************************************************************)
(* What a value says, without how it is held in Go or was spelled.         *)
(***************************************************************************)
meaning[v \in Values] ==
    CASE v.kind \in Numbers -> [number |-> v.of]
      [] v.kind \in Arrays -> [array |-> [n \in DOMAIN v.of |-> meaning[Item(v, n)]]]
      [] v.kind \in Objects -> [object |-> [key \in DOMAIN v.of |-> meaning[Item(v, key)]]]
      [] v.kind = "string" -> [string |-> v.of]
      [] v.kind = "bool" -> [bool |-> v.of]
      [] OTHER -> [other |-> v.kind]

\* v and what is in it, at any depth.
parts[v \in Values] == {v} \union UNION {parts[u] : u \in Items(v)}

Foreign(v) == v.kind = "foreign" \/ (v.kind = "float64" /\ ~v.of.finite)

\* JavaScript leaves the point where it is for the exponents -6 to 20.
StyleInJS(n) ==
    CASE n.exp < -6 \/ n.exp >= 21 -> "exponent"
      [] n.exp \in -6 .. 20 /\ n.integral -> "bare"
      [] OTHER -> "point"

\* A number that the two sides need not spell alike: read in another spelling
\* than JavaScript's, or a float outside the range where 'g' is JavaScript's.
Odd(v) ==
    \/ v.kind = "jsonNumber" /\ v.style # StyleInJS(v.of)
    \/ v.kind = "float64" /\ ~(IF v.of.integral THEN v.of.exp < 15 ELSE v.of.exp \in -4 .. 5)

Finished == ~Running
Failed(n) == outs[n] = <<>>

(***************************************************************************)
(* The digests of two payloads are equal only if the payloads are: no text *)
(* runs into the next one, no character is mistaken for another, nested    *)
(* values included.  Only a foreign type or number is refused.             *)
(***************************************************************************)
EqualBytesSayTheSame ==
    Finished =>
        /\ \A n \in 1 .. 2 : Failed(n) <=> \E v \in parts[pair[n]] : Foreign(v)
        /\ (outs[1] = outs[2] /\ ~Failed(1)) => meaning[pair[1]] = meaning[pair[2]]

(***************************************************************************)
(* Two payloads that say the same have the same digest, however Go holds   *)
(* them and in whatever order it ranges over their maps, as long as their  *)
(* numbers are not odd.                                                    *)
(***************************************************************************)
TheSameHasEqualBytes ==
    (Finished /\ meaning[pair[1]] = meaning[pair[2]]
     /\ \A v \in parts[pair[1]] \union parts[pair[2]] : ~Odd(v))
        => outs[1] = outs[2]
===============================================================================
