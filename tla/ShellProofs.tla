----------------------------- MODULE ShellProofs -----------------------------
(***************************************************************************)
(* What a user's shell runs: first main with its command line, then        *)
(* install.sh.                                                             *)
(*                                                                         *)
(* main honours every flag, for command lines of any length.  The          *)
(* invariant follows flag.Parse along the arguments: what it has taken so  *)
(* far has set the switches and the path of the KEK as the arguments       *)
(* before that point ask for, and the point is never inside of a           *)
(* --workspace-key and its value.                                          *)
(*                                                                         *)
(* install.sh installs only what is signed, whatever number of releases,   *)
(* keys and uploads there is and wherever a command fails.  The invariant  *)
(* follows the script: what it has fetched before each of its commands,    *)
(* that nothing is installed before the signature has been found good, and *)
(* that signatures are never unmade.                                       *)
(***************************************************************************)
EXTENDS CommandLine, Install, WellFoundedInduction, TLAPS

-----------------------------------------------------------------------------
(***************************************************************************)
(* The equation of IsValue, and that a function with it exists.            *)
(***************************************************************************)
Equation(f, m) ==
    f = [n \in 1 .. m |-> n > 1 /\ args[n - 1].kind = "bare key" /\ ~f[n - 1]]

LEMMA ValuesExist ==
    ASSUME NEW m \in Nat
    PROVE  \E f : Equation(f, m)
<1> DEFINE T == {k \in Nat : ~ \E f : Equation(f, k)}
<1>1. SUFFICES ASSUME T # {} PROVE FALSE
  OBVIOUS
<1>2. PICK k \in T : \A j \in T : ~(j < k)
  <2>1. PICK k \in T : \A j \in T : <<j, k>> \notin OpToRel(<, Nat)
    BY <1>1, NatLessThanWellFounded, WFMin
  <2> QED  BY <2>1 DEF OpToRel
<1>3. CASE k = 0
  <2> DEFINE g == [n \in 1 .. 0 |-> FALSE]
  <2>1. g = [n \in 1 .. 0 |-> n > 1 /\ args[n - 1].kind = "bare key" /\ ~g[n - 1]]
    OBVIOUS
  <2>2. Equation(g, 0)
    BY <2>1 DEF Equation
  <2> QED  BY <1>2, <1>3, <2>2
<1>4. CASE k # 0
  <2>1. k - 1 \in Nat /\ k - 1 \notin T /\ k \in Nat
    BY <1>2, <1>4
  <2>2. PICK f : Equation(f, k - 1)
    BY <2>1
  <2> DEFINE After(h, n) == n > 1 /\ args[n - 1].kind = "bare key" /\ ~h[n - 1]
             g == [n \in 1 .. k |-> IF n = k THEN After(f, k) ELSE f[n]]
  <2>3. \A n \in 1 .. k - 1 : f[n] = After(f, n)
    BY <2>1, <2>2 DEF Equation
  <2>9. \A n \in 1 .. k - 1 : n \in 1 .. k /\ n # k
    BY <2>1
  <2>4. \A n \in 1 .. k - 1 : g[n] = f[n]
    BY <2>9
  <2>5. \A n \in 1 .. k : n > 1 => n - 1 \in 1 .. k - 1
    BY <2>1
  <2>6. \A n \in 1 .. k : After(g, n) = After(f, n)
    <3> TAKE n \in 1 .. k
    <3>1. CASE n > 1
      BY <2>4, <2>5, <2>9, <3>1
    <3>2. CASE ~(n > 1)
      <4> HIDE DEF g
      <4> QED  BY <3>2
    <3> QED  BY <3>1, <3>2
  <2>7. \A n \in 1 .. k : g[n] = After(g, n)
    <3> TAKE n \in 1 .. k
    <3>1. CASE n = k
      <4>1. g[n] = After(f, k)
        BY <3>1
      <4> HIDE DEF g, After
      <4> QED  BY <2>6, <3>1, <4>1
    <3>2. CASE n # k
      <4>1. n \in 1 .. k - 1
        BY <2>1, <3>2
      <4> HIDE DEF g, After
      <4> QED  BY <2>3, <2>4, <2>6, <4>1
    <3> QED  BY <3>1, <3>2
  <2>8. Equation(g, k)
    <3>1. g = [n \in 1 .. k |-> g[n]]
      OBVIOUS
    <3> HIDE DEF g
    <3> QED  BY <2>7, <3>1 DEF Equation
  <2> QED  BY <1>2, <2>8
<1> QED  BY <1>3, <1>4

LEMMA IsValueStep ==
    ASSUME Len(args) \in Nat
    PROVE  \A n \in 1 .. Len(args) + 1 :
              IsValue[n] <=> n > 1 /\ args[n - 1].kind = "bare key" /\ ~IsValue[n - 1]
<1>1. IsValue = CHOOSE f : Equation(f, Len(args) + 1)
  BY DEF IsValue, Equation
<1>2. Equation(IsValue, Len(args) + 1)
  BY <1>1, ValuesExist
<1> QED  BY <1>2 DEF Equation

-----------------------------------------------------------------------------
\* What the arguments before the p-th ask for.
StrictsBefore(p) ==
    {n \in 1 .. p - 1 :
        ~IsValue[n] /\ args[n].kind = "switch" /\ args[n].flag = "strict"}

KeysBefore(p) ==
    {n \in 1 .. p - 1 : ~IsValue[n] /\ args[n].kind \in {"key", "bare key"}}

IsLast(said, n) == n \in said /\ \A m \in said : m <= n

StrictAsked(said) == \E n \in said : IsLast(said, n) /\ args[n].on

KeyNamed(said, word) ==
    \/ said = {} /\ word = NoWord
    \/ \E n \in said :
          /\ IsLast(said, n)
          /\ \/ args[n].kind = "key" /\ word = args[n].word
             \/ args[n].kind = "bare key" /\ n < Len(args) /\ word = WordOf(args[n + 1])

TakenUpTo(p) ==
    /\ p \in 1 .. Len(args) + 1 /\ ~IsValue[p]
    /\ "strict" \in switches <=> StrictAsked(StrictsBefore(p))
    /\ KeyNamed(KeysBefore(p), key)

\* What Parse has left are the arguments from the p-th on.
LeftFrom(p) ==
    /\ Len(rest) = Len(args) - p + 1
    /\ \A i \in 1 .. Len(rest) : rest[i] = args[p - 1 + i]

\* Where Parse stopped: at the end, at a word or behind a terminator.
Stopped(p) ==
    \/ LeftFrom(p) /\ (rest # <<>> => args[p].kind = "word")
    \/ p <= Len(args) /\ args[p].kind = "terminator" /\ LeftFrom(p + 1)

ArgumentsOK ==
    /\ args \in Arguments
    /\ rest \in Seq({args[n] : n \in DOMAIN args})

LoadedKek ==
    \/ key = NoWord /\ kek = NoBytes
    \/ key # NoWord /\ kek = LoadKEKFromFile(key) /\ kek # NoBytes

ParseInv ==
    /\ CliTypeOK /\ ArgumentsOK
    /\ at = "parse" => \E p \in 1 .. Len(args) + 1 : TakenUpTo(p) /\ LeftFrom(p)
    /\ at # "parse" /\ (at = "exited" => exit.by = "verify") =>
          \E p \in 1 .. Len(args) + 1 : TakenUpTo(p) /\ Stopped(p)
    /\ at \in {"parse", "dispatch"} => kek = NoBytes
    /\ (at = "verify" \/ exit.by = "verify") => Len(rest) = 1 /\ LoadedKek
    /\ at # "exited" => exit = Running
    /\ (exit.by = "verify" /\ exit.code # 2) => WordOf(rest[1]) \in Packs

-----------------------------------------------------------------------------
(***************************************************************************)
(* What one more flag adds to what the arguments ask for.                  *)
(***************************************************************************)
\* A point between two flags is not a value, and neither is the one after
\* the flag there; behind a bare --workspace-key there is its value.
LEMMA NextFlag ==
    ASSUME ArgumentsOK, NEW p \in 1 .. Len(args), ~IsValue[p]
    PROVE  /\ p \in DOMAIN args /\ Len(args) \in Nat /\ p + 1 \in 1 .. Len(args) + 1
           /\ args[p].kind # "bare key" => ~IsValue[p + 1]
           /\ args[p].kind = "bare key" => IsValue[p + 1]
           /\ (args[p].kind = "bare key" /\ p < Len(args)) =>
                 p + 2 \in 1 .. Len(args) + 1 /\ ~IsValue[p + 2]
<1>1. args \in Seq({args[n] : n \in DOMAIN args})
  BY CommandLineAssumption DEF ArgumentsOK
<1>2. Len(args) \in Nat /\ DOMAIN args = 1 .. Len(args)
  BY <1>1
<1>3. p + 1 \in 1 .. Len(args) + 1 /\ p + 1 > 1 /\ (p + 1) - 1 = p
  BY <1>2
<1>4. IsValue[p + 1] <=> args[p].kind = "bare key"
  BY <1>2, <1>3, IsValueStep
<1>5. ASSUME args[p].kind = "bare key", p < Len(args)
      PROVE  p + 2 \in 1 .. Len(args) + 1 /\ ~IsValue[p + 2]
  <2>1. p + 2 \in 1 .. Len(args) + 1 /\ (p + 2) - 1 = p + 1 /\ p + 2 > 1
    <3>1. Len(args) \in Nat /\ p \in 1 .. Len(args) /\ p < Len(args)
      BY <1>2, <1>5
    <3> QED  BY ONLY <3>1
  <2> QED  BY <1>2, <1>4, <1>5, <2>1, IsValueStep
<1> QED  BY <1>2, <1>3, <1>4, <1>5

\* A set of positions before p, and p.
LEMMA LastOfMore ==
    ASSUME NEW p \in Nat, NEW said, said \subseteq 1 .. p - 1
    PROVE  \A n \in said \union {p} : IsLast(said \union {p}, n) <=> n = p
BY DEF IsLast

LEMMA SwitchTaken ==
    ASSUME ArgumentsOK, NEW p \in 1 .. Len(args), ~IsValue[p], args[p].kind = "switch"
    PROVE  /\ KeysBefore(p + 1) = KeysBefore(p)
           /\ args[p].flag # "strict" => StrictsBefore(p + 1) = StrictsBefore(p)
           /\ args[p].flag = "strict" => (StrictAsked(StrictsBefore(p + 1)) <=> args[p].on)
<1>1. Len(args) \in Nat
  BY NextFlag
<1>2. 1 .. (p + 1) - 1 = (1 .. p - 1) \union {p}
  BY <1>1
<1>3. KeysBefore(p + 1) = KeysBefore(p)
  BY <1>2 DEF KeysBefore
<1>4. ASSUME args[p].flag # "strict"
      PROVE  StrictsBefore(p + 1) = StrictsBefore(p)
  BY <1>2, <1>4 DEF StrictsBefore
<1>5. ASSUME args[p].flag = "strict"
      PROVE  StrictAsked(StrictsBefore(p + 1)) <=> args[p].on
  <2>1. StrictsBefore(p + 1) = StrictsBefore(p) \union {p}
    BY <1>2, <1>5 DEF StrictsBefore
  <2>2. StrictsBefore(p) \subseteq 1 .. p - 1 /\ p \in Nat
    BY <1>1 DEF StrictsBefore
  <2>3. \A n \in StrictsBefore(p + 1) : IsLast(StrictsBefore(p + 1), n) <=> n = p
    BY <2>1, <2>2, LastOfMore
  <2> QED  BY <2>1, <2>3 DEF StrictAsked
<1> QED  BY <1>3, <1>4, <1>5

LEMMA KeyTaken ==
    ASSUME ArgumentsOK, NEW p \in 1 .. Len(args), ~IsValue[p], args[p].kind = "key"
    PROVE  /\ StrictsBefore(p + 1) = StrictsBefore(p)
           /\ KeyNamed(KeysBefore(p + 1), args[p].word)
<1>1. Len(args) \in Nat
  BY NextFlag
<1>2. 1 .. (p + 1) - 1 = (1 .. p - 1) \union {p}
  BY <1>1
<1>3. StrictsBefore(p + 1) = StrictsBefore(p)
  BY <1>2 DEF StrictsBefore
<1>4. KeysBefore(p + 1) = KeysBefore(p) \union {p}
  BY <1>2 DEF KeysBefore
<1>5. KeysBefore(p) \subseteq 1 .. p - 1 /\ p \in Nat
  <2>1. p \in Nat
    BY <1>1
  <2> QED  BY <2>1 DEF KeysBefore
<1>6. p \in KeysBefore(p + 1) /\ IsLast(KeysBefore(p + 1), p)
  BY <1>4, <1>5, LastOfMore
<1> QED  BY <1>3, <1>6 DEF KeyNamed

LEMMA BareKeyTaken ==
    ASSUME ArgumentsOK, NEW p \in 1 .. Len(args), ~IsValue[p],
           args[p].kind = "bare key", p < Len(args)
    PROVE  /\ StrictsBefore(p + 2) = StrictsBefore(p)
           /\ KeyNamed(KeysBefore(p + 2), WordOf(args[p + 1]))
<1>0. Len(args) \in Nat
  BY NextFlag
<1>7. p \in Nat /\ 1 <= p
  BY ONLY <1>0, p \in 1 .. Len(args)
<1>1. IsValue[p + 1]
  BY NextFlag
<1>2. 1 .. (p + 2) - 1 = (1 .. p - 1) \union {p, p + 1}
  <2>1. p \in Nat /\ 1 <= p
    BY <1>7
  <2>2. \A n \in 1 .. (p + 2) - 1 : n \in 1 .. p - 1 \/ n = p \/ n = p + 1
    BY ONLY <2>1
  <2>3. /\ \A n \in 1 .. p - 1 : n \in 1 .. (p + 2) - 1
        /\ p \in 1 .. (p + 2) - 1 /\ p + 1 \in 1 .. (p + 2) - 1
    BY ONLY <2>1
  <2> QED  BY <2>2, <2>3
<1>3. StrictsBefore(p + 2) = StrictsBefore(p)
  BY <1>1, <1>2 DEF StrictsBefore
<1>4. KeysBefore(p + 2) = KeysBefore(p) \union {p}
  BY <1>1, <1>2 DEF KeysBefore
<1>5. KeysBefore(p) \subseteq 1 .. p - 1 /\ p \in Nat
  <2>1. p \in Nat
    BY <1>7
  <2> QED  BY <2>1 DEF KeysBefore
<1>6. p \in KeysBefore(p + 2) /\ IsLast(KeysBefore(p + 2), p)
  BY <1>4, <1>5, LastOfMore
<1> QED  BY <1>3, <1>6 DEF KeyNamed

-----------------------------------------------------------------------------
\* What was asked for does not change with what main makes of it.
LEMMA TakenNext ==
    ASSUME args' = args, NEW q \in 1 .. Len(args) + 1, ~IsValue[q],
           "strict" \in switches' <=> StrictAsked(StrictsBefore(q)),
           KeyNamed(KeysBefore(q), key')
    PROVE  TakenUpTo(q)'
<1>1. IsValue' = IsValue
  BY DEF IsValue
<1>2. StrictsBefore(q)' = StrictsBefore(q) /\ KeysBefore(q)' = KeysBefore(q)
  BY <1>1 DEF StrictsBefore, KeysBefore
<1>3. StrictAsked(StrictsBefore(q))' <=> StrictAsked(StrictsBefore(q))
  BY <1>2 DEF StrictAsked, IsLast
<1>4. KeyNamed(KeysBefore(q), key)' <=> KeyNamed(KeysBefore(q), key')
  BY <1>2 DEF KeyNamed, IsLast
<1> QED  BY <1>1, <1>3, <1>4 DEF TakenUpTo

LEMMA TakenStays ==
    ASSUME UNCHANGED <<args, switches, key>>, NEW p, TakenUpTo(p)
    PROVE  TakenUpTo(p)'
BY TakenNext DEF TakenUpTo

LEMMA TailLeft ==
    ASSUME ArgumentsOK, NEW p \in 1 .. Len(args) + 1, LeftFrom(p), rest # <<>>
    PROVE  /\ p \in 1 .. Len(args) /\ Head(rest) = args[p] /\ rest[1] = args[p]
           /\ args' = args /\ rest' = Tail(rest) => ArgumentsOK' /\ LeftFrom(p + 1)'
           /\ Tail(rest) # <<>> => p < Len(args) /\ rest[2] = args[p + 1]
           /\ (Tail(rest) # <<>> /\ args' = args /\ rest' = Tail(Tail(rest))) =>
                 ArgumentsOK' /\ LeftFrom(p + 2)'
<1> DEFINE S == {args[n] : n \in DOMAIN args}
<1>1. args \in Seq(S) /\ rest \in Seq(S) /\ Len(args) \in Nat
  BY CommandLineAssumption DEF ArgumentsOK
<1> HIDE DEF S
<1>2. /\ Len(rest) \in Nat /\ Len(rest) > 0 /\ Head(rest) = rest[1]
      /\ Tail(rest) \in Seq(S) /\ Len(Tail(rest)) = Len(rest) - 1
      /\ \A i \in 1 .. Len(rest) - 1 : Tail(rest)[i] = rest[i + 1]
  BY <1>1
<1>3. p \in 1 .. Len(args) /\ rest[1] = args[p]
  <2>1. Len(rest) = Len(args) - p + 1
    BY DEF LeftFrom
  <2>2. p \in 1 .. Len(args) /\ 1 \in 1 .. Len(rest) /\ p - 1 + 1 = p
    BY <1>1, <1>2, <2>1
  <2> QED  BY <2>2 DEF LeftFrom
<1>4. ASSUME args' = args, rest' = Tail(rest)
      PROVE  ArgumentsOK' /\ LeftFrom(p + 1)'
  <2>1. Len(rest') = Len(args') - (p + 1) + 1
    BY <1>1, <1>2, <1>4 DEF LeftFrom
  <2>2. \A i \in 1 .. Len(rest') : rest'[i] = args'[(p + 1) - 1 + i]
    <3> TAKE i \in 1 .. Len(rest')
    <3>1. i + 1 \in 1 .. Len(rest) /\ i \in 1 .. Len(rest) - 1
      BY <1>2, <1>4
    <3>2. rest'[i] = rest[i + 1] /\ rest[i + 1] = args[p - 1 + (i + 1)]
      BY <1>2, <1>4, <3>1 DEF LeftFrom
    <3>3. p - 1 + (i + 1) = (p + 1) - 1 + i
      BY <1>3, <3>1
    <3> QED  BY <1>4, <3>2, <3>3
  <2>3. ArgumentsOK'
    BY <1>1, <1>2, <1>4 DEF ArgumentsOK, S
  <2> QED  BY <2>1, <2>2, <2>3 DEF LeftFrom
<1>5. ASSUME Tail(rest) # <<>>
      PROVE  /\ p < Len(args) /\ rest[2] = args[p + 1]
             /\ Tail(Tail(rest)) \in Seq(S)
             /\ Len(Tail(Tail(rest))) = Len(rest) - 2
             /\ \A i \in 1 .. Len(rest) - 2 : Tail(Tail(rest))[i] = rest[i + 2]
  <2>1. /\ Len(Tail(rest)) > 0
        /\ Tail(Tail(rest)) \in Seq(S) /\ Len(Tail(Tail(rest))) = Len(Tail(rest)) - 1
        /\ \A i \in 1 .. Len(Tail(rest)) - 1 : Tail(Tail(rest))[i] = Tail(rest)[i + 1]
    BY <1>2, <1>5
  <2>2. p < Len(args) /\ 2 \in 1 .. Len(rest) /\ p - 1 + 2 = p + 1
    BY <1>1, <1>2, <1>3, <2>1 DEF LeftFrom
  <2>3. rest[2] = args[p + 1]
    BY <2>2 DEF LeftFrom
  <2>4. \A i \in 1 .. Len(rest) - 2 : Tail(Tail(rest))[i] = rest[i + 2]
    <3> TAKE i \in 1 .. Len(rest) - 2
    <3>1. /\ i \in 1 .. Len(Tail(rest)) - 1 /\ i + 1 \in 1 .. Len(rest) - 1
          /\ (i + 1) + 1 = i + 2
      BY <1>2
    <3> QED  BY <1>2, <2>1, <3>1
  <2>5. Len(Tail(Tail(rest))) = Len(rest) - 2
    BY <1>2, <2>1
  <2> QED  BY <2>1, <2>2, <2>3, <2>4, <2>5
<1>6. ASSUME Tail(rest) # <<>>, args' = args, rest' = Tail(Tail(rest))
      PROVE  ArgumentsOK' /\ LeftFrom(p + 2)'
  <2>1. Len(rest') = Len(args') - (p + 2) + 1
    BY <1>1, <1>2, <1>3, <1>5, <1>6 DEF LeftFrom
  <2>2. \A i \in 1 .. Len(rest') : rest'[i] = args'[(p + 2) - 1 + i]
    <3> TAKE i \in 1 .. Len(rest')
    <3>1. i + 2 \in 1 .. Len(rest) /\ i \in 1 .. Len(rest) - 2
      BY <1>2, <1>5, <1>6
    <3>2. rest'[i] = rest[i + 2] /\ rest[i + 2] = args[p - 1 + (i + 2)]
      BY <1>5, <1>6, <3>1 DEF LeftFrom
    <3>3. p - 1 + (i + 2) = (p + 2) - 1 + i
      BY <1>3, <3>1
    <3> QED  BY <1>6, <3>2, <3>3
  <2>3. ArgumentsOK'
    BY <1>1, <1>5, <1>6 DEF ArgumentsOK, S
  <2> QED  BY <2>1, <2>2, <2>3 DEF LeftFrom
<1> QED  BY <1>2, <1>3, <1>4, <1>5, <1>6

-----------------------------------------------------------------------------
LEMMA InitParse == Init => ParseInv
<1> SUFFICES ASSUME Init PROVE ParseInv
  OBVIOUS
<1> USE DEF Init
<1>1. args \in Seq({args[n] : n \in DOMAIN args})
  BY CommandLineAssumption
<1>2. ArgumentsOK
  BY <1>1 DEF ArgumentsOK
<1>3. Len(args) \in Nat /\ 1 \in 1 .. Len(args) + 1 /\ ~(1 > 1)
  BY <1>1
<1>4. ~IsValue[1]
  BY <1>3, IsValueStep
<1>5. LeftFrom(1)
  BY <1>1, <1>3 DEF LeftFrom
<1>6. StrictsBefore(1) = {} /\ KeysBefore(1) = {}
  BY <1>3 DEF StrictsBefore, KeysBefore
<1>7. TakenUpTo(1)
  BY <1>3, <1>4, <1>6 DEF TakenUpTo, StrictAsked, KeyNamed
<1> QED  BY <1>2, <1>3, <1>5, <1>7 DEF ParseInv, CliTypeOK, NoBytes, Running

LEMMA TakeFlagParse ==
    ASSUME ParseInv, TakeFlag
    PROVE  ParseInv'
<1> USE DEF ParseInv
<1>1. /\ at = "parse" /\ rest # <<>> /\ at' = at /\ exit' = exit /\ kek' = kek
      /\ args' = args /\ ArgumentsOK /\ exit = Running
  BY DEF TakeFlag
<1>2. PICK p \in 1 .. Len(args) + 1 : TakenUpTo(p) /\ LeftFrom(p)
  BY <1>1
<1>3. /\ p \in 1 .. Len(args) /\ Head(rest) = args[p]
      /\ rest' = Tail(rest) => ArgumentsOK' /\ LeftFrom(p + 1)'
      /\ Tail(rest) # <<>> => p < Len(args) /\ rest[2] = args[p + 1]
      /\ (Tail(rest) # <<>> /\ rest' = Tail(Tail(rest))) => ArgumentsOK' /\ LeftFrom(p + 2)'
  BY <1>1, <1>2, TailLeft
<1>4. /\ ~IsValue[p] /\ KeyNamed(KeysBefore(p), key)
      /\ "strict" \in switches <=> StrictAsked(StrictsBefore(p))
  BY <1>2 DEF TakenUpTo
<1>5. p \in DOMAIN args /\ args \in Arguments
  BY <1>1, <1>3, <1>4, NextFlag DEF ArgumentsOK
<1>6. ASSUME Head(rest).kind = "switch",
             switches' = IF Head(rest).on THEN switches \union {Head(rest).flag}
                                          ELSE switches \ {Head(rest).flag},
             rest' = Tail(rest), key' = key
      PROVE  /\ ArgumentsOK' /\ switches' \subseteq Switches
             /\ p + 1 \in 1 .. Len(args) + 1 /\ TakenUpTo(p + 1)' /\ LeftFrom(p + 1)'
  <2>1. args[p].kind = "switch" /\ args[p].flag \in Switches /\ args[p].on \in BOOLEAN
    BY <1>3, <1>5, <1>6, CommandLineAssumption
  <2>2. p + 1 \in 1 .. Len(args) + 1 /\ ~IsValue[p + 1]
    BY <1>1, <1>3, <1>4, <2>1, NextFlag
  <2>3. KeyNamed(KeysBefore(p + 1), key')
    BY <1>1, <1>3, <1>4, <1>6, <2>1, SwitchTaken
  <2>4. "strict" \in switches' <=> StrictAsked(StrictsBefore(p + 1))
    <3>1. CASE args[p].flag = "strict"
      <4>1. StrictAsked(StrictsBefore(p + 1)) <=> args[p].on
        BY <1>1, <1>3, <1>4, <2>1, <3>1, SwitchTaken
      <4>2. "strict" \in switches' <=> args[p].on
        BY <1>3, <1>6, <3>1
      <4> QED  BY <4>1, <4>2
    <3>2. CASE args[p].flag # "strict"
      <4>1. StrictsBefore(p + 1) = StrictsBefore(p)
        BY <1>1, <1>3, <1>4, <2>1, <3>2, SwitchTaken
      <4>2. "strict" \in switches' <=> "strict" \in switches
        BY <1>3, <1>6, <3>2
      <4> QED  BY <1>4, <4>1, <4>2
    <3> QED  BY <3>1, <3>2
  <2>5. TakenUpTo(p + 1)'
    BY <1>1, <2>2, <2>3, <2>4, TakenNext
  <2>6. switches' \subseteq Switches
    BY <1>3, <1>6, <2>1 DEF CliTypeOK
  <2> QED  BY <1>3, <1>6, <2>2, <2>5, <2>6
<1>7. ASSUME Head(rest).kind = "key", key' = Head(rest).word, rest' = Tail(rest),
             switches' = switches
      PROVE  /\ ArgumentsOK' /\ p + 1 \in 1 .. Len(args) + 1
             /\ TakenUpTo(p + 1)' /\ LeftFrom(p + 1)'
  <2>1. args[p].kind = "key" /\ args[p].kind # "bare key" /\ key' = args[p].word
    BY <1>3, <1>7
  <2>2. p + 1 \in 1 .. Len(args) + 1 /\ ~IsValue[p + 1]
    BY <1>1, <1>3, <1>4, <2>1, NextFlag
  <2>3. StrictsBefore(p + 1) = StrictsBefore(p) /\ KeyNamed(KeysBefore(p + 1), key')
    BY <1>1, <1>3, <1>4, <2>1, KeyTaken
  <2>4. TakenUpTo(p + 1)'
    BY <1>1, <1>4, <1>7, <2>2, <2>3, TakenNext
  <2> QED  BY <1>3, <1>7, <2>2, <2>4
<1>8. ASSUME Head(rest).kind = "bare key", Tail(rest) # <<>>, key' = WordOf(rest[2]),
             rest' = Tail(Tail(rest)), switches' = switches
      PROVE  /\ ArgumentsOK' /\ p + 2 \in 1 .. Len(args) + 1
             /\ TakenUpTo(p + 2)' /\ LeftFrom(p + 2)'
  <2>1. args[p].kind = "bare key" /\ p < Len(args) /\ key' = WordOf(args[p + 1])
    BY <1>3, <1>8
  <2>2. p + 2 \in 1 .. Len(args) + 1 /\ ~IsValue[p + 2]
    BY <1>1, <1>3, <1>4, <2>1, NextFlag
  <2>3. StrictsBefore(p + 2) = StrictsBefore(p) /\ KeyNamed(KeysBefore(p + 2), key')
    BY <1>1, <1>3, <1>4, <2>1, BareKeyTaken
  <2>4. TakenUpTo(p + 2)'
    BY <1>1, <1>4, <1>8, <2>2, <2>3, TakenNext
  <2> QED  BY <1>3, <1>8, <2>2, <2>4
<1>9. /\ ArgumentsOK' /\ switches' \subseteq Switches
      /\ \E q \in 1 .. Len(args) + 1 : TakenUpTo(q)' /\ LeftFrom(q)'
  BY <1>6, <1>7, <1>8 DEF TakeFlag, CliTypeOK
<1>10. CliTypeOK'
  BY <1>1, <1>9 DEF CliTypeOK
<1> QED  BY <1>1, <1>9, <1>10 DEF Running

\* Parse stops where the flags end, wherever that is.
LEMMA EndOfFlagsParse ==
    ASSUME ParseInv, EndOfFlags
    PROVE  ParseInv'
<1> USE DEF ParseInv
<1>1. /\ at = "parse" /\ at' = "dispatch" /\ ArgumentsOK /\ exit = Running
      /\ UNCHANGED <<args, switches, key, kek, exit>>
  BY DEF EndOfFlags
<1>2. PICK p \in 1 .. Len(args) + 1 : TakenUpTo(p) /\ LeftFrom(p)
  BY <1>1
<1>3. TakenUpTo(p)'
  BY <1>1, <1>2, TakenStays
<1>4. CASE rest' = rest /\ (rest = <<>> \/ Head(rest).kind = "word")
  <2>1. LeftFrom(p)' /\ ArgumentsOK'
    BY <1>1, <1>2, <1>4 DEF LeftFrom, ArgumentsOK
  <2>2. rest' # <<>> => args'[p].kind = "word"
    BY <1>1, <1>2, <1>4, TailLeft
  <2>3. Stopped(p)'
    BY <2>1, <2>2 DEF Stopped
  <2> QED  BY <1>1, <1>3, <2>1, <2>3 DEF CliTypeOK, Running
<1>5. CASE rest # <<>> /\ Head(rest).kind = "terminator" /\ rest' = Tail(rest)
  <2>1. p \in 1 .. Len(args) /\ args[p].kind = "terminator" /\ ArgumentsOK' /\ LeftFrom(p + 1)'
    BY <1>1, <1>2, <1>5, TailLeft
  <2>2. Stopped(p)'
    BY <1>1, <2>1 DEF Stopped
  <2> QED  BY <1>1, <1>3, <2>1, <2>2 DEF CliTypeOK, Running
<1> QED  BY <1>4, <1>5 DEF EndOfFlags

LEMMA EarlyExitParse ==
    ASSUME ParseInv, Refuse \/ ShowVersion \/ SelfTest \/ WrongUsage
    PROVE  ParseInv'
<1>1. /\ at' = "exited" /\ UNCHANGED <<args, rest, switches, key, kek>>
      /\ exit'.code \in {0, 1, 2} /\ exit'.by # "verify"
  <2>1. ASSUME NEW codes \in SUBSET {0, 1, 2}, NEW by \in {"flags", "version", "self-test", "usage"},
               Exit(codes, by)
        PROVE  at' = "exited" /\ exit'.code \in {0, 1, 2} /\ exit'.by # "verify"
    BY <2>1 DEF Exit
  <2>2. \/ Exit({2}, "flags") \/ Exit({0}, "version")
        \/ Exit({0, 1, 2}, "self-test") \/ Exit({2}, "usage")
    BY DEF Refuse, ShowVersion, SelfTest, WrongUsage
  <2>3. at' = "exited" /\ exit'.code \in {0, 1, 2} /\ exit'.by # "verify"
    BY <2>1, <2>2
  <2>4. UNCHANGED <<args, rest, switches, key, kek>>
    BY DEF Refuse, ShowVersion, SelfTest, WrongUsage
  <2> QED  BY <2>3, <2>4
<1>2. CliTypeOK'
  BY <1>1 DEF ParseInv, CliTypeOK
<1> QED  BY <1>1, <1>2 DEF ParseInv, ArgumentsOK

\* ParseKEK yields 32 bytes or none.
LEMMA KekLength ==
    ASSUME NEW w, LoadKEKFromFile(w) # NoBytes
    PROVE  /\ w \in DOMAIN KekFiles
           /\ LoadKEKFromFile(w) = KekFiles[w].meant /\ LoadKEKFromFile(w).length = 32
<1>1. w \in DOMAIN KekFiles /\ LoadKEKFromFile(w) = ParseKEK(KekFiles[w].read)
  BY DEF LoadKEKFromFile
<1>2. PICK d \in Decoders : /\ ParseKEK(KekFiles[w].read) = KekFiles[w].read[d]
                            /\ IsKek(KekFiles[w].read[d])
  BY <1>1 DEF ParseKEK, Decoders
<1> QED  BY <1>1, <1>2, CommandLineAssumption DEF IsKek

LEMMA LoadKekParse ==
    ASSUME ParseInv, LoadKek
    PROVE  ParseInv'
<1> USE DEF ParseInv
<1>1. /\ at = "dispatch" /\ Len(rest) = 1 /\ exit = Running /\ kek = NoBytes
      /\ UNCHANGED <<args, rest, switches, key>>
  BY DEF LoadKek, OnePath
<1>2. PICK p \in 1 .. Len(args) + 1 : TakenUpTo(p) /\ Stopped(p)
  BY <1>1
<1>3. TakenUpTo(p)' /\ Stopped(p)' /\ ArgumentsOK' /\ p \in 1 .. Len(args') + 1
  BY <1>1, <1>2, TakenStays DEF Stopped, LeftFrom, ArgumentsOK
<1>4. CASE at' = "exited"
  <2>1. exit' = [code |-> 2, by |-> "kek"] /\ kek' = kek
    BY <1>4 DEF LoadKek, Exit
  <2> QED  BY <1>1, <1>3, <1>4, <2>1 DEF CliTypeOK
<1>5. CASE at' = "verify" /\ exit' = exit /\ key = NoWord /\ kek' = kek
  BY <1>1, <1>3, <1>5 DEF CliTypeOK, LoadedKek, Running
<1>6. CASE /\ at' = "verify" /\ exit' = exit /\ key # NoWord
           /\ kek' = LoadKEKFromFile(key) /\ LoadKEKFromFile(key) # NoBytes
  <2>1. kek'.length = 32
    BY <1>6, KekLength
  <2>2. LoadedKek'
    BY <1>1, <1>6 DEF LoadedKek, LoadKEKFromFile
  <2> QED  BY <1>1, <1>3, <1>6, <2>1, <2>2 DEF CliTypeOK, Running
<1> QED  BY <1>4, <1>5, <1>6 DEF LoadKek, Exit

LEMMA VerifyParse ==
    ASSUME ParseInv, Verify
    PROVE  ParseInv'
<1> USE DEF ParseInv
<1>1. /\ at = "verify" /\ at' = "exited" /\ UNCHANGED <<args, rest, switches, key, kek>>
      /\ exit'.code \in {0, 1, 2} /\ exit'.by = "verify"
      /\ exit'.code # 2 => WordOf(rest[1]) \in Packs
  BY DEF Verify, Exit
<1>2. PICK p \in 1 .. Len(args) + 1 : TakenUpTo(p) /\ Stopped(p)
  BY <1>1
<1>3. TakenUpTo(p)' /\ Stopped(p)' /\ ArgumentsOK' /\ p \in 1 .. Len(args') + 1
  BY <1>1, <1>2, TakenStays DEF Stopped, LeftFrom, ArgumentsOK
<1>4. LoadedKek' /\ CliTypeOK'
  BY <1>1 DEF LoadedKek, LoadKEKFromFile, CliTypeOK
<1> QED  BY <1>1, <1>3, <1>4 DEF WordOf

LEMMA StutterParse ==
    ASSUME ParseInv, UNCHANGED vars
    PROVE  ParseInv'
<1> USE DEF ParseInv, vars
<1>1. \A p \in 1 .. Len(args) + 1 :
         /\ TakenUpTo(p) => TakenUpTo(p)'
         /\ LeftFrom(p) => LeftFrom(p)'
         /\ Stopped(p) => Stopped(p)'
  BY TakenStays DEF Stopped, LeftFrom
<1>2. CliTypeOK' /\ ArgumentsOK' /\ (LoadedKek => LoadedKek')
  BY DEF CliTypeOK, ArgumentsOK, LoadedKek, LoadKEKFromFile
<1> QED  BY <1>1, <1>2 DEF WordOf

\* The invariant holds from the first argument to the exit.
THEOREM ParseInvariance == Spec => []ParseInv
<1>1. ParseInv /\ [Next]_vars => ParseInv'
  BY TakeFlagParse, EndOfFlagsParse, EarlyExitParse, LoadKekParse, VerifyParse,
     StutterParse DEF Next
<1> QED  BY <1>1, InitParse, PTL DEF Spec

(***************************************************************************)
(* The variables of main have their types: a KEK has 32 bytes or is none,  *)
(* and main has an exit code when it ends (keys.go:248-262, main.go).      *)
(***************************************************************************)
THEOREM CliTypeCorrect == Spec => []CliTypeOK
BY ParseInvariance, PTL DEF ParseInv

\* Behind the point where Parse stopped there is no flag that it has missed,
\* if what is left is one path.
LEMMA NothingIsMissed ==
    ASSUME ArgumentsOK, NEW p \in 1 .. Len(args) + 1, TakenUpTo(p), Stopped(p),
           Len(rest) = 1, WordOf(rest[1]) \in Packs
    PROVE  /\ "strict" \in switches <=> StrictWasAsked
           /\ KeyFileNamed(key)
<1>1. Len(args) \in Nat /\ DOMAIN args = 1 .. Len(args)
  <2>1. args \in Seq({args[n] : n \in DOMAIN args})
    BY CommandLineAssumption DEF ArgumentsOK
  <2> QED  BY <2>1
<1>2. rest[1].kind = "word"
  BY CommandLineAssumption DEF WordOf
<1>3. \A n \in p .. Len(args) : args[n].kind \in {"word", "terminator"}
  <2>0. rest # <<>>
    <3>1. Len(<<>>) = 0
      OBVIOUS
    <3> QED  BY ONLY <3>1, Len(rest) = 1
  <2>3. /\ LeftFrom(p) => p = Len(args)
        /\ LeftFrom(p + 1) => p + 1 = Len(args)
    <3>1. Len(args) \in Nat
      BY <1>1
    <3>2. \A q \in Nat : 1 = Len(args) - q + 1 => q = Len(args)
      BY ONLY <3>1
    <3>3. p \in Nat /\ p + 1 \in Nat
      BY <1>1
    <3> QED  BY <3>2, <3>3 DEF LeftFrom
  <2>1. CASE LeftFrom(p) /\ args[p].kind = "word"
    <3>1. p = Len(args)
      BY <2>1, <2>3
    <3> QED  BY <1>1, <2>1, <3>1
  <2>2. CASE p <= Len(args) /\ args[p].kind = "terminator" /\ LeftFrom(p + 1)
    <3>1. p + 1 = Len(args) /\ (p + 1) - 1 + 1 = p + 1 /\ 1 \in 1 .. Len(rest)
      BY <2>2, <2>3
    <3>2. args[p + 1].kind = "word"
      BY <1>2, <2>2, <3>1 DEF LeftFrom
    <3>3. \A n \in p .. Len(args) : n = p \/ n = p + 1
      BY <1>1, <3>1
    <3> QED  BY <2>2, <3>2, <3>3
  <2> QED  BY <2>0, <2>1, <2>2 DEF Stopped
<1>4. \A n \in DOMAIN args : n \in 1 .. p - 1 \/ n \in p .. Len(args)
  BY <1>1
<1>5. \A n \in 1 .. p - 1 : n \in DOMAIN args
  BY <1>1
<1>6. StrictsBefore(p) =
         {n \in DOMAIN args :
             ~IsValue[n] /\ args[n].kind = "switch" /\ args[n].flag = "strict"}
  <2>1. \A n \in DOMAIN args : args[n].kind = "switch" => n \in 1 .. p - 1
    BY <1>3, <1>4
  <2> QED  BY <1>5, <2>1 DEF StrictsBefore
<1>7. KeysBefore(p) =
         {n \in DOMAIN args : ~IsValue[n] /\ args[n].kind \in {"key", "bare key"}}
  <2>1. \A n \in DOMAIN args : args[n].kind \in {"key", "bare key"} => n \in 1 .. p - 1
    BY <1>3, <1>4
  <2> QED  BY <1>5, <2>1 DEF KeysBefore
<1>8. StrictAsked(StrictsBefore(p)) <=> StrictWasAsked
  BY <1>6 DEF StrictAsked, StrictWasAsked, IsLast
<1>9. KeyNamed(KeysBefore(p), key) => KeyFileNamed(key)
  BY <1>7 DEF KeyNamed, KeyFileNamed, IsLast
<1> QED  BY <1>8, <1>9 DEF TakenUpTo

(***************************************************************************)
(* If main reports on a pack, then in the mode and with the KEK that the   *)
(* command line asks for: no flag is passed over (main.go:67-96), however  *)
(* many there are and wherever they stand, a --workspace-key takes the     *)
(* argument behind it, the last one of a kind counts, and ParseKEK         *)
(* (keys.go:248-262) reads the KEK that the file was written to hold.      *)
(***************************************************************************)
THEOREM EveryFlagIsHonoured == Spec => []FlagsAreHonoured
<1>1. ParseInv => FlagsAreHonoured
  <2> SUFFICES ASSUME ParseInv, exit.by = "verify", exit.code # 2
               PROVE  /\ "strict" \in switches <=> StrictWasAsked
                      /\ \/ KeyFileNamed(NoWord) /\ kek = NoBytes
                         \/ \E w \in DOMAIN KekFiles :
                               KeyFileNamed(w) /\ kek = KekFiles[w].meant /\ kek # NoBytes
    BY DEF FlagsAreHonoured
  <2>1. /\ at = "exited" /\ ArgumentsOK /\ LoadedKek
        /\ Len(rest) = 1 /\ WordOf(rest[1]) \in Packs
    BY DEF ParseInv, Running
  <2>2. PICK p \in 1 .. Len(args) + 1 : TakenUpTo(p) /\ Stopped(p)
    BY <2>1 DEF ParseInv
  <2>3. ("strict" \in switches <=> StrictWasAsked) /\ KeyFileNamed(key)
    BY <2>1, <2>2, NothingIsMissed
  <2>4. CASE key = NoWord /\ kek = NoBytes
    BY <2>3, <2>4
  <2>5. CASE key # NoWord /\ kek = LoadKEKFromFile(key) /\ kek # NoBytes
    <3>1. key \in DOMAIN KekFiles /\ kek = KekFiles[key].meant
      BY <2>5, KekLength
    <3> QED  BY <2>3, <2>5, <3>1
  <2> QED  BY <2>1, <2>4, <2>5 DEF LoadedKek
<1> QED  BY <1>1, ParseInvariance, PTL

-----------------------------------------------------------------------------
(***************************************************************************)
(* The installer.                                                          *)
(***************************************************************************)
Signature == [of : Builds, key : Keys]

\* The releases, and the signatures made so far.
WorldOK ==
    /\ signed \subseteq Signature
    /\ release \in [Released -> [archive : Builds \union {0},
                                 signature : signed \union {NoSignature}]]
    /\ latest \in Released /\ signer \in Keys
    /\ published \in [primary : Keys, fallback : Keys]
    /\ events \in 0 .. MaxEvents

TmpOK ==
    tmp \in [archive : Builds \union {0}, signature : signed \union {NoSignature}, key : Keys]

Commands ==
    {"require", "resolve", "archive", "signature", "key", "verify", "extract",
     "install", "version"}

\* What the script has by the time it comes to a command.
Fetched ==
    /\ step \in {"archive", "signature", "key", "verify", "extract", "install", "version"} =>
          tag \in Released
    /\ step \in {"require", "resolve", "archive"} => tmp.archive = 0
    /\ step \in {"signature", "key", "verify", "extract", "install", "version"} =>
          tmp.archive # 0
    /\ step \in {"require", "resolve", "archive", "signature"} => tmp.signature = NoSignature
    /\ step \in {"extract", "install", "version"} => Verifies(tmp)

\* Only a verified archive gets to the place.
PlaceOK ==
    /\ step \in Commands \ {"version"} => installed = Old
    /\ step = "version" => installed = tmp.archive
    /\ installed # Old =>
          Verifies(tmp) /\ tmp.archive # 0 /\ installed \in {tmp.archive, Partial}

StatusOK ==
    /\ step \in Commands => status = 255 /\ mishap = FALSE
    /\ step = "exited" => status \in {0, 1, 22, 130}

InstallInv ==
    /\ WorldOK /\ TmpOK
    /\ step \in Commands \union {"exited"} /\ tag \in Tags /\ place \in Places
    /\ Fetched /\ PlaceOK /\ StatusOK /\ ExitTells

-----------------------------------------------------------------------------
LEMMA BuildsAreNumbers ==
    /\ MaxEvents \in Nat /\ Builds \subseteq Nat /\ 0 \notin Builds /\ 1 \in Builds
    /\ Old = 0 /\ Partial \notin Builds \union {Old}
BY InstallAssumption DEF Builds, Old, Partial

\* A verified archive's signature has been made.
LEMMA VerifiedIsSigned ==
    ASSUME TmpOK, Verifies(tmp), tmp.archive # 0
    PROVE  [of |-> tmp.archive, key |-> tmp.key] \in signed
BY DEF TmpOK, Verifies, NoSignature

LEMMA InstallInitInv == InstallInit => InstallInv
<1> SUFFICES ASSUME InstallInit PROVE InstallInv
  OBVIOUS
<1> USE DEF InstallInit
<1>1. WorldOK
  BY BuildsAreNumbers, InstallAssumption DEF WorldOK, Signature, Released
<1>2. TmpOK
  BY InstallAssumption DEF TmpOK
<1>3. Fetched /\ PlaceOK /\ StatusOK /\ ExitTells
  BY DEF Fetched, PlaceOK, StatusOK, ExitTells, Commands
<1> QED  BY <1>1, <1>2, <1>3 DEF InstallInv, Commands

-----------------------------------------------------------------------------
(***************************************************************************)
(* What happens to the releases does not reach what the script has.        *)
(***************************************************************************)
LEMMA WorldStep ==
    ASSUME InstallInv, Event, WorldOK', signed \subseteq signed'
    PROVE  InstallInv'
<1>1. UNCHANGED <<step, tag, tmp, place, installed, mishap, status>>
  BY DEF Event, script
<1>2. TmpOK'
  BY <1>1 DEF InstallInv, TmpOK, NoSignature
<1>3. Fetched' /\ PlaceOK' /\ StatusOK' /\ ExitTells'
  BY <1>1 DEF InstallInv, Fetched, PlaceOK, StatusOK, ExitTells, Verifies, NoSignature
<1> QED  BY <1>1, <1>2, <1>3 DEF InstallInv

LEMMA UploadArchiveInv ==
    ASSUME InstallInv, NEW t \in Released, UploadArchive(t)
    PROVE  InstallInv'
<1>1. /\ Event /\ events' = events + 1 /\ events < MaxEvents
      /\ release' = [release EXCEPT ![t].archive = events + 2]
      /\ UNCHANGED <<latest, signer, published, signed>> /\ WorldOK
  BY DEF UploadArchive, Event, InstallInv
<1>2. events + 2 \in Builds /\ events' \in 0 .. MaxEvents
  BY <1>1, InstallAssumption DEF WorldOK, Builds
<1>3. release' \in [Released -> [archive : Builds \union {0},
                                 signature : signed \union {NoSignature}]]
  BY <1>1, <1>2 DEF WorldOK
<1>4. WorldOK'
  BY <1>1, <1>2, <1>3 DEF WorldOK, NoSignature
<1> QED  BY <1>1, <1>4, WorldStep

LEMMA UploadSignatureInv ==
    ASSUME InstallInv, NEW t \in Released, UploadSignature(t)
    PROVE  InstallInv'
<1> DEFINE s == [of |-> release[t].archive, key |-> signer]
<1>1. /\ Event /\ events' = events + 1 /\ events < MaxEvents /\ release[t].archive # 0
      /\ release' = [release EXCEPT ![t].signature = s] /\ signed' = signed \union {s}
      /\ UNCHANGED <<latest, signer, published>> /\ WorldOK
  BY DEF UploadSignature, Event, InstallInv
<1>2. events' \in 0 .. MaxEvents
  BY <1>1, InstallAssumption DEF WorldOK
<1>3. s \in Signature
  BY <1>1 DEF WorldOK, Signature
<1> HIDE DEF s
<1>4. release' \in [Released -> [archive : Builds \union {0},
                                 signature : signed' \union {NoSignature}]]
  BY <1>1 DEF WorldOK
<1>5. WorldOK'
  BY <1>1, <1>2, <1>3, <1>4 DEF WorldOK, NoSignature
<1> QED  BY <1>1, <1>5, WorldStep

LEMMA AnnounceInv ==
    ASSUME InstallInv, NEW t \in Released, Announce(t)
    PROVE  InstallInv'
<1>1. /\ Event /\ events' = events + 1 /\ events < MaxEvents /\ latest' = t
      /\ UNCHANGED <<release, signer, published, signed>> /\ WorldOK
  BY DEF Announce, Event, InstallInv
<1>2. WorldOK'
  BY <1>1, InstallAssumption DEF WorldOK, NoSignature
<1> QED  BY <1>1, <1>2, WorldStep

LEMMA ChangeKeyInv ==
    ASSUME InstallInv, NEW k \in Keys, ChangeKey(k)
    PROVE  InstallInv'
<1>1. /\ Event /\ events' = events + 1 /\ events < MaxEvents
      /\ UNCHANGED <<release, latest, signed>> /\ WorldOK
  BY DEF ChangeKey, Event, InstallInv
<1>2. signer' \in Keys /\ published' \in [primary : Keys, fallback : Keys]
  BY DEF ChangeKey, InstallInv, WorldOK
<1>3. WorldOK'
  BY <1>1, <1>2, InstallAssumption DEF WorldOK, NoSignature
<1> QED  BY <1>1, <1>3, WorldStep

-----------------------------------------------------------------------------
(***************************************************************************)
(* The commands of the script.  A command that fails leaves what has been  *)
(* fetched, and is a mishap unless the code had to refuse.                 *)
(***************************************************************************)
LEMMA WorldStays ==
    ASSUME InstallInv, UNCHANGED world
    PROVE  WorldOK' /\ signed' = signed
BY DEF InstallInv, WorldOK, world, NoSignature

LEMMA LeaveInv ==
    ASSUME InstallInv, UNCHANGED <<world, tag, tmp, place, installed>>,
           NEW from \in Commands, NEW code \in {1, 22, 130}, NEW unlucky \in BOOLEAN,
           Leave(from, code, unlucky),
           ~unlucky /\ tmp.archive # 0 /\ Verifies(tmp) => place = "absent"
    PROVE  InstallInv'
<1>1. /\ step' = "exited" /\ status' = code /\ mishap' = unlucky
      /\ UNCHANGED <<tag, tmp, place, installed>>
  BY DEF Leave
<1>2. WorldOK' /\ TmpOK'
  BY <1>1, WorldStays DEF InstallInv, TmpOK, NoSignature
<1>3. Fetched' /\ PlaceOK' /\ StatusOK'
  BY <1>1 DEF InstallInv, Fetched, PlaceOK, StatusOK, Commands, Verifies
<1>4. ExitTells'
  BY <1>1 DEF ExitTells, Verifies
<1> QED  BY <1>1, <1>2, <1>3, <1>4 DEF InstallInv

LEMMA RequireInv == InstallInv /\ Require => InstallInv'
<1> SUFFICES ASSUME InstallInv, Require PROVE InstallInv'
  OBVIOUS
<1>1. CASE Leave("require", 1, TRUE)
  BY <1>1, LeaveInv DEF Require, Commands
<1>2. CASE GoOn("require", "resolve")
  <2>1. /\ step = "require" /\ step' = "resolve"
        /\ UNCHANGED <<world, tag, tmp, place, installed, mishap, status>>
    BY <1>2 DEF GoOn, Require
  <2>2. WorldOK' /\ TmpOK'
    BY <2>1, WorldStays DEF InstallInv, TmpOK, NoSignature
  <2>3. Fetched' /\ PlaceOK' /\ StatusOK' /\ ExitTells'
    BY <2>1 DEF InstallInv, Fetched, PlaceOK, StatusOK, ExitTells, Commands, Verifies, NoSignature
  <2> QED  BY <2>1, <2>2, <2>3 DEF InstallInv, Commands
<1> QED  BY <1>1, <1>2 DEF Require

LEMMA ResolveTagInv == InstallInv /\ ResolveTag => InstallInv'
<1> SUFFICES ASSUME InstallInv, ResolveTag PROVE InstallInv'
  OBVIOUS
<1>1. CASE Leave("resolve", 1, TRUE) /\ UNCHANGED tag
  BY <1>1, LeaveInv DEF ResolveTag, Commands
<1>2. CASE /\ GoOn("resolve", "archive")
           /\ tag' = IF tag = "latest" THEN latest ELSE tag
  <2>1. /\ step = "resolve" /\ step' = "archive"
        /\ UNCHANGED <<world, tmp, place, installed, mishap, status>>
    BY <1>2 DEF GoOn, ResolveTag
  <2>2. WorldOK' /\ TmpOK'
    BY <2>1, WorldStays DEF InstallInv, TmpOK, NoSignature
  <2>3. tag' \in Released /\ tag' \in Tags
    BY <1>2 DEF InstallInv, WorldOK, Released
  <2>4. Fetched' /\ PlaceOK' /\ StatusOK' /\ ExitTells'
    BY <2>1, <2>3 DEF InstallInv, Fetched, PlaceOK, StatusOK, ExitTells, Commands, Verifies,
                      NoSignature
  <2> QED  BY <2>1, <2>2, <2>3, <2>4 DEF InstallInv, Commands
<1> QED  BY <1>1, <1>2 DEF ResolveTag

LEMMA FetchArchiveInv == InstallInv /\ FetchArchive => InstallInv'
<1> SUFFICES ASSUME InstallInv, FetchArchive PROVE InstallInv'
  OBVIOUS
<1>1. CASE Leave("archive", 22, release[tag].archive # 0) /\ UNCHANGED tmp
  <2>1. step = "archive" /\ tmp.archive = 0
    BY <1>1 DEF Leave, InstallInv, Fetched
  <2> QED  BY <1>1, <2>1, LeaveInv DEF FetchArchive, Commands
<1>2. CASE /\ GoOn("archive", "signature") /\ release[tag].archive # 0
           /\ tmp' = [tmp EXCEPT !.archive = release[tag].archive]
  <2>1. /\ step = "archive" /\ step' = "signature"
        /\ UNCHANGED <<world, tag, place, installed, mishap, status>>
    BY <1>2 DEF GoOn, FetchArchive
  <2>2. WorldOK' /\ signed' = signed
    BY <2>1, WorldStays
  <2>3. release[tag].archive \in Builds \union {0} /\ tmp \in [archive : Builds \union {0}, signature : signed \union {NoSignature}, key : Keys]
    BY <2>1 DEF InstallInv, WorldOK, Fetched, TmpOK
  <2>4. /\ TmpOK' /\ tmp'.archive # 0 /\ tmp'.signature = tmp.signature
    BY <1>2, <2>2, <2>3 DEF TmpOK, NoSignature
  <2>5. Fetched' /\ PlaceOK' /\ StatusOK' /\ ExitTells'
    BY <2>1, <2>4 DEF InstallInv, Fetched, PlaceOK, StatusOK, ExitTells, Commands, NoSignature
  <2> QED  BY <2>1, <2>2, <2>4, <2>5 DEF InstallInv, Commands
<1> QED  BY <1>1, <1>2 DEF FetchArchive

LEMMA FetchSignatureInv == InstallInv /\ FetchSignature => InstallInv'
<1> SUFFICES ASSUME InstallInv, FetchSignature PROVE InstallInv'
  OBVIOUS
<1>1. CASE Leave("signature", 22, release[tag].signature # NoSignature) /\ UNCHANGED tmp
  <2>1. step = "signature" /\ tmp.archive # 0 /\ tmp.signature = NoSignature
    BY <1>1 DEF Leave, InstallInv, Fetched
  <2>2. ~Verifies(tmp)
    BY <2>1 DEF Verifies, NoSignature
  <2> QED  BY <1>1, <2>2, LeaveInv DEF FetchSignature, Commands
<1>2. CASE /\ GoOn("signature", "key") /\ release[tag].signature # NoSignature
           /\ tmp' = [tmp EXCEPT !.signature = release[tag].signature]
  <2>1. /\ step = "signature" /\ step' = "key"
        /\ UNCHANGED <<world, tag, place, installed, mishap, status>>
    BY <1>2 DEF GoOn, FetchSignature
  <2>2. WorldOK' /\ signed' = signed
    BY <2>1, WorldStays
  <2>3. /\ release[tag].signature \in signed \union {NoSignature}
        /\ tmp \in [archive : Builds \union {0}, signature : signed \union {NoSignature}, key : Keys]
    BY <2>1 DEF InstallInv, WorldOK, Fetched, TmpOK
  <2>4. TmpOK' /\ tmp'.archive = tmp.archive
    BY <1>2, <2>2, <2>3 DEF TmpOK, NoSignature
  <2>5. Fetched' /\ PlaceOK' /\ StatusOK' /\ ExitTells'
    BY <2>1, <2>4 DEF InstallInv, Fetched, PlaceOK, StatusOK, ExitTells, Commands
  <2> QED  BY <2>1, <2>2, <2>4, <2>5 DEF InstallInv, Commands
<1> QED  BY <1>1, <1>2 DEF FetchSignature

LEMMA FetchKeyInv == InstallInv /\ FetchKey => InstallInv'
<1> SUFFICES ASSUME InstallInv, FetchKey PROVE InstallInv'
  OBVIOUS
<1>1. CASE Leave("key", 22, TRUE) /\ UNCHANGED tmp
  BY <1>1, LeaveInv DEF FetchKey, Commands
<1>2. CASE /\ GoOn("key", "verify")
           /\ \E url \in DOMAIN published : tmp' = [tmp EXCEPT !.key = published[url]]
  <2>1. /\ step = "key" /\ step' = "verify"
        /\ UNCHANGED <<world, tag, place, installed, mishap, status>>
    BY <1>2 DEF GoOn, FetchKey
  <2>2. WorldOK' /\ signed' = signed
    BY <2>1, WorldStays
  <2>3. PICK k \in Keys : tmp' = [tmp EXCEPT !.key = k]
    BY <1>2 DEF InstallInv, WorldOK
  <2>4. TmpOK' /\ tmp'.archive = tmp.archive
    <3>1. tmp \in [archive : Builds \union {0}, signature : signed \union {NoSignature}, key : Keys]
      BY DEF InstallInv, TmpOK
    <3> QED  BY <2>2, <2>3, <3>1 DEF TmpOK, NoSignature
  <2>5. Fetched' /\ PlaceOK' /\ StatusOK' /\ ExitTells'
    BY <2>1, <2>4 DEF InstallInv, Fetched, PlaceOK, StatusOK, ExitTells, Commands
  <2> QED  BY <2>1, <2>2, <2>4, <2>5 DEF InstallInv, Commands
<1> QED  BY <1>1, <1>2 DEF FetchKey

LEMMA VerifySignatureInv == InstallInv /\ VerifySignature => InstallInv'
<1> SUFFICES ASSUME InstallInv, VerifySignature PROVE InstallInv'
  OBVIOUS
<1>1. CASE Leave("verify", 1, Verifies(tmp))
  BY <1>1, LeaveInv DEF VerifySignature, Commands, Verifies
<1>2. CASE Verifies(tmp) /\ GoOn("verify", "extract")
  <2>1. /\ step = "verify" /\ step' = "extract"
        /\ UNCHANGED <<world, tag, tmp, place, installed, mishap, status>>
    BY <1>2 DEF GoOn, VerifySignature
  <2>2. WorldOK' /\ TmpOK'
    BY <2>1, WorldStays DEF InstallInv, TmpOK, NoSignature
  <2>3. Fetched' /\ PlaceOK' /\ StatusOK' /\ ExitTells'
    BY <1>2, <2>1 DEF InstallInv, Fetched, PlaceOK, StatusOK, ExitTells, Commands, Verifies
  <2> QED  BY <2>1, <2>2, <2>3 DEF InstallInv, Commands
<1> QED  BY <1>1, <1>2 DEF VerifySignature

LEMMA ExtractInv == InstallInv /\ Extract => InstallInv'
<1> SUFFICES ASSUME InstallInv, Extract PROVE InstallInv'
  OBVIOUS
<1>1. CASE Leave("extract", 1, TRUE)
  BY <1>1, LeaveInv DEF Extract, Commands
<1>2. CASE GoOn("extract", "install")
  <2>1. /\ step = "extract" /\ step' = "install"
        /\ UNCHANGED <<world, tag, tmp, place, installed, mishap, status>>
    BY <1>2 DEF GoOn, Extract
  <2>2. WorldOK' /\ TmpOK'
    BY <2>1, WorldStays DEF InstallInv, TmpOK, NoSignature
  <2>3. Fetched' /\ PlaceOK' /\ StatusOK' /\ ExitTells'
    BY <1>2, <2>1 DEF InstallInv, Fetched, PlaceOK, StatusOK, ExitTells, Commands, Verifies
  <2> QED  BY <2>1, <2>2, <2>3 DEF InstallInv, Commands
<1> QED  BY <1>1, <1>2 DEF Extract

\* From the installation on, a part of the binary may be left at the place.
LEMMA LeaveInstalling ==
    ASSUME InstallInv, UNCHANGED <<world, tag, tmp, place>>,
           NEW code \in {1, 130}, NEW unlucky \in BOOLEAN,
           Leave("install", code, unlucky), unlucky \/ place = "absent",
           installed' \in {installed, Partial}
    PROVE  InstallInv'
<1>1. /\ step = "install" /\ step' = "exited" /\ status' = code /\ mishap' = unlucky
      /\ UNCHANGED <<tag, tmp, place>>
  BY DEF Leave
<1>2. WorldOK' /\ TmpOK'
  BY <1>1, WorldStays DEF InstallInv, TmpOK, NoSignature
<1>3. Verifies(tmp) /\ tmp.archive # 0
  BY <1>1 DEF InstallInv, Fetched
<1>4. Fetched' /\ PlaceOK' /\ StatusOK' /\ ExitTells'
  BY <1>1, <1>3 DEF InstallInv, Fetched, PlaceOK, StatusOK, ExitTells, Commands, Verifies
<1> QED  BY <1>1, <1>2, <1>4 DEF InstallInv

LEMMA InstallBinaryInv == InstallInv /\ InstallBinary => InstallInv'
<1> SUFFICES ASSUME InstallInv, InstallBinary PROVE InstallInv'
  OBVIOUS
<1>1. CASE /\ Leave("install", 1, HasDirectory(place))
           /\ installed' \in {installed} \union
                  (IF HasDirectory(place) THEN {Partial} ELSE {})
  BY <1>1, LeaveInstalling DEF InstallBinary, HasDirectory
<1>2. CASE GoOn("install", "version") /\ installed' = tmp.archive
  <2>1. /\ step = "install" /\ step' = "version"
        /\ UNCHANGED <<world, tag, tmp, place, mishap, status>>
    BY <1>2 DEF GoOn, InstallBinary
  <2>2. WorldOK' /\ TmpOK'
    BY <2>1, WorldStays DEF InstallInv, TmpOK, NoSignature
  <2>3. Verifies(tmp) /\ tmp.archive # 0
    BY <2>1 DEF InstallInv, Fetched
  <2>4. Fetched' /\ PlaceOK' /\ StatusOK' /\ ExitTells'
    BY <1>2, <2>1, <2>3
    DEF InstallInv, Fetched, PlaceOK, StatusOK, ExitTells, Commands, Verifies
  <2> QED  BY <2>1, <2>2, <2>4 DEF InstallInv, Commands
<1> QED  BY <1>1, <1>2 DEF InstallBinary

LEMMA RunVersionInv == InstallInv /\ RunVersion => InstallInv'
<1> SUFFICES ASSUME InstallInv, RunVersion PROVE InstallInv'
  OBVIOUS
<1>1. CASE Leave("version", 1, TRUE)
  BY <1>1, LeaveInv DEF RunVersion, Commands
<1>2. CASE Leave("version", 0, FALSE)
  <2>1. /\ step = "version" /\ step' = "exited" /\ status' = 0 /\ mishap' = FALSE
        /\ UNCHANGED <<world, tag, tmp, place, installed>>
    BY <1>2 DEF Leave, RunVersion
  <2>2. WorldOK' /\ TmpOK'
    BY <2>1, WorldStays DEF InstallInv, TmpOK, NoSignature
  <2>3. Fetched' /\ PlaceOK' /\ StatusOK' /\ ExitTells'
    BY <2>1 DEF InstallInv, Fetched, PlaceOK, StatusOK, ExitTells, Commands, Verifies
  <2> QED  BY <2>1, <2>2, <2>3 DEF InstallInv, Commands
<1> QED  BY <1>1, <1>2 DEF RunVersion

LEMMA InterruptInv == InstallInv /\ Interrupt => InstallInv'
<1> SUFFICES ASSUME InstallInv, Interrupt PROVE InstallInv'
  OBVIOUS
<1>1. /\ step # "exited" /\ Leave(step, 130, TRUE) /\ step \in Commands
      /\ UNCHANGED <<world, tag, tmp, place>>
  BY DEF Interrupt, InstallInv
<1>2. CASE step = "install"
  BY <1>1, <1>2, LeaveInstalling DEF Interrupt
<1>3. CASE step # "install"
  <2>1. installed' = installed
    BY <1>3 DEF Interrupt
  <2> QED  BY <1>1, <2>1, LeaveInv
<1> QED  BY <1>2, <1>3

LEMMA ScriptStepInv == InstallInv /\ ScriptStep => InstallInv'
BY RequireInv, ResolveTagInv, FetchArchiveInv, FetchSignatureInv, FetchKeyInv,
   VerifySignatureInv, ExtractInv, InstallBinaryInv, RunVersionInv, InterruptInv
   DEF ScriptStep

LEMMA InstallStutterInv == InstallInv /\ UNCHANGED installVars => InstallInv'
<1> SUFFICES ASSUME InstallInv, UNCHANGED installVars PROVE InstallInv'
  OBVIOUS
<1>1. UNCHANGED <<world, step, tag, tmp, place, installed, mishap, status>>
  BY DEF installVars, script
<1>2. WorldOK' /\ TmpOK'
  BY <1>1, WorldStays DEF InstallInv, TmpOK, NoSignature
<1>3. Fetched' /\ PlaceOK' /\ StatusOK' /\ ExitTells'
  BY <1>1 DEF InstallInv, Fetched, PlaceOK, StatusOK, ExitTells, Verifies, NoSignature
<1> QED  BY <1>1, <1>2, <1>3 DEF InstallInv

\* The invariant holds throughout every run of the script.
THEOREM InstallInvariance == InstallSpec => []InstallInv
<1>1. InstallInv /\ [InstallNext]_installVars => InstallInv'
  BY ScriptStepInv, UploadArchiveInv, UploadSignatureInv, AnnounceInv, ChangeKeyInv,
     InstallStutterInv DEF InstallNext
<1> QED  BY <1>1, InstallInitInv, PTL DEF InstallSpec

-----------------------------------------------------------------------------
(***************************************************************************)
(* The releases and the script's variables keep their types: every archive *)
(* is one that was uploaded, every signature one that was made             *)
(* (install.sh:71-141).                                                    *)
(***************************************************************************)
THEOREM InstallTypeCorrect == InstallSpec => []InstallTypeOK
<1>1. InstallInv => InstallTypeOK
  <2> SUFFICES ASSUME InstallInv PROVE InstallTypeOK
    OBVIOUS
  <2>1. \A t \in Released : /\ release[t].archive \in Builds \union {0}
                            /\ release[t].signature \in signed \union {NoSignature}
    BY DEF InstallInv, WorldOK
  <2>2. tmp.archive \in Builds \union {0} /\ tmp.key \in Keys
    BY DEF InstallInv, TmpOK
  <2>3. installed \in Builds \union {Old, Partial}
    BY <2>2 DEF InstallInv, PlaceOK, Old
  <2>4. status \in {0, 1, 22, 130, 255}
    BY DEF InstallInv, StatusOK
  <2> QED  BY <2>1, <2>2, <2>3, <2>4 DEF InstallInv, WorldOK, InstallTypeOK
<1> QED  BY <1>1, InstallInvariance, PTL

(***************************************************************************)
(* No binary is touched before its archive's signature has been verified   *)
(* (install.sh:17-21), however the releases and the keys change between    *)
(* the downloads.                                                          *)
(***************************************************************************)
THEOREM SignedIsInstalled == InstallSpec => []OnlySignedIsInstalled
<1>1. InstallInv => OnlySignedIsInstalled
  BY VerifiedIsSigned DEF InstallInv, PlaceOK, OnlySignedIsInstalled
<1> QED  BY <1>1, InstallInvariance, PTL

(***************************************************************************)
(* An exit code of 0 means that the binary of the archive is in place, and *)
(* a script that nothing interfered with installs whatever fits together   *)
(* (install.sh, set -e).                                                   *)
(***************************************************************************)
THEOREM ExitIsTrue == InstallSpec => []ExitTells
<1>1. InstallInv => ExitTells
  BY DEF InstallInv
<1> QED  BY <1>1, InstallInvariance, PTL
===============================================================================
