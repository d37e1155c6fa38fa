--------------------------- MODULE MCCanonicalJSON ---------------------------
(***************************************************************************)
(* Values of depth at most two: texts that look like JSON, numbers at the  *)
(* edges of each spelling, arrays and objects of them.                     *)
(***************************************************************************)
EXTENDS CanonicalJSON

\* In the order of their bytes.
SomeBytes ==
    Controls \o <<"QUOTE", "COMMA", "0", "1", "COLON", "LBRACKET", "BACKSLASH", "RBRACKET",
                  "a", "f", "l", "n", "u", "LBRACE", "RBRACE">>

Str(chars) == [kind |-> "string", of |-> chars]
Texts ==
    {<<>>, <<"a">>, <<"QUOTE">>, <<"BACKSLASH">>, <<"BACKSLASH", "n">>, <<"SOH", "f">>,
     <<"n", "u", "l", "l">>, <<"a", "QUOTE", "COMMA", "QUOTE", "a">>}
    \union {<<char>> : char \in Range(Controls)}

Number(value, integral, exp, bare, point, exponent) ==
    [value |-> value, finite |-> TRUE, integral |-> integral, exp |-> exp,
     text |-> [bare |-> bare, point |-> point, exponent |-> exponent]]
NotFinite ==
    [value |-> "NaN", finite |-> FALSE, integral |-> FALSE, exp |-> 0,
     text |-> [bare |-> <<>>, point |-> <<>>, exponent |-> <<>>]]

Zeros(n) == [k \in 1 .. n |-> "0"]

One == Number("1", TRUE, 0, <<"1">>, <<"1", "DOT", "0">>, <<"1", "e", "PLUS", "0", "0">>)
Eleven == Number("11", TRUE, 1, <<"1", "1">>, <<"1", "1", "DOT", "0">>,
                 <<"1", "DOT", "1", "e", "PLUS", "0", "1">>)
Million == Number("1e6", TRUE, 6, <<"1">> \o Zeros(6), <<"1">> \o Zeros(6) \o <<"DOT", "0">>,
                  <<"1", "e", "PLUS", "0", "6">>)
Large == Number("1e15", TRUE, 15, <<"1">> \o Zeros(15), <<"1">> \o Zeros(15) \o <<"DOT", "0">>,
                <<"1", "e", "PLUS", "1", "5">>)
Half == Number("0.5", FALSE, -1, <<>>, <<"0", "DOT", "5">>, <<"5", "e", "MINUS", "0", "1">>)
Fraction == Number("1000000.5", FALSE, 6, <<>>, <<"1">> \o Zeros(6) \o <<"DOT", "5">>,
                   <<"1", "DOT">> \o Zeros(6) \o <<"5", "e", "PLUS", "0", "6">>)
Small == Number("0.00001", FALSE, -5, <<>>, <<"0", "DOT">> \o Zeros(4) \o <<"1">>,
                <<"1", "e", "MINUS", "0", "5">>)

Read(n, style) == [kind |-> "jsonNumber", of |-> n, style |-> style]
SomeNumbers ==
    {[kind |-> "float64", of |-> n] : n \in {One, Million, Large, Half, Fraction, Small, NotFinite}}
    \union {Read(n, "bare") : n \in {One, Eleven, Million, Large}}
    \union {Read(n, "point") : n \in {One, Half, Fraction, Small}}
    \union {Read(n, "exponent") : n \in {Million, Large}}
    \union {[kind |-> "int", of |-> One]}

A == <<"a">>
QuoteA == <<"QUOTE", "a">>

Atoms ==
    {Str(s) : s \in Texts \union {QuoteA}} \union SomeNumbers \union
    {[kind |-> "null"], [kind |-> "foreign"]} \union
    {[kind |-> "bool", of |-> b] : b \in BOOLEAN}

Few == {Str(<<"a">>), Str(<<"QUOTE">>), Read(One, "bare"), [kind |-> "float64", of |-> One]}

Flat ==
    {[kind |-> "anys", of |-> s] : s \in BoundedSeq(Few, 2)} \union
    {[kind |-> "strings", of |-> s] : s \in BoundedSeq({A, <<"QUOTE">>}, 2)} \union
    {[kind |-> "anyMap", of |-> m] :
        m \in UNION {[keys -> Few] : keys \in SUBSET {A, QuoteA}}} \union
    {[kind |-> "anyMap", of |-> [k \in {A, QuoteA} |-> Str(k)]]} \union
    {[kind |-> "stringMap", of |-> m] : m \in [{A, QuoteA, <<>>} -> {A}]}

Nested ==
    {[kind |-> "anys", of |-> <<v>>] : v \in
        {[kind |-> "anys", of |-> <<>>], [kind |-> "foreign"], Read(Eleven, "bare"),
         Str(<<"a", "QUOTE", "COMMA", "QUOTE", "a">>),
         [kind |-> "anyMap", of |-> [k \in {A, QuoteA} |-> Str(k)]]}}
    \union {[kind |-> "anyMap", of |-> [k \in {A} |-> v]] :
        v \in {[kind |-> "strings", of |-> <<A, A>>], [kind |-> "float64", of |-> NotFinite]}}

SomeValues == Atoms \union Flat \union Nested

height[v \in SomeValues] ==
    IF Items(v) = {} THEN 0 ELSE 1 + Max({height[u] : u \in Items(v)})
===============================================================================
