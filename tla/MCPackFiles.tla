------------------------------ MODULE MCPackFiles ------------------------------
(***************************************************************************)
(* Small instances of PackFiles: every archive of at most three entries    *)
(* out of twelve, every directory with or without each of the files, and   *)
(* a few packs to replace them with.                                       *)
(***************************************************************************)
EXTENDS PackFiles

CONSTANTS p, q

Lowest == -4

E(dir, name, content) == [dir |-> dir, name |-> name, content |-> content]

Pool ==
    {E(<<>>, "manifest.json", "ok"), E(<<>>, "manifest.json", "unsupported"),
     E(<<p>>, "manifest.json", "ok"), E(<<p>>, "manifest.json", "unparsable"),
     E(<<p, q>>, "manifest.json", "ok"),
     E(<<>>, "chain.jsonl", "ok"), E(<<p>>, "chain.jsonl", "ok"),
     E(<<p>>, "chain.jsonl", "unparsable"), E(<<p, q>>, "chain.jsonl", "ok"),
     E(<<>>, "keys.json", "ok"), E(<<p>>, "keys.json", "ok"),
     E(<<p>>, "keys.json", "unparsable")}

Archives == {[kind |-> "archive", entries |-> e] : e \in BoundedSeq(Pool, 3)}

Kept(name, contents) == {<<>>} \union {<<E(<<>>, name, c)>> : c \in contents}

Directories ==
    {[kind |-> "directory", entries |-> m \o c \o k] :
        m \in Kept("manifest.json", {"ok", "unsupported", "unparsable"}),
        c \in Kept("chain.jsonl", {"ok", "unparsable"}),
        k \in Kept("keys.json", {"ok", "unparsable"})}

Nowhere == [kind |-> "nothing", entries |-> <<>>]
NoPack == [kind |-> "other", entries |-> <<>>]

AllSites == Archives \union Directories \union {Nowhere, NoPack}

\* A pack of either kind with everything, one without keys, and none at all.
OtherSites ==
    {Nowhere,
     [kind |-> "directory", entries |-> <<E(<<>>, "manifest.json", "ok"),
        E(<<>>, "chain.jsonl", "ok"), E(<<>>, "keys.json", "ok")>>],
     [kind |-> "directory", entries |-> <<E(<<>>, "manifest.json", "ok"),
        E(<<>>, "chain.jsonl", "unparsable")>>],
     [kind |-> "archive", entries |-> <<E(<<p>>, "manifest.json", "ok"),
        E(<<p>>, "chain.jsonl", "ok"), E(<<p>>, "keys.json", "ok")>>]}
================================================================================
