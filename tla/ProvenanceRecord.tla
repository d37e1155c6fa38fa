-------------------------- MODULE ProvenanceRecord --------------------------
(***************************************************************************)
(* The provenance record of internal/provenance/record.go and the hashes   *)
(* that bind it.                                                           *)
(*                                                                         *)
(* A digest is a term: it names what was hashed, so that two digests are   *)
(* equal exactly when their inputs are.  chain_hash digests the            *)
(* concatenation previous_chain_hash + id; a term keeps the two apart,     *)
(* which is what the code gets from both being 64 characters long in every *)
(* record that passes the linkage checks.                                  *)
(*                                                                         *)
(* `body' stands for the payload fields no check looks into: timestamp,    *)
(* type, the file lists, the prompt, model and response hashes, metadata,  *)
(* tenant_id.  The excluded fields fact_hashes_* and merkle_root are left  *)
(* out: neither a digest nor a check reads them.                           *)
(***************************************************************************)
EXTENDS Integers

CONSTANTS
    Genesis,        \* GenesisChainHash, the 64 zeros before the first record
    Nil,            \* Go's nil: a JSON null, an absent field, no key
    NullText,       \* the string "null", which derefOrNull returns for nil
    Texts,          \* every id, chain_hash, hmac and previous_* a record holds
    Bodies,         \* the values of the remaining payload fields
    KeyIds,         \* the key_id values of records and of key bundles
    MinInt, MaxInt  \* the range of Go's int

ASSUME RecordAssumption ==
    /\ MinInt \in Int /\ MaxInt \in Int
    /\ MinInt < 0 /\ 1 < MaxInt
    /\ Nil \notin Texts /\ Nil \notin KeyIds /\ Nil \notin MinInt .. MaxInt
    /\ Genesis \in Texts /\ NullText \in Texts

Numbers == MinInt .. MaxInt

\* Record, less Raw.  hmac and key_id are independent pointers.
Record ==
    [seq                 : Numbers,
     body                : Bodies,
     previous_id         : Texts \union {Nil},
     previous_chain_hash : Texts,
     id                  : Texts,
     chain_hash          : Texts,
     hmac                : Texts \union {Nil},
     key_id              : KeyIds \union {Nil}]

-----------------------------------------------------------------------------
\* CanonicalPayload: Raw without id, chain_hash, hmac, key_id.
CanonicalPayload(r) ==
    [seq                 |-> r.seq,
     body                |-> r.body,
     previous_id         |-> r.previous_id,
     previous_chain_hash |-> r.previous_chain_hash]

\* SHA256Hex of a canonical payload.
IdOf(payload) == <<"id", payload>>

\* SHA256HexString(previous_chain_hash + id).
ChainHashOf(previous, id) == <<"chain", previous, id>>

\* HMAC-SHA256 over HMACInput, the text id|chain_hash.
MacOf(key, id, chainHash) == <<"mac", key, id, chainHash>>

\* derefOrNull: a nil pointer and the string "null" become the same text.
DerefOrNull(p) == IF p = Nil THEN NullText ELSE p

\* The int that `n + 1' yields in Go.
UnboundedSuccessor(n) == n + 1      \* mutant: no wrap-around
Successor(n) == IF n = MaxInt THEN MinInt ELSE n + 1
=============================================================================
