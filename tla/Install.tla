------------------------------- MODULE Install -------------------------------
(***************************************************************************)
(* scripts/install.sh: fetch an archive, its signature and the public key, *)
(* one after another, check them with cosign, install the binary.  The     *)
(* releases change meanwhile, any command may fail -- set -e ends the      *)
(* script then -- and the script may be interrupted.                       *)
(***************************************************************************)
EXTENDS Naturals

CONSTANTS
    Tags,           \* the tags of releases, and "latest"
    FirstTag,       \* the release that is complete when the script starts
    Keys,           \* cosign key pairs
    FirstKey,       \* the one in use when the script starts
    MaxEvents       \* bound on what happens to the releases meanwhile

ASSUME InstallAssumption ==
    /\ FirstTag \in Tags \ {"latest"} /\ FirstKey \in Keys
    /\ MaxEvents \in Nat

Released == Tags \ {"latest"}
Old == 0                            \* the binary installed before, or none
Partial == MaxEvents + 2            \* a binary copied in part
Builds == 1 .. MaxEvents + 1        \* every upload of an archive is a build

\* A signature is over a build, by a key.  Build 0 is no archive at all.
NoSignature == [of |-> 0, key |-> FirstKey]

VARIABLES
    release,    \* the archive and the signature at each tag's URLs
    latest,     \* the tag that the GitHub API calls the latest
    signer,     \* the key that releases are signed with now
    published,  \* the public key at the primary URL and at the fallback
    signed,     \* every signature made
    events,     \* how much of this has happened
    step,       \* the next command of the script
    tag,        \* TAG
    tmp,        \* what was fetched into tmpdir
    place,      \* where the binary can go
    installed,  \* the binary at that place
    mishap,     \* a command failed that could have succeeded
    status      \* the exit code, 255 while running

world == <<release, latest, signer, published, signed, events>>
script == <<step, tag, tmp, place, installed, mishap, status>>
installVars == <<world, script>>

\* /usr/local/bin writable; absent in a writable /usr/local; writable with
\* sudo; none of these, which leaves $HOME/.local/bin.
Places == {"writable", "absent", "sudo", "home"}

InstallInit ==
    /\ LET first == [of |-> 1, key |-> FirstKey]
       IN  /\ release = [t \in Released |->
                            IF t = FirstTag THEN [archive |-> 1, signature |-> first]
                            ELSE [archive |-> 0, signature |-> NoSignature]]
           /\ signed = {first}
    /\ latest = FirstTag /\ signer = FirstKey /\ events = 0
    /\ published = [primary |-> FirstKey, fallback |-> FirstKey]
    /\ step = "require" /\ tag \in Tags
    /\ tmp = [archive |-> 0, signature |-> NoSignature, key |-> FirstKey]
    /\ place \in Places /\ installed = Old
    /\ mishap = FALSE /\ status = 255

-----------------------------------------------------------------------------
\* The releases.  An archive and its signature are uploaded one by one; a new
\* key is used, and published at each URL, in any order.
Event ==
    /\ events < MaxEvents /\ status = 255
    /\ events' = events + 1
    /\ UNCHANGED script

UploadArchive(t) ==
    /\ Event
    /\ release' = [release EXCEPT ![t].archive = events + 2]
    /\ UNCHANGED <<latest, signer, published, signed>>

UploadSignature(t) ==
    /\ Event
    /\ release[t].archive # 0
    /\ LET s == [of |-> release[t].archive, key |-> signer]
       IN  release' = [release EXCEPT ![t].signature = s] /\ signed' = signed \union {s}
    /\ UNCHANGED <<latest, signer, published>>

Announce(t) ==
    /\ Event
    /\ latest' = t
    /\ UNCHANGED <<release, signer, published, signed>>

ChangeKey(k) ==
    /\ Event
    /\ \/ signer' = k /\ UNCHANGED published
       \/ \E url \in DOMAIN published :
             published' = [published EXCEPT ![url] = k] /\ UNCHANGED signer
    /\ UNCHANGED <<release, latest, signed>>

-----------------------------------------------------------------------------
GoOn(from, to) == step = from /\ step' = to /\ UNCHANGED <<mishap, status>>

\* set -e, or an exit of the script's own.
Leave(from, code, unlucky) ==
    /\ step = from /\ step' = "exited"
    /\ status' = code /\ mishap' = unlucky

Require ==
    /\ GoOn("require", "resolve") \/ Leave("require", 1, TRUE)
    /\ UNCHANGED <<world, tag, tmp, place, installed>>

EmptyTag ==                 \* mutant: nothing taken for a tag
    /\ GoOn("resolve", "archive")
    /\ tag' \in IF tag = "latest" THEN {latest, ""} ELSE {tag}
    /\ UNCHANGED <<world, tmp, place, installed>>

\* The pipeline yields a tag or nothing; mktemp and cd may fail.
ResolveTag ==
    /\ \/ GoOn("resolve", "archive") /\ tag' = IF tag = "latest" THEN latest ELSE tag
       \/ Leave("resolve", 1, TRUE) /\ UNCHANGED tag
    /\ UNCHANGED <<world, tmp, place, installed>>

\* curl -f fails if there is nothing at the URL.
FetchArchive ==
    /\ \/ /\ GoOn("archive", "signature") /\ release[tag].archive # 0
          /\ tmp' = [tmp EXCEPT !.archive = release[tag].archive]
       \/ Leave("archive", 22, release[tag].archive # 0) /\ UNCHANGED tmp
    /\ UNCHANGED <<world, tag, place, installed>>

FetchSignature ==
    /\ \/ /\ GoOn("signature", "key") /\ release[tag].signature # NoSignature
          /\ tmp' = [tmp EXCEPT !.signature = release[tag].signature]
       \/ Leave("signature", 22, release[tag].signature # NoSignature) /\ UNCHANGED tmp
    /\ UNCHANGED <<world, tag, place, installed>>

\* The fallback is asked when the primary URL fails.
FetchKey ==
    /\ \/ /\ GoOn("key", "verify")
          /\ \E url \in DOMAIN published : tmp' = [tmp EXCEPT !.key = published[url]]
       \/ Leave("key", 22, TRUE) /\ UNCHANGED tmp
    /\ UNCHANGED <<world, tag, place, installed>>

AnySignature(files) == files.signature # NoSignature  \* mutant: any signature will do
Verifies(files) == files.signature = [of |-> files.archive, key |-> files.key]

VerifySignature ==
    /\ \/ Verifies(tmp) /\ GoOn("verify", "extract")
       \/ Leave("verify", 1, Verifies(tmp))
    /\ UNCHANGED <<world, tag, tmp, place, installed>>

\* tar fails, or the archive has no wotw-verify in it.
Extract ==
    /\ GoOn("extract", "install") \/ Leave("extract", 1, TRUE)
    /\ UNCHANGED <<world, tag, tmp, place, installed>>

NoMkdir(p) == p \in {"writable", "sudo"}        \* mutant: mkdir -p forgotten
\* $HOME/.local/bin is made if need be, /usr/local/bin is not.
HasDirectory(p) == p # "absent"

\* install replaces what is there, and leaves a part of it if it fails midway.
InstallBinary ==
    /\ \/ /\ HasDirectory(place) /\ GoOn("install", "version")
          /\ installed' = tmp.archive
       \/ /\ Leave("install", 1, HasDirectory(place))
          /\ installed' \in {installed} \union (IF HasDirectory(place) THEN {Partial} ELSE {})
    /\ UNCHANGED <<world, tag, tmp, place>>

RunVersion ==
    /\ Leave("version", 0, FALSE) \/ Leave("version", 1, TRUE)
    /\ UNCHANGED <<world, tag, tmp, place, installed>>

Interrupt ==
    /\ step # "exited" /\ Leave(step, 130, TRUE)
    /\ installed' \in IF step = "install" /\ HasDirectory(place) THEN {installed, Partial}
                                                                 ELSE {installed}
    /\ UNCHANGED <<world, tag, tmp, place>>

ScriptStep ==
    \/ Require \/ ResolveTag \/ FetchArchive \/ FetchSignature \/ FetchKey
    \/ VerifySignature \/ Extract \/ InstallBinary \/ RunVersion \/ Interrupt

InstallNext ==
    \/ ScriptStep
    \/ \E t \in Released : UploadArchive(t) \/ UploadSignature(t) \/ Announce(t)
    \/ \E k \in Keys : ChangeKey(k)

InstallSpec == InstallInit /\ [][InstallNext]_installVars

-----------------------------------------------------------------------------
\* The releases and the variables of the script have their types.
InstallTypeOK ==
    /\ \A t \in Released : /\ release[t].archive \in Builds \union {0}
                           /\ release[t].signature \in signed \union {NoSignature}
    /\ latest \in Released /\ tag \in Tags
    /\ tmp.archive \in Builds \union {0} /\ tmp.key \in Keys
    /\ installed \in Builds \union {Old, Partial}
    /\ status \in {0, 1, 22, 130, 255}

(***************************************************************************)
(* install.sh:17-20: the binary that was there before is not touched       *)
(* before an archive has been found to be signed, and what replaces it is  *)
(* that archive's binary, however the releases changed while it was        *)
(* fetched.                                                                *)
(***************************************************************************)
OnlySignedIsInstalled ==
    installed # Old =>
        /\ [of |-> tmp.archive, key |-> tmp.key] \in signed
        /\ installed \in {tmp.archive, Partial}

(***************************************************************************)
(* The exit code tells: 0 only if a signed binary is in place and runs.  A *)
(* script that nothing interfered with ends otherwise only for what does   *)
(* not fit together, or was not there -- or a /usr/local without its bin.  *)
(***************************************************************************)
ExitTells ==
    step = "exited" =>
        /\ status = 0 => installed = tmp.archive /\ tmp.archive # 0
        /\ (~mishap /\ tmp.archive # 0 /\ Verifies(tmp) /\ place # "absent") => status = 0
===============================================================================
