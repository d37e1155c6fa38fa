------------------------------- MODULE PackFiles -------------------------------
(***************************************************************************)
(* How verify.Pack gets at a pack's files: Open, ChainJSONL, KeysJSON and  *)
(* Close of internal/pack/pack.go, with the calls and the deferred calls   *)
(* of Pack around them.                                                    *)
(*                                                                         *)
(* In a directory the files are looked for first and opened later, by      *)
(* path; in an archive everything goes through one handle.  Meanwhile      *)
(* whoever owns the path may put another pack there, and the operating     *)
(* system may refuse any call.                                             *)
(***************************************************************************)
EXTENDS CompliancePack, FiniteSetsExt, SequencesExt

CONSTANTS
    Dirs,               \* directory names inside an archive
    Sites,              \* what may be at the path when Pack is called
    Replacements,       \* what may be put there later
    MaxReplacements     \* bound on how often

\* An entry of a directory or of an archive: where it is, its name, and what its
\* reader makes of its content: ok, unsupported (a manifest) or unparsable.  An
\* unparsable entry of an archive need not even open, or be read to its end.
Names == {"manifest.json", "chain.jsonl", "keys.json", "other"}

SitesAreTyped(S) ==
    \A s \in S :
        /\ s.kind \in {"nothing", "directory", "archive", "other"}
        /\ s.kind \in {"nothing", "other"} => s.entries = <<>>
        /\ DOMAIN s.entries = 1 .. Len(s.entries) /\ Len(s.entries) \in Nat
        /\ \A n \in DOMAIN s.entries :
              /\ s.entries[n].dir \in Seq(Dirs) /\ s.entries[n].name \in Names
              /\ s.entries[n].content \in {"ok", "unsupported", "unparsable"}

ASSUME PackFilesAssumption ==
    /\ SitesAreTyped(Sites) /\ SitesAreTyped(Replacements) /\ MaxReplacements \in Nat
    /\ \A s \in Sites \union Replacements, n \in 0 .. MaxReplacements :
          [entries |-> s.entries, number |-> n] # Nil

VARIABLES
    site,       \* what is at the path
    replaced,   \* how often it has been replaced
    at,         \* the next call of Pack
    archive,    \* what the zip handle is on, else Nil
    found,      \* the Pack value: the prefix, and the files it has
    opened,     \* the file just opened
    handles,    \* the open handles
    defers,     \* the deferred calls of Close, oldest first
    sources,    \* the files read, and where they came from
    refused,    \* the operating system refused a call
    verdict     \* malformed, or judged by the walk

pathVars == <<site, replaced>>
vars == <<pathVars, at, archive, found, opened, handles, defers, sources,
          refused, verdict>>

Init ==
    /\ site \in Sites /\ replaced = 0
    /\ at = "stat" /\ archive = Nil /\ opened = Nil
    /\ found = [prefix |-> <<>>, files |-> {}]
    /\ handles = {} /\ defers = <<>> /\ sources = <<>>
    /\ refused = FALSE /\ verdict = "none"

-----------------------------------------------------------------------------
Reopened ==                 \* mutant: the archive opened anew for each file
    [entries |-> site.entries, number |-> replaced]

\* What the accessors read from: the archive, or what the directory is by now.
Here ==
    IF archive # Nil THEN archive
    ELSE [entries |-> IF site.kind = "directory" THEN site.entries ELSE <<>>,
          number  |-> replaced]

Named(entries, dir, name) ==
    {n \in DOMAIN entries : entries[n].dir = dir /\ entries[n].name = name}

Has(entries, dir, name) == Named(entries, dir, name) # {}
Content(entries, dir, name) == entries[Min(Named(entries, dir, name))].content

From(name) == [name |-> name, number |-> Here.number, prefix |-> found.prefix]

\* An error return: the pack is bad, or the operating system refused it.
Abandon(bad) ==
    /\ verdict' = "malformed" /\ at' = "returning"
    /\ refused' = (refused \/ ~bad)

GoOn(step) == at' = step /\ UNCHANGED <<verdict, refused>>

-----------------------------------------------------------------------------
\* Open.
Stat ==
    /\ at = "stat"
    /\ \/ site.kind = "directory" /\ GoOn("manifest")
       \/ site.kind \in {"archive", "other"} /\ GoOn("archive")
       \/ Abandon(site.kind = "nothing")
    /\ UNCHANGED <<pathVars, archive, found, opened, handles, defers, sources>>

\* openDir: read and judge the manifest.
ReadManifest ==
    /\ at = "manifest"
    /\ LET ok == /\ Has(Here.entries, <<>>, "manifest.json")
                 /\ Content(Here.entries, <<>>, "manifest.json") = "ok"
       IN  \/ ok /\ GoOn("look for chain") /\ sources' = <<From("manifest.json")>>
           \/ Abandon(~ok) /\ UNCHANGED sources
    /\ UNCHANGED <<pathVars, archive, found, opened, handles, defers>>

\* fileExists takes every error for absence.
LookFor(name) ==
    LET there == Has(Here.entries, <<>>, name)
    IN  \/ /\ found' = IF there THEN [found EXCEPT !.files = @ \union {name}] ELSE found
           /\ UNCHANGED refused
        \/ there /\ refused' = TRUE /\ UNCHANGED found

LookForChain ==
    /\ at = "look for chain" /\ LookFor("chain.jsonl") /\ at' = "look for keys"
    /\ UNCHANGED <<pathVars, archive, opened, handles, defers, sources, verdict>>

LookForKeys ==
    /\ at = "look for keys" /\ LookFor("keys.json")
    /\ IF "chain.jsonl" \in found.files
         THEN at' = "open chain" /\ UNCHANGED verdict
         ELSE at' = "returning" /\ verdict' = "malformed"
    /\ UNCHANGED <<pathVars, archive, opened, handles, defers, sources>>

\* openZip: by now the path may hold something else than Stat saw.
OpenArchive ==
    /\ at = "archive"
    /\ \/ /\ site.kind = "archive" /\ GoOn("find manifest")
          /\ archive' = [entries |-> site.entries, number |-> replaced]
          /\ handles' = {"zip"}
       \/ Abandon(site.kind # "archive") /\ UNCHANGED <<archive, handles>>
    /\ UNCHANGED <<pathVars, found, opened, defers, sources>>

Manifests == {n \in DOMAIN archive.entries : archive.entries[n].name = "manifest.json"}

LastManifest == Max(Manifests)      \* mutant: the loop without its break
FirstManifest == Min(Manifests)

WholeName(n) ==                     \* mutant: TrimSuffix lost
    Append(archive.entries[n].dir, archive.entries[n].name)
PrefixOf(n) == archive.entries[n].dir

\* The first manifest in the archive decides where the pack is in it.  Without
\* one there is no pack, and openZip closes the archive before it returns ...
FindManifest ==
    /\ at = "find manifest"
    /\ \/ /\ Manifests # {} /\ GoOn("open manifest")
          /\ found' = [found EXCEPT !.prefix = PrefixOf(FirstManifest)]
          /\ UNCHANGED handles
       \/ /\ Manifests = {} /\ Abandon(TRUE)
          /\ handles' = handles \ {"zip"}
          /\ UNCHANGED found
    /\ UNCHANGED <<pathVars, archive, opened, defers, sources>>

ManifestContent == archive.entries[FirstManifest].content

\* ... as it does by itself on each error return from here on.
OpenArchiveManifest ==
    /\ at = "open manifest"
    /\ \/ GoOn("read manifest") /\ handles' = handles \union {"manifest"}
       \/ Abandon(ManifestContent = "unparsable") /\ handles' = handles \ {"zip"}
    /\ UNCHANGED <<pathVars, archive, found, opened, defers, sources>>

\* The manifest's own handle is closed before the error is looked at.
ReadArchiveManifest ==
    /\ at = "read manifest"
    /\ \/ /\ GoOn("parse manifest")
          /\ sources' = <<From("manifest.json")>>
          /\ handles' = handles \ {"manifest"}
       \/ /\ Abandon(ManifestContent = "unparsable")
          /\ handles' = handles \ {"manifest", "zip"}
          /\ UNCHANGED sources
    /\ UNCHANGED <<pathVars, archive, found, opened, defers>>

ParseArchiveManifest ==
    /\ at = "parse manifest"
    /\ \/ /\ ManifestContent # "unparsable" /\ GoOn("check version")
          /\ UNCHANGED handles
       \/ /\ ManifestContent = "unparsable" /\ Abandon(TRUE)
          /\ handles' = handles \ {"zip"}
    /\ UNCHANGED <<pathVars, archive, found, opened, defers, sources>>

VersionCheckLeaks ==        \* mutant: this return without its zr.Close
    /\ at = "check version"
    /\ \/ ManifestContent # "unsupported" /\ GoOn("entries")
       \/ ManifestContent = "unsupported" /\ Abandon(TRUE)
    /\ UNCHANGED <<pathVars, archive, found, opened, handles, defers, sources>>

CheckArchiveVersion ==
    /\ at = "check version"
    /\ \/ /\ ManifestContent # "unsupported" /\ GoOn("entries")
          /\ UNCHANGED handles
       \/ /\ ManifestContent = "unsupported" /\ Abandon(TRUE)
          /\ handles' = handles \ {"zip"}
    /\ UNCHANGED <<pathVars, archive, found, opened, defers, sources>>

FindEntries ==
    /\ at = "entries"
    /\ found' = [found EXCEPT !.files =
                    {name \in {"chain.jsonl", "keys.json"} :
                        Has(archive.entries, found.prefix, name)}]
    /\ IF Has(archive.entries, found.prefix, "chain.jsonl")
         THEN GoOn("open chain") /\ UNCHANGED handles
         ELSE Abandon(TRUE) /\ handles' = handles \ {"zip"}
    /\ UNCHANGED <<pathVars, archive, opened, defers, sources>>

-----------------------------------------------------------------------------
\* verify.Pack defers Close, which has a handle to close only for an archive.
PackClose == IF archive # Nil THEN <<"zip">> ELSE <<>>

\* What is opened stays what it was, whatever is put at the path afterwards.
OpenFile(name, handle) ==
    /\ Has(Here.entries, found.prefix, name)
    /\ opened' = [content |-> Content(Here.entries, found.prefix, name),
                  source  |-> From(name)]
    /\ handles' = handles \union {handle}

OpenChain ==
    /\ at = "open chain"
    /\ \/ /\ OpenFile("chain.jsonl", "chain") /\ GoOn("read chain")
          /\ defers' = PackClose \o <<"chain">>
       \/ /\ Abandon(~Has(Here.entries, found.prefix, "chain.jsonl"))
          /\ defers' = PackClose
          /\ UNCHANGED <<opened, handles>>
    /\ UNCHANGED <<pathVars, archive, found, sources>>

ReadChain ==
    /\ at = "read chain"
    /\ (opened.content = "ok" /\ GoOn("open keys")) \/ Abandon(opened.content # "ok")
    /\ sources' = Append(sources, opened.source)
    /\ UNCHANGED <<pathVars, archive, found, opened, handles, defers>>

\* buildResolver, which closes keys.json before it returns.
OpenKeys ==
    /\ at = "open keys"
    /\ IF "keys.json" \in found.files
         THEN \/ OpenFile("keys.json", "keys") /\ GoOn("read keys")
              \/ /\ Abandon(~Has(Here.entries, found.prefix, "keys.json"))
                 /\ UNCHANGED <<opened, handles>>
         ELSE GoOn("walk") /\ UNCHANGED <<opened, handles>>
    /\ UNCHANGED <<pathVars, archive, found, defers, sources>>

ReadKeys ==
    /\ at = "read keys"
    /\ (opened.content = "ok" /\ GoOn("walk")) \/ Abandon(opened.content # "ok")
    /\ sources' = Append(sources, opened.source)
    /\ handles' = handles \ {"keys"}
    /\ UNCHANGED <<pathVars, archive, found, opened, defers>>

\* The walk, which reads no file.
JudgeChain ==
    /\ at = "walk"
    /\ verdict' = "judged" /\ at' = "returning"
    /\ UNCHANGED <<pathVars, archive, found, opened, handles, defers, sources, refused>>

\* The deferred calls run, the last one first.
RunDeferred ==
    /\ at = "returning"
    /\ IF defers = <<>>
         THEN at' = "done" /\ UNCHANGED <<handles, defers>>
         ELSE /\ handles' = handles \ {Last(defers)}
              /\ defers' = Front(defers)
              /\ UNCHANGED at
    /\ UNCHANGED <<pathVars, archive, found, opened, sources, refused, verdict>>

\* Another pack, or none, is put at the path.
Replace ==
    /\ at # "done" /\ replaced < MaxReplacements
    /\ site' \in Replacements /\ replaced' = replaced + 1
    /\ UNCHANGED <<at, archive, found, opened, handles, defers, sources, refused, verdict>>

Next ==
    \/ Stat \/ ReadManifest \/ LookForChain \/ LookForKeys
    \/ OpenArchive \/ FindManifest \/ OpenArchiveManifest \/ ReadArchiveManifest
    \/ ParseArchiveManifest \/ CheckArchiveVersion \/ FindEntries
    \/ OpenChain \/ ReadChain \/ OpenKeys \/ ReadKeys
    \/ JudgeChain \/ RunDeferred \/ Replace

Spec == Init /\ [][Next]_vars

-----------------------------------------------------------------------------
Steps ==
    {"stat", "manifest", "look for chain", "look for keys",
     "archive", "find manifest", "open manifest", "read manifest",
     "parse manifest", "check version", "entries",
     "open chain", "read chain", "open keys", "read keys", "walk",
     "returning", "done"}

\* The Pack value, the handles and the deferred calls have their types.
FilesTypeOK ==
    /\ at \in Steps
    /\ replaced \in 0 .. MaxReplacements
    /\ found \in [prefix : Seq(Dirs), files : SUBSET {"chain.jsonl", "keys.json"}]
    /\ handles \subseteq {"zip", "manifest", "chain", "keys"}
    /\ defers \in Seq({"zip", "chain"})
    /\ sources \in Seq([name : Names, number : Nat, prefix : Seq(Dirs)])
    /\ refused \in BOOLEAN
    /\ verdict \in {"none", "malformed", "judged"}

(***************************************************************************)
(* Whichever of Pack's error paths is taken, every file it opened is       *)
(* closed when it returns: by each of openZip's six error returns, each on *)
(* its own, or by the deferred calls, which find their files still open.   *)
(***************************************************************************)
EveryHandleIsClosed ==
    /\ at = "done" => handles = {}
    /\ IsInjective(defers) /\ Range(defers) \subseteq handles

(***************************************************************************)
(* Everything read from an archive comes from one archive and from one     *)
(* place in it, even when another one is put at its path meanwhile.        *)
(***************************************************************************)
ArchiveIsOnePack ==
    archive # Nil =>
        \A n \in DOMAIN sources :
            sources[n].number = archive.number /\ sources[n].prefix = found.prefix

\* The pack at a path, said without Open's order of looking: an archive holds
\* the pack around the manifest that no other one precedes.
IsPlace(s, dir) ==
    \E n \in DOMAIN s.entries :
        /\ s.entries[n].name = "manifest.json" /\ s.entries[n].dir = dir
        /\ s.kind = "archive" => \A m \in 1 .. n - 1 : s.entries[m].name # "manifest.json"
        /\ s.kind = "directory" => dir = <<>>

Places(s) == {dir \in {s.entries[n].dir : n \in DOMAIN s.entries} : IsPlace(s, dir)}

FileOf(s, name) ==
    IF \E dir \in Places(s) : Has(s.entries, dir, name)
      THEN Content(s.entries, CHOOSE dir \in Places(s) : TRUE, name)
      ELSE "absent"

OneOf(content, ok, bad) ==
    CASE content = "ok" -> ok [] content = "absent" -> Absent [] OTHER -> bad

AsPack(s) ==
    [manifest |-> FileOf(s, "manifest.json"),
     chain    |-> OneOf(FileOf(s, "chain.jsonl"), <<>>, <<BadLine>>),
     keys     |-> OneOf(FileOf(s, "keys.json"), <<>>, BadKeys)]

(***************************************************************************)
(* A path that is left alone is judged exactly if it holds a well-formed   *)
(* pack, and it is judged on all the files of that pack: every order of    *)
(* entries, every prefix, and files of other packs beside it included.  A  *)
(* refusal of the operating system makes it malformed, with one exception: *)
(* a directory's keys.json that could not be looked for goes unread.       *)
(***************************************************************************)
JudgedIfWellFormed ==
    (at = "done" /\ replaced = 0) =>
        LET this == AsPack(site)
            readNames == {sources[n].name : n \in DOMAIN sources}
            KeysMissed == refused /\ this.keys # Absent /\ site.kind = "directory"
        IN  /\ WellFormed(this) /\ ~refused => verdict = "judged"
            /\ verdict = "judged" =>
                  IF refused \/ this.keys = Absent
                    THEN /\ WellFormed([this EXCEPT !.keys = Absent])
                         /\ refused => KeysMissed
                         /\ readNames = {"manifest.json", "chain.jsonl"}
                    ELSE /\ WellFormed(this)
                         /\ readNames = {"manifest.json", "chain.jsonl", "keys.json"}
===============================================================================
