---------------------------- MODULE PackFilesProofs ----------------------------
(***************************************************************************)
(* What verify.Pack's handling of files guarantees, whatever is at the     *)
(* path, whatever is put there meanwhile and whichever call is refused:    *)
(* every handle is closed, an archive is read as one pack, and a path that *)
(* is left alone is judged on the files of the pack it holds.              *)
(*                                                                         *)
(* The invariant says for every call of Pack which handles are open and    *)
(* which of them have a deferred Close; and, as long as the path is left   *)
(* alone, what the calls so far have established of the pack there.        *)
(***************************************************************************)
EXTENDS PackFiles, CompliancePackProofs

Source == [name : Names, number : Nat, prefix : Seq(Dirs)]

\* What a handle on an archive reads from.
Readings ==
    {[entries |-> s.entries, number |-> n] :
        s \in Sites \union Replacements, n \in 0 .. MaxReplacements}

\* Everything came from the archive, and from one place in it.
OfTheArchive(source) ==
    archive # Nil => source.number = archive.number /\ source.prefix = found.prefix

InDirectory == {"stat", "manifest", "look for chain", "look for keys", "archive"}
InArchive ==
    {"find manifest", "open manifest", "parse manifest", "check version", "entries"}
InPack == {"read chain", "open keys", "walk"}

\* The open handles before each call, and the calls of Close deferred by then.
HandlesMatch ==
    /\ at \in InDirectory => archive = Nil /\ handles = {} /\ defers = <<>>
    /\ at \in InArchive => archive # Nil /\ handles = {"zip"} /\ defers = <<>>
    /\ at = "read manifest" => archive # Nil /\ handles = {"zip", "manifest"} /\ defers = <<>>
    /\ at = "open chain" => handles = Range(PackClose) /\ defers = <<>>
    /\ at \in InPack \union {"returning"} => handles = Range(defers)
    /\ at = "read keys" => handles = Range(defers) \union {"keys"}
    /\ at = "done" => handles = {} /\ defers = <<>>
    /\ IsInjective(defers)

SiteOK == site \in Sites \union Replacements /\ archive \in Readings \union {Nil}

OpenedOK ==
    /\ at \in {"stat", "manifest", "archive", "find manifest", "open manifest",
              "read manifest"} => sources = <<>>
    /\ at \in {"read chain", "read keys"} =>
          opened.source \in Source /\ OfTheArchive(opened.source)

FilesInv == FilesTypeOK /\ SiteOK /\ OpenedOK /\ HandlesMatch /\ ArchiveIsOnePack

-----------------------------------------------------------------------------
\* What the operators promise of typed entries.
IsEntries(entries) ==
    /\ DOMAIN entries = 1 .. Len(entries) /\ Len(entries) \in Nat
    /\ \A n \in DOMAIN entries :
          /\ entries[n].dir \in Seq(Dirs) /\ entries[n].name \in Names
          /\ entries[n].content \in {"ok", "unsupported", "unparsable"}

LEMMA SitesHaveEntries ==
    ASSUME NEW s \in Sites \union Replacements
    PROVE  IsEntries(s.entries)
BY PackFilesAssumption DEF SitesAreTyped, IsEntries

LEMMA ReadingsHaveEntries ==
    ASSUME NEW a \in Readings
    PROVE  IsEntries(a.entries) /\ a.number \in Nat /\ a # Nil
BY SitesHaveEntries, PackFilesAssumption DEF Readings

LEMMA HereHasEntries ==
    ASSUME SiteOK, replaced \in 0 .. MaxReplacements
    PROVE  IsEntries(Here.entries) /\ Here.number \in Nat
<1>1. CASE archive # Nil
  BY <1>1, ReadingsHaveEntries DEF SiteOK, Here
<1>2. CASE archive = Nil
  <2>1. IsEntries(<<>>)
    BY DEF IsEntries
  <2>2. IsEntries(site.entries) /\ replaced \in Nat
    BY SitesHaveEntries, PackFilesAssumption DEF SiteOK
  <2> QED  BY <1>2, <2>1, <2>2 DEF Here
<1> QED  BY <1>1, <1>2

\* The first of some entries is one of them, and none of them precedes it.
LEMMA TheFirst ==
    ASSUME NEW entries, IsEntries(entries), NEW T \in SUBSET DOMAIN entries, T # {}
    PROVE  Min(T) \in T /\ \A n \in T : Min(T) <= n
<1>1. T \in SUBSET Nat
  BY DEF IsEntries
<1>2. \E n \in T : \A m \in T : n <= m
  BY <1>1, Least
<1> QED  BY <1>2 DEF Min

\* Close is called on the last handle deferred, and on no handle twice.
LEMMA LastDeferred ==
    ASSUME NEW S, NEW d \in Seq(S), d # <<>>, IsInjective(d)
    PROVE  /\ Front(d) \in Seq(S) /\ IsInjective(Front(d))
           /\ Last(d) \in Range(d)
           /\ Range(Front(d)) = Range(d) \ {Last(d)}
<1> DEFINE f == Front(d)
<1>1. Len(d) \in Nat /\ Len(d) # 0 /\ DOMAIN d = 1 .. Len(d)
  BY EmptySeq
<1>2. f \in Seq(S) /\ Len(f) = Len(d) - 1 /\ \A i \in 1 .. Len(d) - 1 : f[i] = d[i]
  BY <1>1, SubSeqProperties DEF Front
<1>3. DOMAIN f = 1 .. Len(d) - 1
  BY <1>2
<1>4. IsInjective(f)
  BY <1>1, <1>2, <1>3 DEF IsInjective
<1>5. Last(d) = d[Len(d)] /\ Len(d) \in DOMAIN d
  BY <1>1 DEF Last
<1>6. Range(f) = Range(d) \ {Last(d)}
  <2>1. \A i \in 1 .. Len(d) - 1 : i \in DOMAIN d /\ d[i] # Last(d)
    BY <1>1, <1>5 DEF IsInjective
  <2>2. \A i \in DOMAIN d : d[i] # Last(d) => i \in 1 .. Len(d) - 1
    BY <1>1, <1>5
  <2> QED  BY <1>2, <1>3, <2>1, <2>2 DEF Range
<1> QED  BY <1>2, <1>4, <1>5, <1>6 DEF Range

LEMMA PackCloses ==
    /\ PackClose \in Seq({"zip", "chain"}) /\ IsInjective(PackClose)
    /\ Range(PackClose) = (IF archive # Nil THEN {"zip"} ELSE {})
    /\ PackClose \o <<"chain">> \in Seq({"zip", "chain"})
    /\ IsInjective(PackClose \o <<"chain">>)
    /\ Range(PackClose \o <<"chain">>) = Range(PackClose) \union {"chain"}
<1>1. CASE archive # Nil
  <2>1. PackClose = <<"zip">>
    BY <1>1 DEF PackClose
  <2>4. <<"zip">> \o <<"chain">> = <<"zip", "chain">>
    <3> DEFINE c == <<"zip">> \o <<"chain">>
    <3>1. <<"zip">> \in Seq({"zip", "chain"}) /\ <<"chain">> \in Seq({"zip", "chain"})
      OBVIOUS
    <3>2. c \in Seq({"zip", "chain"}) /\ Len(c) = 2 /\ c[1] = "zip" /\ c[2] = "chain"
      BY <3>1
    <3> DEFINE pair == <<"zip", "chain">>
    <3>3. /\ pair \in Seq({"zip", "chain"}) /\ Len(pair) = 2
          /\ pair[1] = "zip" /\ pair[2] = "chain"
      OBVIOUS
    <3> HIDE DEF c, pair
    <3>4. \A i \in 1 .. 2 : c[i] = pair[i]
      BY <3>2, <3>3
    <3>5. c = pair
      BY <3>2, <3>3, <3>4, SeqEqual
    <3> QED  BY <3>5 DEF c, pair
  <2>2. IsInjective(<<"zip">>) /\ Range(<<"zip">>) = {"zip"}
    BY DEF IsInjective, Range
  <2>3. IsInjective(<<"zip", "chain">>) /\ Range(<<"zip", "chain">>) = {"zip", "chain"}
    BY DEF IsInjective, Range
  <2>5. <<"zip">> \in Seq({"zip", "chain"}) /\ <<"zip", "chain">> \in Seq({"zip", "chain"})
    OBVIOUS
  <2>6. Range(PackClose \o <<"chain">>) = Range(PackClose) \union {"chain"}
    BY <2>1, <2>2, <2>3, <2>4
  <2> QED  BY <1>1, <2>1, <2>2, <2>3, <2>4, <2>5, <2>6
<1>2. CASE archive = Nil
  <2>1. PackClose = <<>> /\ PackClose \o <<"chain">> = <<"chain">>
    BY <1>2 DEF PackClose
  <2>2. IsInjective(<<>>) /\ Range(<<>>) = {}
    BY DEF IsInjective, Range
  <2>3. IsInjective(<<"chain">>) /\ Range(<<"chain">>) = {"chain"}
    BY DEF IsInjective, Range
  <2> QED  BY <1>2, <2>1, <2>2, <2>3
<1> QED  BY <1>1, <1>2

LEMMA NoneDeferred == Range(<<>>) = {} /\ IsInjective(<<>>)
BY DEF Range, IsInjective

-----------------------------------------------------------------------------
LEMMA FilesInitInv == Init => FilesInv
<1> SUFFICES ASSUME Init PROVE FilesInv
  OBVIOUS
<1>1. FilesTypeOK
  <2>1. /\ <<>> \in Seq([name : Names, number : Nat, prefix : Seq(Dirs)])
        /\ <<>> \in Seq({"zip", "chain"})
        /\ [prefix |-> <<>>, files |-> {}]
              \in [prefix : Seq(Dirs), files : SUBSET {"chain.jsonl", "keys.json"}]
        /\ 0 \in 0 .. MaxReplacements
    BY PackFilesAssumption
  <2> QED  BY <2>1 DEF Init, FilesTypeOK, Steps
<1>2. SiteOK /\ OpenedOK /\ ArchiveIsOnePack
  BY DEF Init, SiteOK, OpenedOK, ArchiveIsOnePack
<1>4. HandlesMatch
  BY NoneDeferred DEF Init, HandlesMatch, InDirectory, InArchive, InPack
<1> QED  BY <1>1, <1>2, <1>4 DEF FilesInv

\* What is read comes from here.
LEMMA FromHere ==
    ASSUME SiteOK, FilesTypeOK, NEW name \in Names
    PROVE  From(name) \in Source /\ OfTheArchive(From(name))
<1>1. Here.number \in Nat /\ found.prefix \in Seq(Dirs)
  BY HereHasEntries DEF FilesTypeOK
<1>2. archive # Nil => Here.number = archive.number
  BY DEF Here
<1> QED  BY <1>1, <1>2 DEF From, Source, OfTheArchive

LEMMA StatInv ==
    ASSUME FilesInv, Stat
    PROVE  FilesInv'
<1> USE DEF FilesInv, Stat, GoOn, Abandon, pathVars
<1>1. FilesTypeOK'
  BY DEF FilesTypeOK, Steps
<1>2. at' \in {"manifest", "archive", "returning"}
  OBVIOUS
<1>3. SiteOK' /\ OpenedOK' /\ ArchiveIsOnePack'
  BY <1>2 DEF SiteOK, OpenedOK, ArchiveIsOnePack
<1>5. HandlesMatch'
  BY <1>2, NoneDeferred DEF HandlesMatch, InDirectory, InArchive, InPack
<1> QED  BY <1>1, <1>3, <1>5

LEMMA ReadManifestInv ==
    ASSUME FilesInv, ReadManifest
    PROVE  FilesInv'
<1> USE DEF FilesInv, ReadManifest, GoOn, Abandon, pathVars
<1>1. sources' \in {sources, <<From("manifest.json")>>} /\ From("manifest.json") \in Source
  BY FromHere DEF Names
<1>2. sources' \in Seq(Source)
  <2>1. sources \in Seq(Source)
    BY DEF FilesTypeOK, Source
  <2> DEFINE source == From("manifest.json")
  <2>3. source \in Source
    BY <1>1
  <2> HIDE DEF source
  <2>4. <<source>> \in Seq(Source)
    BY ONLY <2>3
  <2>2. <<From("manifest.json")>> \in Seq(Source)
    BY <2>4 DEF source
  <2> QED  BY <1>1, <2>1, <2>2
<1>3. FilesTypeOK'
  BY <1>2 DEF FilesTypeOK, Steps, Source
<1>4. at' \in {"look for chain", "returning"} /\ archive = Nil
  BY DEF HandlesMatch, InDirectory
<1>5. SiteOK' /\ OpenedOK' /\ ArchiveIsOnePack'
  BY <1>4 DEF SiteOK, OpenedOK, ArchiveIsOnePack
<1>7. HandlesMatch'
  BY <1>4, NoneDeferred DEF HandlesMatch, InDirectory, InArchive, InPack
<1> QED  BY <1>3, <1>5, <1>7

LEMMA LookForInv ==
    ASSUME FilesInv, LookForChain \/ LookForKeys
    PROVE  FilesInv'
<1> USE DEF FilesInv, pathVars
<1> DEFINE name == IF at = "look for chain" THEN "chain.jsonl" ELSE "keys.json"
<1>1. /\ LookFor(name) /\ archive = Nil /\ handles = {} /\ defers = <<>>
      /\ UNCHANGED <<site, replaced, archive, opened, handles, defers, sources>>
      /\ at' \in {"look for keys", "open chain", "returning"}
      /\ verdict' \in {verdict, "malformed"}
  BY DEF LookForChain, LookForKeys, HandlesMatch, InDirectory
<1>2. /\ found' \in [prefix : Seq(Dirs), files : SUBSET {"chain.jsonl", "keys.json"}]
      /\ refused' \in BOOLEAN
  BY <1>1 DEF LookFor, FilesTypeOK
<1>3. FilesTypeOK'
  BY <1>1, <1>2 DEF FilesTypeOK, Steps
<1>4. SiteOK' /\ OpenedOK' /\ ArchiveIsOnePack'
  BY <1>1 DEF SiteOK, OpenedOK, ArchiveIsOnePack
<1>5. PackClose' = <<>>
  BY <1>1 DEF PackClose
<1>6. HandlesMatch'
  BY <1>1, <1>5, NoneDeferred DEF HandlesMatch, InDirectory, InArchive, InPack
<1> QED  BY <1>3, <1>4, <1>6

LEMMA OpenArchiveInv ==
    ASSUME FilesInv, OpenArchive
    PROVE  FilesInv'
<1> USE DEF FilesInv, OpenArchive, GoOn, Abandon, pathVars
<1>1. FilesTypeOK'
  BY DEF FilesTypeOK, Steps
<1>9. archive = Nil /\ handles = {}
  BY DEF HandlesMatch, InDirectory
<1>10. [entries |-> site.entries, number |-> replaced] \in Readings
  <2>1. site \in Sites \union Replacements /\ replaced \in 0 .. MaxReplacements
    BY DEF SiteOK, FilesTypeOK
  <2> QED  BY ONLY <2>1 DEF Readings
<1>2. /\ sources = sources'
      /\ \/ at' = "find manifest" /\ archive' \in Readings /\ handles' = {"zip"}
         \/ at' = "returning" /\ archive' = Nil /\ handles' = {}
  BY <1>9, <1>10
<1>3. SiteOK' /\ OpenedOK'
  BY <1>2 DEF SiteOK, OpenedOK
<1>4. sources' = <<>>
  BY <1>2 DEF OpenedOK
<1>5. ArchiveIsOnePack'
  BY ONLY <1>4 DEF ArchiveIsOnePack
<1>6. \A a \in Readings : a # Nil
  BY ReadingsHaveEntries
<1>7. defers' = <<>>
  BY DEF HandlesMatch, InDirectory
<1>8. HandlesMatch'
  BY <1>2, <1>6, <1>7, NoneDeferred DEF HandlesMatch, InDirectory, InArchive, InPack
<1> QED  BY <1>1, <1>3, <1>5, <1>8

LEMMA FindManifestInv ==
    ASSUME FilesInv, FindManifest
    PROVE  FilesInv'
<1> USE DEF FilesInv, FindManifest, GoOn, Abandon, pathVars
<1>1. /\ archive # Nil /\ handles = {"zip"} /\ defers = <<>> /\ sources = <<>>
      /\ UNCHANGED <<site, replaced, archive, opened, defers, sources>>
      /\ refused \in BOOLEAN
  BY DEF HandlesMatch, InArchive, OpenedOK, FilesTypeOK
<1>2. Manifests # {} => PrefixOf(FirstManifest) \in Seq(Dirs)
  <2>1. IsEntries(archive.entries) /\ Manifests \in SUBSET DOMAIN archive.entries
    BY <1>1, ReadingsHaveEntries DEF SiteOK, Manifests
  <2> QED  BY <2>1, TheFirst DEF PrefixOf, FirstManifest, IsEntries
<1>3. /\ found' \in [prefix : Seq(Dirs), files : SUBSET {"chain.jsonl", "keys.json"}]
      /\ refused' = refused
      /\ \/ at' = "open manifest" /\ handles' = {"zip"} /\ verdict' = verdict
         \/ at' = "returning" /\ handles' = {} /\ verdict' = "malformed"
  BY <1>1, <1>2 DEF FilesTypeOK
<1>4. FilesTypeOK'
  BY <1>1, <1>3 DEF FilesTypeOK, Steps
<1>5. SiteOK' /\ OpenedOK'
  BY <1>1, <1>3 DEF SiteOK, OpenedOK
<1>7. sources' = <<>>
  BY <1>1
<1>8. ArchiveIsOnePack'
  BY ONLY <1>7 DEF ArchiveIsOnePack
<1>6. HandlesMatch'
  BY <1>1, <1>3, NoneDeferred DEF HandlesMatch, InDirectory, InArchive, InPack
<1> QED  BY <1>4, <1>5, <1>6, <1>8

\* The calls that read nothing: each goes on, or closes the archive itself.
LEMMA ManifestCallInv ==
    ASSUME FilesInv, OpenArchiveManifest \/ ParseArchiveManifest \/ CheckArchiveVersion
    PROVE  FilesInv'
<1> USE DEF FilesInv, pathVars
<1>1. /\ archive # Nil /\ handles = {"zip"} /\ defers = <<>>
      /\ at = "open manifest" => sources = <<>>
      /\ at \in {"open manifest", "parse manifest", "check version"}
      /\ UNCHANGED <<site, replaced, archive, found, opened, defers, sources>>
  BY DEF OpenArchiveManifest, ParseArchiveManifest, CheckArchiveVersion, HandlesMatch,
         InArchive, OpenedOK
<1>2. /\ refused' \in BOOLEAN
      /\ \/ /\ at = "open manifest" /\ at' = "read manifest"
            /\ handles' = {"zip", "manifest"} /\ verdict' = verdict
         \/ /\ at' \in {"check version", "entries"}
            /\ handles' = {"zip"} /\ verdict' = verdict
         \/ at' = "returning" /\ handles' = {} /\ verdict' = "malformed"
  <2> USE DEF GoOn, Abandon
  <2>1. refused \in BOOLEAN
    BY DEF FilesTypeOK
  <2>2. CASE OpenArchiveManifest
    BY <1>1, <2>1, <2>2 DEF OpenArchiveManifest
  <2>3. CASE ParseArchiveManifest
    BY <1>1, <2>1, <2>3 DEF ParseArchiveManifest
  <2>4. CASE CheckArchiveVersion
    BY <1>1, <2>1, <2>4 DEF CheckArchiveVersion
  <2> QED  BY <2>2, <2>3, <2>4
<1>3. FilesTypeOK'
  BY <1>1, <1>2 DEF FilesTypeOK, Steps
<1>4. SiteOK' /\ OpenedOK' /\ ArchiveIsOnePack'
  BY <1>1, <1>2 DEF SiteOK, OpenedOK, ArchiveIsOnePack
<1>5. HandlesMatch'
  BY <1>1, <1>2, NoneDeferred DEF HandlesMatch, InDirectory, InArchive, InPack
<1> QED  BY <1>3, <1>4, <1>5

LEMMA ReadArchiveManifestInv ==
    ASSUME FilesInv, ReadArchiveManifest
    PROVE  FilesInv'
<1> USE DEF FilesInv, ReadArchiveManifest, GoOn, Abandon, pathVars
<1> DEFINE source == From("manifest.json")
<1>1. /\ archive # Nil /\ handles = {"zip", "manifest"} /\ defers = <<>> /\ sources = <<>>
      /\ UNCHANGED <<site, replaced, archive, found, opened, defers>>
  BY DEF HandlesMatch, OpenedOK
<1>2. /\ refused' \in BOOLEAN
      /\ \/ /\ at' = "parse manifest" /\ verdict' = verdict
            /\ handles' = {"zip"} /\ sources' = <<source>>
         \/ /\ at' = "returning" /\ verdict' = "malformed"
            /\ handles' = {} /\ sources' = <<>>
  BY <1>1 DEF FilesTypeOK
<1>3. /\ source \in Source /\ source.number = archive.number
      /\ source.prefix = found.prefix
  BY <1>1, FromHere DEF Names, OfTheArchive
<1> HIDE DEF source
<1>4. /\ sources' \in Seq(Source)
      /\ \A n \in DOMAIN sources' : sources'[n] = source
  <2>1. <<source>> \in Seq(Source) /\ \A n \in DOMAIN <<source>> : <<source>>[n] = source
    BY ONLY <1>3
  <2>2. CASE sources' = <<>>
    <3>1. sources' \in Seq(Source) /\ DOMAIN sources' = {}
      BY ONLY <2>2
    <3> QED  BY <3>1
  <2>3. CASE sources' = <<source>>
    BY <2>1, <2>3
  <2> QED  BY <1>2, <2>2, <2>3
<1>5. FilesTypeOK'
  BY <1>1, <1>2, <1>4 DEF FilesTypeOK, Steps, Source
<1>6. SiteOK' /\ OpenedOK'
  BY <1>1, <1>2 DEF SiteOK, OpenedOK
<1>7. ArchiveIsOnePack'
  BY <1>1, <1>3, <1>4 DEF ArchiveIsOnePack
<1>8. HandlesMatch'
  BY <1>1, <1>2, NoneDeferred DEF HandlesMatch, InDirectory, InArchive, InPack
<1> QED  BY <1>5, <1>6, <1>7, <1>8

LEMMA FindEntriesInv ==
    ASSUME FilesInv, FindEntries
    PROVE  FilesInv'
<1> USE DEF FilesInv, FindEntries, GoOn, Abandon, pathVars
<1>1. /\ archive # Nil /\ handles = {"zip"} /\ defers = <<>>
      /\ \/ at' = "open chain" /\ handles' = {"zip"} /\ UNCHANGED <<verdict, refused>>
         \/ at' = "returning" /\ handles' = {} /\ verdict' = "malformed" /\ refused' = refused
      /\ UNCHANGED <<site, replaced, archive, opened, defers, sources>>
  BY DEF HandlesMatch, InArchive, FilesTypeOK
<1>2. /\ found'.prefix = found.prefix
      /\ found' \in [prefix : Seq(Dirs), files : SUBSET {"chain.jsonl", "keys.json"}]
  BY DEF FilesTypeOK
<1>3. FilesTypeOK'
  BY <1>1, <1>2 DEF FilesTypeOK, Steps
<1>4. SiteOK' /\ OpenedOK' /\ ArchiveIsOnePack'
  BY <1>1, <1>2 DEF SiteOK, OpenedOK, ArchiveIsOnePack
<1>5. PackClose' = PackClose /\ Range(PackClose) = {"zip"}
  BY <1>1, PackCloses DEF PackClose
<1>6. HandlesMatch'
  BY <1>1, <1>5, NoneDeferred DEF HandlesMatch, InDirectory, InArchive, InPack
<1> QED  BY <1>3, <1>4, <1>6

-----------------------------------------------------------------------------
LEMMA OpenChainInv ==
    ASSUME FilesInv, OpenChain
    PROVE  FilesInv'
<1> USE DEF FilesInv, OpenChain, GoOn, Abandon, pathVars
<1>1. /\ handles = Range(PackClose) /\ handles \subseteq {"zip", "manifest", "chain", "keys"}
      /\ UNCHANGED <<site, replaced, archive, found, sources>>
      /\ refused \in BOOLEAN
  BY DEF HandlesMatch, FilesTypeOK
<1>6. \/ /\ at' = "read chain" /\ UNCHANGED <<verdict, refused>>
         /\ opened'.source = From("chain.jsonl")
         /\ handles' = handles \union {"chain"}
         /\ defers' = PackClose \o <<"chain">>
      \/ /\ at' = "returning" /\ verdict' = "malformed" /\ refused' \in BOOLEAN
         /\ defers' = PackClose /\ handles' = handles
  <2> USE DEF OpenFile
  <2>1. CASE OpenFile("chain.jsonl", "chain") /\ GoOn("read chain")
    BY <1>1, <2>1
  <2>2. CASE Abandon(~Has(Here.entries, found.prefix, "chain.jsonl"))
    BY <1>1, <2>2
  <2> QED  BY <2>1, <2>2
<1>2. FilesTypeOK'
  BY <1>1, <1>6, PackCloses DEF FilesTypeOK, Steps
<1>3. SiteOK' /\ ArchiveIsOnePack'
  BY <1>1 DEF SiteOK, ArchiveIsOnePack
<1>4. OpenedOK'
  BY <1>1, <1>6, FromHere DEF OpenedOK, OfTheArchive, Names
<1>5. HandlesMatch'
  BY <1>1, <1>6, PackCloses DEF HandlesMatch, InDirectory, InArchive, InPack
<1> QED  BY <1>2, <1>3, <1>4, <1>5

\* Whatever is read, its source is one more.
LEMMA OneMoreSource ==
    ASSUME FilesInv, at \in {"read chain", "read keys"},
           sources' = Append(sources, opened.source), UNCHANGED <<archive, found>>
    PROVE  sources' \in Seq(Source) /\ ArchiveIsOnePack'
<1>1. sources \in Seq(Source) /\ opened.source \in Source /\ OfTheArchive(opened.source)
  BY DEF FilesInv, FilesTypeOK, OpenedOK, Source
<1>2. /\ sources' \in Seq(Source) /\ Len(sources') = Len(sources) + 1
      /\ \A n \in 1 .. Len(sources) : sources'[n] = sources[n]
      /\ sources'[Len(sources) + 1] = opened.source
  <2> DEFINE s == opened.source
  <2>1. sources' = Append(sources, s) /\ s \in Source /\ sources \in Seq(Source)
    BY <1>1
  <2> HIDE DEF s
  <2>2. /\ Append(sources, s) \in Seq(Source) /\ Len(Append(sources, s)) = Len(sources) + 1
        /\ \A n \in 1 .. Len(sources) : Append(sources, s)[n] = sources[n]
        /\ Append(sources, s)[Len(sources) + 1] = s
    BY <2>1, AppendProperties
  <2> QED  BY <2>1, <2>2 DEF s
<1>3. \A n \in DOMAIN sources' : n \in DOMAIN sources \/ n = Len(sources) + 1
  <2>1. sources \in Seq(Source) /\ sources' \in Seq(Source)
    BY <1>1, <1>2
  <2>2. /\ DOMAIN sources = 1 .. Len(sources) /\ Len(sources) \in Nat
        /\ DOMAIN sources' = 1 .. Len(sources')
    BY ONLY <2>1
  <2>3. Len(sources') = Len(sources) + 1
    BY <1>2
  <2> QED  BY ONLY <2>2, <2>3
<1>4. ArchiveIsOnePack
  BY DEF FilesInv
<1>5. ASSUME archive' # Nil, NEW n \in DOMAIN sources'
      PROVE  sources'[n].number = archive'.number /\ sources'[n].prefix = found'.prefix
  <2>1. archive # Nil /\ archive' = archive /\ found' = found
    BY <1>5
  <2>2. CASE n \in DOMAIN sources
    <3>2. n \in 1 .. Len(sources)
      BY ONLY <1>1, <2>2
    <3>1. sources'[n] = sources[n]
      BY <1>2, <3>2
    <3> QED  BY <1>4, <2>1, <2>2, <3>1 DEF ArchiveIsOnePack
  <2>3. CASE n = Len(sources) + 1
    BY <1>1, <1>2, <2>1, <2>3 DEF OfTheArchive
  <2> QED  BY <1>3, <1>5, <2>2, <2>3
<1> QED  BY <1>2, <1>5 DEF ArchiveIsOnePack

LEMMA ReadChainInv ==
    ASSUME FilesInv, ReadChain
    PROVE  FilesInv'
<1> USE DEF FilesInv, ReadChain, GoOn, Abandon, pathVars
<1>1. /\ at' \in {"open keys", "returning"}
      /\ verdict' \in {verdict, "malformed"} /\ refused' \in BOOLEAN
      /\ UNCHANGED <<site, replaced, archive, found, opened, handles, defers>>
  BY DEF FilesTypeOK
<1>2. sources' \in Seq(Source) /\ ArchiveIsOnePack'
  BY OneMoreSource
<1>3. FilesTypeOK'
  BY <1>1, <1>2 DEF FilesTypeOK, Steps, Source
<1>4. SiteOK' /\ OpenedOK'
  BY <1>1 DEF SiteOK, OpenedOK
<1>5. HandlesMatch'
  BY <1>1 DEF HandlesMatch, InDirectory, InArchive, InPack
<1> QED  BY <1>2, <1>3, <1>4, <1>5

LEMMA OpenKeysInv ==
    ASSUME FilesInv, OpenKeys
    PROVE  FilesInv'
<1> USE DEF FilesInv, OpenKeys, GoOn, Abandon, pathVars
<1>6. refused \in BOOLEAN /\ UNCHANGED <<site, replaced, archive, found, defers, sources>>
  BY DEF FilesTypeOK
<1>1. \/ /\ at' = "read keys" /\ UNCHANGED <<verdict, refused>>
         /\ opened'.source = From("keys.json")
         /\ handles' = handles \union {"keys"}
      \/ /\ at' \in {"returning", "walk"} /\ handles' = handles
         /\ verdict' \in {verdict, "malformed"} /\ refused' \in BOOLEAN
  <2> USE DEF OpenFile
  <2>1. CASE OpenFile("keys.json", "keys") /\ GoOn("read keys")
    BY <2>1
  <2>2. CASE Abandon(~Has(Here.entries, found.prefix, "keys.json")) /\ UNCHANGED handles
    BY <1>6, <2>2
  <2>3. CASE GoOn("walk") /\ UNCHANGED handles
    BY <1>6, <2>3
  <2> QED  BY <2>1, <2>2, <2>3
<1>2. FilesTypeOK'
  BY <1>1, <1>6 DEF FilesTypeOK, Steps
<1>3. SiteOK' /\ ArchiveIsOnePack'
  BY <1>6 DEF SiteOK, ArchiveIsOnePack
<1>4. OpenedOK'
  BY <1>1, <1>6, FromHere DEF OpenedOK, OfTheArchive, Names
<1>5. HandlesMatch'
  BY <1>1, <1>6 DEF HandlesMatch, InDirectory, InArchive, InPack
<1> QED  BY <1>2, <1>3, <1>4, <1>5

LEMMA ReadKeysInv ==
    ASSUME FilesInv, ReadKeys
    PROVE  FilesInv'
<1> USE DEF FilesInv, ReadKeys, GoOn, Abandon, pathVars
<1>1. /\ at' \in {"walk", "returning"}
      /\ verdict' \in {verdict, "malformed"} /\ refused' \in BOOLEAN
      /\ UNCHANGED <<site, replaced, archive, found, opened, defers>>
      /\ handles' = handles \ {"keys"}
  BY DEF FilesTypeOK
<1>2. sources' \in Seq(Source) /\ ArchiveIsOnePack'
  BY OneMoreSource
<1>3. FilesTypeOK'
  BY <1>1, <1>2 DEF FilesTypeOK, Steps, Source
<1>4. SiteOK' /\ OpenedOK'
  BY <1>1 DEF SiteOK, OpenedOK
<1>5. "keys" \notin Range(defers)
  <2>1. defers \in Seq({"zip", "chain"})
    BY DEF FilesTypeOK
  <2>2. Range(defers) \in SUBSET {"zip", "chain"}
    BY ONLY <2>1, RangeOfSeq
  <2> QED  BY <2>2
<1>6. HandlesMatch'
  BY <1>1, <1>5 DEF HandlesMatch, InDirectory, InArchive, InPack
<1> QED  BY <1>2, <1>3, <1>4, <1>6

LEMMA JudgeChainInv ==
    ASSUME FilesInv, JudgeChain
    PROVE  FilesInv'
<1> USE DEF FilesInv, JudgeChain, pathVars
<1>1. FilesTypeOK'
  BY DEF FilesTypeOK, Steps
<1>2. SiteOK' /\ OpenedOK' /\ ArchiveIsOnePack'
  BY DEF SiteOK, OpenedOK, ArchiveIsOnePack
<1>3. HandlesMatch'
  BY DEF HandlesMatch, InDirectory, InArchive, InPack
<1> QED  BY <1>1, <1>2, <1>3

LEMMA RunDeferredInv ==
    ASSUME FilesInv, RunDeferred
    PROVE  FilesInv'
<1> USE DEF FilesInv, RunDeferred, pathVars
<1>1. /\ UNCHANGED <<site, replaced, archive, found, opened, sources, refused, verdict>>
      /\ at = "returning" /\ at' \in {"returning", "done"}
      /\ handles = Range(defers) /\ IsInjective(defers)
      /\ defers \in Seq({"zip", "chain"})
  BY DEF HandlesMatch, FilesTypeOK
<1>2. SiteOK' /\ OpenedOK' /\ ArchiveIsOnePack'
  BY <1>1 DEF SiteOK, OpenedOK, ArchiveIsOnePack
<1>3. CASE defers = <<>>
  <2>1. at' = "done" /\ handles' = handles /\ defers' = <<>> /\ Range(<<>>) = {}
    BY <1>3, NoneDeferred
  <2>2. FilesTypeOK'
    BY <1>1, <2>1 DEF FilesTypeOK, Steps
  <2>3. HandlesMatch'
    BY <1>1, <1>3, <2>1 DEF HandlesMatch, InDirectory, InArchive, InPack
  <2> QED  BY <1>2, <2>2, <2>3
<1>4. CASE defers # <<>>
  <2>1. /\ at' = at /\ handles' = handles \ {Last(defers)} /\ defers' = Front(defers)
    BY <1>4
  <2>2. /\ defers' \in Seq({"zip", "chain"}) /\ IsInjective(defers')
        /\ handles' = Range(defers')
    BY <1>1, <1>4, <2>1, LastDeferred
  <2>3. FilesTypeOK'
    BY <1>1, <2>1, <2>2 DEF FilesTypeOK, Steps
  <2>4. HandlesMatch'
    BY <1>1, <2>1, <2>2 DEF HandlesMatch, InDirectory, InArchive, InPack
  <2> QED  BY <1>2, <2>3, <2>4
<1> QED  BY <1>3, <1>4

LEMMA ReplaceInv ==
    ASSUME FilesInv, Replace
    PROVE  FilesInv'
<1> USE DEF FilesInv, Replace
<1>1. FilesTypeOK'
  BY PackFilesAssumption DEF FilesTypeOK
<1>2. SiteOK' /\ OpenedOK' /\ ArchiveIsOnePack'
  BY DEF SiteOK, OpenedOK, ArchiveIsOnePack, OfTheArchive
<1>3. HandlesMatch'
  BY DEF HandlesMatch, PackClose
<1> QED  BY <1>1, <1>2, <1>3

LEMMA FilesStutter ==
    ASSUME FilesInv, UNCHANGED vars
    PROVE  FilesInv'
<1> USE DEF FilesInv, vars, pathVars
<1>1. FilesTypeOK'
  BY DEF FilesTypeOK
<1>2. SiteOK' /\ OpenedOK' /\ ArchiveIsOnePack'
  BY DEF SiteOK, OpenedOK, OfTheArchive, ArchiveIsOnePack
<1>3. HandlesMatch'
  BY DEF HandlesMatch, PackClose
<1> QED  BY <1>1, <1>2, <1>3

LEMMA FilesStep == FilesInv /\ [Next]_vars => FilesInv'
<1> SUFFICES ASSUME FilesInv, [Next]_vars PROVE FilesInv'
  OBVIOUS
<1>1. CASE UNCHANGED vars
  BY <1>1, FilesStutter
<1>2. CASE Stat \/ ReadManifest \/ LookForChain \/ LookForKeys
  BY <1>2, StatInv, ReadManifestInv, LookForInv
<1>3. CASE OpenArchive \/ FindManifest \/ OpenArchiveManifest \/ ReadArchiveManifest
  BY <1>3, OpenArchiveInv, FindManifestInv, ManifestCallInv, ReadArchiveManifestInv
<1>6. CASE ParseArchiveManifest \/ CheckArchiveVersion \/ FindEntries
  BY <1>6, ManifestCallInv, FindEntriesInv
<1>4. CASE OpenChain \/ ReadChain \/ OpenKeys \/ ReadKeys
  BY <1>4, OpenChainInv, ReadChainInv, OpenKeysInv, ReadKeysInv
<1>5. CASE JudgeChain \/ RunDeferred \/ Replace
  BY <1>5, JudgeChainInv, RunDeferredInv, ReplaceInv
<1> QED  BY <1>1, <1>2, <1>3, <1>4, <1>5, <1>6 DEF Next

\* The invariant holds of every state.
THEOREM FilesInvariance == Spec => []FilesInv
<1>1. Init => FilesInv
  BY FilesInitInv
<1>2. FilesInv /\ [Next]_vars => FilesInv'
  BY FilesStep
<1> QED  BY <1>1, <1>2, PTL DEF Spec

\* The Pack value, the handles and the deferred calls have their types
\* (pack.go:57-201, verify.go:72-108).
THEOREM FilesTypeCorrect == Spec => []FilesTypeOK
<1>1. FilesInv => FilesTypeOK
  BY DEF FilesInv
<1> QED  BY <1>1, FilesInvariance, PTL

\* Whatever is at the path and wherever Pack fails, it closes what it opened:
\* openZip on each of its six error returns by itself (pack.go:155-199), the
\* manifest before its bytes are judged, the rest by calls deferred once each
\* (pack.go:201-237, verify.go:72-108, 147-168).
THEOREM HandlesAreClosed == Spec => []EveryHandleIsClosed
<1>1. FilesInv => EveryHandleIsClosed
  <2> SUFFICES ASSUME FilesInv PROVE EveryHandleIsClosed
    OBVIOUS
  <2>1. HandlesMatch /\ at \in Steps
    BY DEF FilesInv, FilesTypeOK
  <2>2. Range(defers) \subseteq handles
    BY <2>1, NoneDeferred DEF HandlesMatch, InDirectory, InArchive, InPack, Steps
  <2> QED  BY <2>1, <2>2 DEF EveryHandleIsClosed, HandlesMatch
<1> QED  BY <1>1, FilesInvariance, PTL

\* An archive is read as one pack, whatever is put at its path meanwhile
\* (pack.go:77-96, 133-212).
THEOREM ArchivesAreOnePack == Spec => []ArchiveIsOnePack
<1>1. FilesInv => ArchiveIsOnePack
  BY DEF FilesInv
<1> QED  BY <1>1, FilesInvariance, PTL

-----------------------------------------------------------------------------
(***************************************************************************)
(* What the calls so far have established of a path that is left alone.    *)
(***************************************************************************)
There(name) == Has(site.entries, found.prefix, name)
Good(name) == There(name) /\ Content(site.entries, found.prefix, name) = "ok"
ReadNames == {sources[n].name : n \in DOMAIN sources}

\* The pack is at this place: in a directory at the top, in an archive around
\* its first manifest.
ManifestsOf(s) == {n \in DOMAIN s.entries : s.entries[n].name = "manifest.json"}

Located(s, dir) ==
    /\ Has(s.entries, dir, "manifest.json")
    /\ \/ s.kind = "directory" /\ dir = <<>>
       \/ s.kind = "archive" /\ dir = s.entries[Min(ManifestsOf(s))].dir

Before == {"stat", "manifest", "archive", "find manifest"}
AtManifest == {"open manifest", "read manifest", "parse manifest", "check version"}
AfterChain == {"open keys", "read keys", "walk"}
AfterLooking == {"open chain", "read chain"} \union AfterChain
AfterManifest == {"look for chain", "look for keys", "entries"} \union AfterLooking

OnTheWay ==
    /\ at \in Before => refused = FALSE /\ found.files = {} /\ found.prefix = <<>>
    /\ at = "manifest" => site.kind = "directory"
    /\ at = "archive" => site.kind # "directory"
    /\ archive # Nil => site.kind = "archive" /\ archive.entries = site.entries
    /\ at \in AtManifest =>
          /\ refused = FALSE /\ found.files = {}
          /\ Located(site, found.prefix)
          /\ ManifestContent = Content(site.entries, found.prefix, "manifest.json")
          /\ at \in {"parse manifest", "check version"} => ReadNames = {"manifest.json"}
          /\ at = "check version" => ManifestContent # "unparsable"
    /\ at \in AfterManifest =>
          /\ Located(site, found.prefix) /\ Good("manifest.json")
          /\ site.kind = "archive" => archive # Nil
          /\ "manifest.json" \in ReadNames

WhatWasLookedFor ==
    /\ at \in {"look for chain", "entries"} => refused = FALSE /\ found.files = {}
    /\ at = "look for keys" =>
          /\ found.files = IF There("chain.jsonl") /\ ~refused THEN {"chain.jsonl"} ELSE {}
          /\ refused => There("chain.jsonl")
    /\ at \in AfterLooking =>
          /\ There("chain.jsonl")
          /\ "keys.json" \in found.files <=> There("keys.json") /\ ~refused
          /\ refused => There("keys.json") /\ site.kind = "directory"

WhatWasRead ==
    /\ at \in AfterManifest \ AfterChain => ReadNames = {"manifest.json"}
    /\ at \in AfterChain => Good("chain.jsonl")
    /\ at \in {"open keys", "read keys"} => ReadNames = {"manifest.json", "chain.jsonl"}
    /\ at = "walk" =>
          IF "keys.json" \in found.files
            THEN Good("keys.json") /\ ReadNames = {"manifest.json", "chain.jsonl", "keys.json"}
            ELSE ReadNames = {"manifest.json", "chain.jsonl"}
    /\ at = "read chain" =>
          /\ opened.content = Content(site.entries, found.prefix, "chain.jsonl")
          /\ opened.source.name = "chain.jsonl"
    /\ at = "read keys" =>
          /\ "keys.json" \in found.files
          /\ opened.content = Content(site.entries, found.prefix, "keys.json")
          /\ opened.source.name = "keys.json"

\* JudgedIfWellFormed, before the deferred calls have run.
Judged ==
    LET this == AsPack(site)
    IN  /\ WellFormed(this) /\ ~refused => verdict = "judged"
        /\ verdict = "judged" =>
              IF refused \/ this.keys = Absent
                THEN /\ WellFormed([this EXCEPT !.keys = Absent])
                     /\ refused => this.keys # Absent /\ site.kind = "directory"
                     /\ ReadNames = {"manifest.json", "chain.jsonl"}
                ELSE /\ WellFormed(this)
                     /\ ReadNames = {"manifest.json", "chain.jsonl", "keys.json"}

JudgedInv ==
    replaced = 0 =>
        /\ OnTheWay /\ WhatWasLookedFor /\ WhatWasRead
        /\ at \in {"returning", "done"} => Judged

-----------------------------------------------------------------------------
(***************************************************************************)
(* A pack that is at one place is well-formed if its files there are, and  *)
(* a path without a place for a pack holds none.                           *)
(***************************************************************************)
LEMMA OnePlace ==
    ASSUME NEW s \in Sites \union Replacements, NEW dir, Located(s, dir)
    PROVE  Places(s) = {dir}
<1> DEFINE M == ManifestsOf(s)
           IsAt(n) == s.entries[n].dir
<1>1. IsEntries(s.entries) /\ M \in SUBSET DOMAIN s.entries
  BY SitesHaveEntries DEF ManifestsOf
<1>2. PICK k \in DOMAIN s.entries : s.entries[k].dir = dir /\ s.entries[k].name = "manifest.json"
  BY DEF Located, Has, Named
<1>3. Min(M) \in M /\ \A n \in M : Min(M) <= n
  <2>1. M # {}
    BY <1>2 DEF ManifestsOf
  <2> QED  BY <1>1, <2>1, TheFirst
<1>4. DOMAIN s.entries \subseteq Nat /\ DOMAIN s.entries = 1 .. Len(s.entries)
  BY <1>1 DEF IsEntries
<1>5. CASE s.kind = "directory" /\ dir = <<>>
  <2>1. IsPlace(s, dir)
    BY <1>2, <1>5 DEF IsPlace
  <2>2. \A d : IsPlace(s, d) => d = dir
    BY <1>5 DEF IsPlace
  <2> QED  BY <1>2, <2>1, <2>2 DEF Places
<1>6. CASE s.kind = "archive" /\ dir = s.entries[Min(M)].dir
  <2>1. Min(M) \in DOMAIN s.entries /\ s.entries[Min(M)].name = "manifest.json"
    BY <1>3 DEF ManifestsOf
  <2>2. \A m \in 1 .. Min(M) - 1 : s.entries[m].name # "manifest.json"
    <3> TAKE m \in 1 .. Min(M) - 1
    <3> HIDE DEF M
    <3>1. m \in DOMAIN s.entries /\ ~(Min(M) <= m)
      BY <1>4, <2>1
    <3>2. m \notin M
      BY <1>3, <3>1
    <3> QED  BY <3>1, <3>2 DEF M, ManifestsOf
  <2>3. IsPlace(s, dir)
    BY <1>6, <2>1, <2>2 DEF IsPlace
  <2>4. ASSUME NEW d, IsPlace(s, d) PROVE d = dir
    <3>1. PICK n \in DOMAIN s.entries :
              /\ s.entries[n].name = "manifest.json" /\ s.entries[n].dir = d
              /\ \A m \in 1 .. n - 1 : s.entries[m].name # "manifest.json"
      BY <1>6, <2>4 DEF IsPlace
    <3>2. Min(M) <= n
      BY <1>3, <3>1 DEF ManifestsOf
    <3>3. ~(Min(M) \in 1 .. n - 1)
      BY <2>1, <3>1
    <3> HIDE DEF M
    <3>4. Min(M) = n
      BY <1>4, <2>1, <3>1, <3>2, <3>3
    <3> QED  BY <1>6, <3>1, <3>4
  <2> QED  BY <2>1, <2>3, <2>4, <1>6 DEF Places
<1> QED  BY <1>5, <1>6 DEF Located

LEMMA NoPlace ==
    ASSUME NEW s \in Sites \union Replacements,
           \/ s.kind \in {"nothing", "other"}
           \/ s.kind = "directory" /\ ~Has(s.entries, <<>>, "manifest.json")
           \/ s.kind = "archive" /\ ManifestsOf(s) = {}
    PROVE  ~WellFormed(AsPack(s))
<1>1. s.kind \in {"nothing", "other"} => DOMAIN s.entries = {}
  BY PackFilesAssumption DEF SitesAreTyped
<1>2. Places(s) = {}
  BY <1>1 DEF Places, IsPlace, Has, Named, ManifestsOf
<1>3. FileOf(s, "manifest.json") = "absent"
  BY <1>2 DEF FileOf
<1> QED  BY <1>3 DEF AsPack, WellFormed, Openable

LEMMA ContentsAreKnown ==
    ASSUME NEW entries, IsEntries(entries), NEW dir, NEW name, Has(entries, dir, name)
    PROVE  Content(entries, dir, name) \in {"ok", "unsupported", "unparsable"}
<1>1. Named(entries, dir, name) \in SUBSET DOMAIN entries /\ Named(entries, dir, name) # {}
  BY DEF Has, Named
<1>2. Min(Named(entries, dir, name)) \in DOMAIN entries
  BY <1>1, TheFirst
<1> QED  BY <1>2 DEF Content, IsEntries

LEMMA WellFormedThere ==
    ASSUME NEW s \in Sites \union Replacements, NEW dir, Located(s, dir)
    PROVE  LET this == AsPack(s)
               Is(name) == Has(s.entries, dir, name)
               IsGood(name) == Is(name) /\ Content(s.entries, dir, name) = "ok"
           IN  /\ this.keys # Absent <=> Is("keys.json")
               /\ WellFormed([this EXCEPT !.keys = Absent]) <=>
                     IsGood("manifest.json") /\ IsGood("chain.jsonl")
               /\ WellFormed(this) <=>
                     /\ IsGood("manifest.json") /\ IsGood("chain.jsonl")
                     /\ Is("keys.json") => IsGood("keys.json")
<1> DEFINE this == AsPack(s)
           Is(name) == Has(s.entries, dir, name)
           What(name) == Content(s.entries, dir, name)
           bare == [this EXCEPT !.keys = Absent]
<1>1. \A name : FileOf(s, name) = IF Is(name) THEN What(name) ELSE "absent"
  <2>1. Places(s) = {dir}
    BY OnePlace
  <2>2. (CHOOSE d \in {dir} : TRUE) = dir
    OBVIOUS
  <2> QED  BY <2>1, <2>2 DEF FileOf
<1>2. \A name : Is(name) => What(name) \in {"ok", "unsupported", "unparsable"}
  BY SitesHaveEntries, ContentsAreKnown
<1>3. /\ Absent # BadKeys /\ Absent # <<>> /\ BadKeys # <<>> /\ BadLine # Blank
      /\ <<>> # <<BadLine>>
  <2>1. <<>> \in Seq(KeyRecord) /\ <<>> # <<BadLine>>
    OBVIOUS
  <2>2. {Absent, BadKeys} \cap Seq(KeyRecord) = {} /\ Absent # BadKeys
    BY PackAssumption
  <2> QED  BY <2>1, <2>2, DifferentLines
<1> HIDE DEF Is, What
<1>4. /\ this.manifest = FileOf(s, "manifest.json")
      /\ this.chain = OneOf(FileOf(s, "chain.jsonl"), <<>>, <<BadLine>>)
      /\ this.keys = OneOf(FileOf(s, "keys.json"), <<>>, BadKeys)
      /\ bare.manifest = this.manifest /\ bare.chain = this.chain /\ bare.keys = Absent
  BY DEF AsPack
<1>5. this.manifest = "ok" <=> Is("manifest.json") /\ What("manifest.json") = "ok"
  BY <1>1, <1>4
<1>6. this.keys # Absent <=> Is("keys.json")
  BY <1>1, <1>2, <1>3, <1>4 DEF OneOf
<1>7. this.keys # BadKeys <=> (Is("keys.json") => What("keys.json") = "ok")
  BY <1>1, <1>2, <1>3, <1>4 DEF OneOf
<1>8. /\ this.chain \in {<<>>, Absent, <<BadLine>>}
      /\ this.chain = <<>> <=> Is("chain.jsonl") /\ What("chain.jsonl") = "ok"
  BY <1>1, <1>2, <1>3, <1>4 DEF OneOf
<1> HIDE DEF this, bare
<1>9. ASSUME NEW p, p.chain = this.chain
      PROVE  p.chain # Absent /\ Readable(p) <=> this.chain = <<>>
  <2>1. this.chain = <<>> => p.chain # Absent /\ Readable(p)
    BY <1>3, <1>9 DEF Readable
  <2>2. p.chain = <<BadLine>> => ~Readable(p)
    BY <1>3 DEF Readable, Parses
  <2> QED  BY <1>8, <1>9, <2>1, <2>2
<1>10. WellFormed(bare) <=> this.manifest = "ok" /\ this.chain = <<>>
  BY <1>3, <1>4, <1>9 DEF WellFormed, Openable
<1>11. WellFormed(this) <=> this.manifest = "ok" /\ this.chain = <<>> /\ this.keys # BadKeys
  BY <1>9 DEF WellFormed, Openable
<1> QED  BY <1>5, <1>6, <1>7, <1>8, <1>10, <1>11 DEF this, bare, Is, What

-----------------------------------------------------------------------------
LEMMA JudgedInitInv == Init => JudgedInv
<1> SUFFICES ASSUME Init PROVE JudgedInv
  OBVIOUS
<1>1. at = "stat" /\ refused = FALSE /\ found = [prefix |-> <<>>, files |-> {}] /\ archive = Nil
  BY DEF Init
<1> QED  BY <1>1 DEF JudgedInv, OnTheWay, WhatWasLookedFor, WhatWasRead, Before, AtManifest,
                     AfterManifest, AfterLooking, AfterChain

\* Until the archive is open, and then too, what is here is what is there.
LEMMA HereIsThere ==
    ASSUME FilesInv, OnTheWay, at \in AfterManifest \union {"manifest"}
    PROVE  Here.entries = site.entries
<1>1. CASE archive # Nil
  BY <1>1 DEF OnTheWay, Here
<1>2. CASE archive = Nil
  <2>1. site.kind = "directory"
    BY <1>2 DEF OnTheWay, Located
  <2> QED  BY <1>2, <2>1 DEF Here
<1> QED  BY <1>1, <1>2

\* A return with an error, of a pack that is bad or that was refused.
LEMMA GivesUp ==
    ASSUME FilesInv, OnTheWay, at' = "returning", verdict' = "malformed",
           UNCHANGED <<site, archive>>,
           ~refused' => ~WellFormed(AsPack(site))
    PROVE  JudgedInv'
<1>1. OnTheWay' /\ WhatWasLookedFor' /\ WhatWasRead'
  BY DEF OnTheWay, WhatWasLookedFor, WhatWasRead, Before, AtManifest, AfterManifest,
         AfterLooking, AfterChain
<1>2. Judged'
  BY DEF Judged
<1> QED  BY <1>1, <1>2 DEF JudgedInv

\* From one call to the next the pack stays where it was found.
LEMMA StaysOnTheWay ==
    ASSUME OnTheWay, at \in AfterManifest, at' \in AfterManifest,
           UNCHANGED <<site, archive>>, found'.prefix = found.prefix,
           "manifest.json" \in ReadNames'
    PROVE  OnTheWay'
BY DEF OnTheWay, Before, AtManifest, AfterManifest, AfterLooking, AfterChain, Good, There

LEMMA StatJudged ==
    ASSUME FilesInv, JudgedInv, replaced = 0, Stat
    PROVE  JudgedInv'
<1>1. OnTheWay /\ site \in Sites \union Replacements /\ archive = Nil /\ at \in Before
      /\ UNCHANGED <<site, archive, found, sources>> /\ refused \in BOOLEAN
  BY DEF JudgedInv, FilesInv, SiteOK, Before, Stat, pathVars, HandlesMatch, InDirectory,
         FilesTypeOK
<1>2. CASE Abandon(site.kind = "nothing")
  <2>1. ~refused' => ~WellFormed(AsPack(site))
    BY <1>1, <1>2, NoPlace DEF Abandon
  <2> QED  BY <1>1, <1>2, <2>1, GivesUp DEF Abandon
<1>3. CASE \/ site.kind = "directory" /\ GoOn("manifest")
           \/ site.kind \in {"archive", "other"} /\ GoOn("archive")
  BY <1>1, <1>3 DEF GoOn, JudgedInv, OnTheWay, WhatWasLookedFor, WhatWasRead, Before, AtManifest,
                    AfterManifest, AfterLooking, AfterChain
<1> QED  BY <1>2, <1>3 DEF Stat

LEMMA ReadManifestJudged ==
    ASSUME FilesInv, JudgedInv, replaced = 0, ReadManifest
    PROVE  JudgedInv'
<1> DEFINE ok == /\ Has(Here.entries, <<>>, "manifest.json")
                 /\ Content(Here.entries, <<>>, "manifest.json") = "ok"
<1>1. /\ OnTheWay /\ site \in Sites \union Replacements /\ archive = Nil
      /\ at = "manifest" /\ site.kind = "directory" /\ refused = FALSE
      /\ found.files = {} /\ found.prefix = <<>>
      /\ UNCHANGED <<site, archive, found>>
  BY DEF JudgedInv, FilesInv, SiteOK, OnTheWay, Before, ReadManifest, pathVars,
         HandlesMatch, InDirectory
<1>2. Here.entries = site.entries
  BY <1>1, HereIsThere
<1>3. Has(site.entries, <<>>, "manifest.json") => Located(site, <<>>)
  BY <1>1 DEF Located
<1>4. CASE Abandon(~ok)
  <2>1. ~ok => ~WellFormed(AsPack(site))
    BY <1>1, <1>2, <1>3, NoPlace, WellFormedThere
  <2>2. ~refused' => ~WellFormed(AsPack(site))
    BY <1>4, <2>1 DEF Abandon
  <2> QED  BY <1>1, <1>4, <2>2, GivesUp DEF Abandon
<1>5. CASE ok /\ GoOn("look for chain") /\ sources' = <<From("manifest.json")>>
  <2>1. Located(site, <<>>) /\ Content(site.entries, <<>>, "manifest.json") = "ok"
    BY <1>2, <1>3, <1>5
  <2>2. ReadNames' = {"manifest.json"}
    <3>1. From("manifest.json").name = "manifest.json"
      BY DEF From
    <3> DEFINE source == From("manifest.json")
    <3>2. sources' = <<source>>
      BY <1>5
    <3> HIDE DEF source
    <3>3. DOMAIN sources' = {1} /\ sources'[1] = source
      BY ONLY <3>2
    <3> QED  BY <3>1, <3>3 DEF ReadNames, source
  <2>3. at' = "look for chain" /\ UNCHANGED <<verdict, refused>>
    BY <1>5 DEF GoOn
  <2>4. OnTheWay'
    BY <1>1, <2>1, <2>2, <2>3 DEF OnTheWay, Before, AtManifest, AfterManifest, AfterLooking, AfterChain,
                                  Good, There, Located
  <2>5. WhatWasLookedFor' /\ WhatWasRead'
    BY <1>1, <2>2, <2>3 DEF WhatWasLookedFor, WhatWasRead, AfterManifest, AfterLooking, AfterChain
  <2> QED  BY <2>3, <2>4, <2>5 DEF JudgedInv
<1> QED  BY <1>4, <1>5 DEF ReadManifest

LEMMA LookForChainJudged ==
    ASSUME FilesInv, JudgedInv, replaced = 0, LookForChain
    PROVE  JudgedInv'
<1>1. /\ OnTheWay /\ at = "look for chain" /\ at' = "look for keys"
      /\ archive = Nil /\ refused = FALSE /\ found.files = {} /\ ReadNames = {"manifest.json"}
      /\ found \in [prefix : Seq(Dirs), files : SUBSET {"chain.jsonl", "keys.json"}]
      /\ UNCHANGED <<site, archive, sources>>
  BY DEF JudgedInv, FilesInv, FilesTypeOK, LookForChain, pathVars, WhatWasLookedFor,
         WhatWasRead, AfterManifest, AfterChain, HandlesMatch, InDirectory
<1>2. Here.entries = site.entries /\ found.prefix = <<>>
  <2>1. site.kind = "directory"
    BY <1>1 DEF OnTheWay, AfterManifest, Located
  <2> QED  BY <1>1, <2>1, HereIsThere DEF OnTheWay, AfterManifest, Located
<1>3. /\ found'.prefix = found.prefix /\ refused' \in BOOLEAN
      /\ found'.files = IF There("chain.jsonl") /\ ~refused' THEN {"chain.jsonl"} ELSE {}
      /\ refused' => There("chain.jsonl")
  BY <1>1, <1>2 DEF LookForChain, LookFor, There
<1>4. OnTheWay' /\ ReadNames' = {"manifest.json"}
  BY <1>1, <1>3, StaysOnTheWay DEF ReadNames, AfterManifest
<1>5. WhatWasLookedFor' /\ WhatWasRead'
  BY <1>1, <1>3, <1>4 DEF WhatWasLookedFor, WhatWasRead, AfterManifest, AfterLooking,
                          AfterChain, There
<1> QED  BY <1>1, <1>4, <1>5 DEF JudgedInv

LEMMA LookForKeysJudged ==
    ASSUME FilesInv, JudgedInv, replaced = 0, LookForKeys
    PROVE  JudgedInv'
<1>1. /\ OnTheWay /\ at = "look for keys" /\ archive = Nil /\ refused \in BOOLEAN
      /\ found.files = IF There("chain.jsonl") /\ ~refused THEN {"chain.jsonl"} ELSE {}
      /\ refused => There("chain.jsonl")
      /\ ReadNames = {"manifest.json"} /\ site \in Sites \union Replacements
      /\ found \in [prefix : Seq(Dirs), files : SUBSET {"chain.jsonl", "keys.json"}]
      /\ UNCHANGED <<site, archive, sources>>
  BY DEF JudgedInv, FilesInv, FilesTypeOK, LookForKeys, pathVars, WhatWasLookedFor, SiteOK,
         WhatWasRead, AfterManifest, AfterChain, HandlesMatch, InDirectory
<1>2. Here.entries = site.entries /\ found.prefix = <<>> /\ site.kind = "directory"
  <2>1. site.kind = "directory"
    BY <1>1 DEF OnTheWay, AfterManifest, Located
  <2> QED  BY <1>1, <2>1, HereIsThere DEF OnTheWay, AfterManifest, Located
<1>3. /\ found'.prefix = found.prefix /\ refused' \in BOOLEAN
      /\ refused => refused'
      /\ ~refused => /\ "keys.json" \in found'.files <=> There("keys.json") /\ ~refused'
                     /\ refused' => There("keys.json")
  <2> DEFINE there == There("keys.json")
             more == [found EXCEPT !.files = @ \union {"keys.json"}]
  <2>1. \/ found' = (IF there THEN more ELSE found) /\ refused' = refused
        \/ there /\ refused' = TRUE /\ found' = found
    BY <1>2 DEF LookForKeys, LookFor, There
  <2>2. more.prefix = found.prefix /\ more.files = found.files \union {"keys.json"}
    BY <1>1
  <2>3. "keys.json" \notin found.files
    BY <1>1
  <2>4. refused' \in BOOLEAN
    BY <1>1, <2>1
  <2> HIDE DEF there, more
  <2>5. CASE found' = (IF there THEN more ELSE found) /\ refused' = refused
    <3>1. found'.prefix = found.prefix /\ ("keys.json" \in found'.files <=> there)
      BY <2>2, <2>3, <2>5
    <3> QED  BY <1>1, <2>4, <2>5, <3>1 DEF there
  <2>6. CASE there /\ refused' = TRUE /\ found' = found
    BY <2>3, <2>6 DEF there
  <2> QED  BY <2>1, <2>5, <2>6
<1>4. CASE "chain.jsonl" \in found.files
  <2>1. at' = "open chain" /\ There("chain.jsonl") /\ refused = FALSE
    BY <1>1, <1>4 DEF LookForKeys
  <2>2. OnTheWay' /\ ReadNames' = {"manifest.json"}
    BY <1>1, <1>3, <2>1, StaysOnTheWay DEF ReadNames, AfterManifest, AfterLooking
  <2>3. WhatWasLookedFor' /\ WhatWasRead'
    BY <1>1, <1>2, <1>3, <2>1, <2>2 DEF WhatWasLookedFor, WhatWasRead, AfterManifest,
                                        AfterLooking, AfterChain, There
  <2> QED  BY <2>1, <2>2, <2>3 DEF JudgedInv
<1>5. CASE "chain.jsonl" \notin found.files
  <2>1. at' = "returning" /\ verdict' = "malformed"
    BY <1>5 DEF LookForKeys
  <2>2. ~refused' => ~There("chain.jsonl")
    BY <1>1, <1>3, <1>5
  <2>3. ~refused' => ~WellFormed(AsPack(site))
    BY <1>1, <2>2, WellFormedThere DEF There, OnTheWay, AfterManifest
  <2> QED  BY <1>1, <2>1, <2>3, GivesUp
<1> QED  BY <1>4, <1>5

LEMMA OpenArchiveJudged ==
    ASSUME FilesInv, JudgedInv, replaced = 0, OpenArchive
    PROVE  JudgedInv'
<1>1. /\ OnTheWay /\ site \in Sites \union Replacements /\ at = "archive"
      /\ site.kind # "directory" /\ archive = Nil /\ refused = FALSE
      /\ found.files = {} /\ found.prefix = <<>> /\ UNCHANGED <<site, found, sources>>
  BY DEF JudgedInv, FilesInv, SiteOK, OnTheWay, Before, OpenArchive, pathVars,
         HandlesMatch, InDirectory
<1>2. CASE Abandon(site.kind # "archive") /\ UNCHANGED <<archive, handles>>
  <2>1. site.kind # "archive" => ~WellFormed(AsPack(site))
    BY <1>1, NoPlace, PackFilesAssumption DEF SitesAreTyped
  <2>2. ~refused' => ~WellFormed(AsPack(site))
    BY <1>2, <2>1 DEF Abandon
  <2> QED  BY <1>1, <1>2, <2>2, GivesUp DEF Abandon
<1>3. CASE /\ site.kind = "archive" /\ GoOn("find manifest")
           /\ archive' = [entries |-> site.entries, number |-> replaced]
  BY <1>1, <1>3 DEF GoOn, JudgedInv, OnTheWay, WhatWasLookedFor, WhatWasRead, Before, AtManifest,
                    AfterManifest, AfterLooking, AfterChain
<1> QED  BY <1>2, <1>3 DEF OpenArchive

\* The first manifest of an archive is the first one in its directory.
LEMMA FirstIsNamed ==
    ASSUME NEW entries, IsEntries(entries), NEW M,
           M = {n \in DOMAIN entries : entries[n].name = "manifest.json"}, M # {}
    PROVE  LET dir == entries[Min(M)].dir
           IN  /\ Has(entries, dir, "manifest.json")
               /\ Content(entries, dir, "manifest.json") = entries[Min(M)].content
<1> DEFINE dir == entries[Min(M)].dir
           N == Named(entries, dir, "manifest.json")
<1>1. Min(M) \in M /\ \A n \in M : Min(M) <= n
  BY TheFirst
<1>2. Min(M) \in N /\ N \subseteq M /\ N \subseteq DOMAIN entries
  BY <1>1 DEF Named
<1>3. Min(N) \in N /\ \A n \in N : Min(N) <= n
  BY <1>2, TheFirst
<1>4. Min(M) \in Nat /\ Min(N) \in Nat
  BY <1>1, <1>2, <1>3 DEF IsEntries
<1> HIDE DEF N
<1>5. Min(N) = Min(M)
  BY <1>1, <1>2, <1>3, <1>4
<1> QED  BY <1>2, <1>5 DEF N, Has, Content

LEMMA FindManifestJudged ==
    ASSUME FilesInv, JudgedInv, replaced = 0, FindManifest
    PROVE  JudgedInv'
<1> DEFINE M == ManifestsOf(site)
           dir == site.entries[Min(M)].dir
<1>1. /\ OnTheWay /\ site \in Sites \union Replacements /\ archive # Nil
      /\ at = "find manifest" /\ refused = FALSE /\ found.files = {}
      /\ site.kind = "archive" /\ archive.entries = site.entries
      /\ found \in [prefix : Seq(Dirs), files : SUBSET {"chain.jsonl", "keys.json"}]
      /\ UNCHANGED <<site, archive>>
  BY DEF JudgedInv, FilesInv, FilesTypeOK, SiteOK, OnTheWay, Before, FindManifest,
         pathVars, HandlesMatch, InArchive
<1>2. /\ M = {n \in DOMAIN site.entries : site.entries[n].name = "manifest.json"}
      /\ Manifests = M /\ FirstManifest = Min(M) /\ PrefixOf(FirstManifest) = dir
      /\ ManifestContent' = site.entries[Min(M)].content
  BY <1>1 DEF Manifests, ManifestsOf, FirstManifest, PrefixOf, ManifestContent
<1>3. CASE Manifests = {} /\ Abandon(TRUE)
  <2>1. ~WellFormed(AsPack(site))
    BY <1>1, <1>2, <1>3, NoPlace
  <2> QED  BY <1>1, <1>3, <2>1, GivesUp DEF Abandon
<1>4. CASE /\ Manifests # {} /\ GoOn("open manifest")
           /\ found' = [found EXCEPT !.prefix = PrefixOf(FirstManifest)]
  <2>1. found'.prefix = dir /\ found'.files = {} /\ at' = "open manifest" /\ refused' = FALSE
    BY <1>1, <1>2, <1>4 DEF GoOn
  <2>2. IsEntries(site.entries)
    BY <1>1, SitesHaveEntries
  <2>3. M # {}
    BY <1>2, <1>4
  <2> HIDE DEF M
  <2>4. /\ Has(site.entries, dir, "manifest.json")
        /\ Content(site.entries, dir, "manifest.json") = site.entries[Min(M)].content
    BY <1>2, <2>2, <2>3, FirstIsNamed
  <2>5. Located(site, dir)
    BY <1>1, <2>4 DEF Located, M
  <2> HIDE DEF dir
  <2>6. OnTheWay'
    BY <1>1, <1>2, <2>1, <2>4, <2>5 DEF OnTheWay, Before, AtManifest, AfterManifest,
                                        AfterLooking, AfterChain, Located
  <2>7. WhatWasLookedFor' /\ WhatWasRead'
    BY <2>1 DEF WhatWasLookedFor, WhatWasRead, AfterManifest, AfterLooking, AfterChain
  <2> QED  BY <2>1, <2>6, <2>7 DEF JudgedInv
<1> QED  BY <1>3, <1>4 DEF FindManifest

\* What is known at each call on the manifest of an archive.
LEMMA KnownAtManifest ==
    ASSUME FilesInv, JudgedInv, replaced = 0, at \in AtManifest
    PROVE  /\ OnTheWay /\ site \in Sites \union Replacements
           /\ archive # Nil /\ site.kind = "archive" /\ archive.entries = site.entries
           /\ refused = FALSE /\ found.files = {} /\ Located(site, found.prefix)
           /\ ManifestContent = Content(site.entries, found.prefix, "manifest.json")
           /\ ManifestContent \in {"ok", "unsupported", "unparsable"}
           /\ ManifestContent # "ok" => ~WellFormed(AsPack(site))
<1>1. /\ OnTheWay /\ site \in Sites \union Replacements /\ archive # Nil
  BY DEF JudgedInv, FilesInv, SiteOK, HandlesMatch, InArchive, AtManifest
<1>2. /\ site.kind = "archive" /\ archive.entries = site.entries
      /\ refused = FALSE /\ found.files = {} /\ Located(site, found.prefix)
      /\ ManifestContent = Content(site.entries, found.prefix, "manifest.json")
  BY <1>1 DEF OnTheWay
<1>3. ManifestContent # "ok" => ~WellFormed(AsPack(site))
  BY <1>1, <1>2, WellFormedThere
<1>4. ManifestContent \in {"ok", "unsupported", "unparsable"}
  BY <1>1, <1>2, SitesHaveEntries, ContentsAreKnown DEF Located
<1> QED  BY <1>1, <1>2, <1>3, <1>4

\* From one call on the manifest to the next nothing else becomes known.
LEMMA StaysAtManifest ==
    ASSUME OnTheWay, at \in AtManifest, at' \in AtManifest, archive # Nil,
           UNCHANGED <<site, archive, found, refused>>,
           at' \in {"parse manifest", "check version"} => ReadNames' = {"manifest.json"},
           at' = "check version" => ManifestContent # "unparsable"
    PROVE  OnTheWay' /\ WhatWasLookedFor' /\ WhatWasRead'
<1>1. ManifestContent' = ManifestContent
  BY DEF ManifestContent, FirstManifest, Manifests
<1>2. OnTheWay'
  BY <1>1 DEF OnTheWay, Before, AtManifest, AfterManifest, AfterLooking, AfterChain
<1>3. WhatWasLookedFor' /\ WhatWasRead'
  BY DEF WhatWasLookedFor, WhatWasRead, AtManifest, AfterManifest, AfterLooking, AfterChain
<1> QED  BY <1>2, <1>3

LEMMA OpenArchiveManifestJudged ==
    ASSUME FilesInv, JudgedInv, replaced = 0, OpenArchiveManifest
    PROVE  JudgedInv'
<1>1. at \in AtManifest /\ UNCHANGED <<site, archive, found, sources>>
  BY DEF OpenArchiveManifest, AtManifest, pathVars
<1>2. CASE GoOn("read manifest")
  <2>1. at' = "read manifest" /\ at' \in AtManifest /\ UNCHANGED refused
    BY <1>2 DEF GoOn, AtManifest
  <2> QED  BY <1>1, <2>1, KnownAtManifest, StaysAtManifest DEF JudgedInv
<1>3. CASE Abandon(ManifestContent = "unparsable")
  BY <1>1, <1>3, KnownAtManifest, GivesUp DEF Abandon
<1> QED  BY <1>2, <1>3 DEF OpenArchiveManifest

LEMMA ReadArchiveManifestJudged ==
    ASSUME FilesInv, JudgedInv, replaced = 0, ReadArchiveManifest
    PROVE  JudgedInv'
<1>1. at \in AtManifest /\ UNCHANGED <<site, archive, found>>
  BY DEF ReadArchiveManifest, AtManifest, pathVars
<1>2. CASE GoOn("parse manifest") /\ sources' = <<From("manifest.json")>>
  <2> DEFINE source == From("manifest.json")
  <2>1. at' = "parse manifest" /\ at' \in AtManifest /\ UNCHANGED refused
    BY <1>2 DEF GoOn, AtManifest
  <2>2. sources' = <<source>> /\ source.name = "manifest.json"
    BY <1>2 DEF From
  <2> HIDE DEF source
  <2>3. DOMAIN sources' = {1} /\ sources'[1] = source
    BY ONLY <2>2
  <2>4. ReadNames' = {"manifest.json"}
    BY <2>2, <2>3 DEF ReadNames
  <2> QED  BY <1>1, <2>1, <2>4, KnownAtManifest, StaysAtManifest DEF JudgedInv
<1>3. CASE Abandon(ManifestContent = "unparsable")
  BY <1>1, <1>3, KnownAtManifest, GivesUp DEF Abandon
<1> QED  BY <1>2, <1>3 DEF ReadArchiveManifest

LEMMA ParseArchiveManifestJudged ==
    ASSUME FilesInv, JudgedInv, replaced = 0, ParseArchiveManifest
    PROVE  JudgedInv'
<1>1. at = "parse manifest" /\ at \in AtManifest /\ UNCHANGED <<site, archive, found, sources>>
  BY DEF ParseArchiveManifest, AtManifest, pathVars
<1>2. CASE ManifestContent # "unparsable" /\ GoOn("check version")
  <2>1. at' = "check version" /\ at' \in AtManifest /\ UNCHANGED refused
    BY <1>2 DEF GoOn, AtManifest
  <2>2. ReadNames' = {"manifest.json"}
    BY <1>1, KnownAtManifest DEF OnTheWay, ReadNames
  <2> QED  BY <1>1, <1>2, <2>1, <2>2, KnownAtManifest, StaysAtManifest DEF JudgedInv
<1>3. CASE ManifestContent = "unparsable" /\ Abandon(TRUE)
  BY <1>1, <1>3, KnownAtManifest, GivesUp DEF Abandon
<1> QED  BY <1>2, <1>3 DEF ParseArchiveManifest

LEMMA CheckArchiveVersionJudged ==
    ASSUME FilesInv, JudgedInv, replaced = 0, CheckArchiveVersion
    PROVE  JudgedInv'
<1>1. /\ at = "check version" /\ at \in AtManifest
      /\ UNCHANGED <<site, archive, found, sources>>
  BY DEF CheckArchiveVersion, AtManifest, pathVars
<1>2. CASE ManifestContent # "unsupported" /\ GoOn("entries")
  <2>1. at' = "entries" /\ UNCHANGED refused
    BY <1>2 DEF GoOn
  <2>2. Good("manifest.json") /\ ReadNames' = {"manifest.json"}
    BY <1>1, <1>2, KnownAtManifest DEF OnTheWay, ReadNames, Good, There, Located
  <2>3. OnTheWay'
    BY <1>1, <2>1, <2>2, KnownAtManifest DEF OnTheWay, Before, AtManifest, AfterManifest,
                                             AfterLooking, AfterChain, Good, There
  <2>4. WhatWasLookedFor' /\ WhatWasRead'
    BY <1>1, <2>1, <2>2, KnownAtManifest DEF WhatWasLookedFor, WhatWasRead, AfterManifest,
                                             AfterLooking, AfterChain
  <2> QED  BY <2>1, <2>3, <2>4 DEF JudgedInv
<1>3. CASE ManifestContent = "unsupported" /\ Abandon(TRUE)
  BY <1>1, <1>3, KnownAtManifest, GivesUp DEF Abandon
<1> QED  BY <1>2, <1>3 DEF CheckArchiveVersion

LEMMA FindEntriesJudged ==
    ASSUME FilesInv, JudgedInv, replaced = 0, FindEntries
    PROVE  JudgedInv'
<1>1. /\ OnTheWay /\ site \in Sites \union Replacements /\ archive.entries = site.entries
      /\ at = "entries" /\ refused = FALSE /\ ReadNames = {"manifest.json"}
      /\ found \in [prefix : Seq(Dirs), files : SUBSET {"chain.jsonl", "keys.json"}]
      /\ UNCHANGED <<site, archive, sources>>
  BY DEF JudgedInv, FilesInv, FilesTypeOK, SiteOK, OnTheWay, FindEntries, WhatWasLookedFor,
         WhatWasRead, AfterManifest, AfterChain, pathVars, HandlesMatch, InArchive
<1>2. /\ found'.prefix = found.prefix
      /\ found'.files = {name \in {"chain.jsonl", "keys.json"} : There(name)}
  BY <1>1 DEF FindEntries, There
<1>3. CASE There("chain.jsonl") /\ GoOn("open chain")
  <2>1. at' = "open chain" /\ refused' = FALSE
    BY <1>1, <1>3 DEF GoOn
  <2>2. OnTheWay' /\ ReadNames' = {"manifest.json"}
    BY <1>1, <1>2, <2>1, StaysOnTheWay DEF ReadNames, AfterManifest, AfterLooking
  <2>3. WhatWasLookedFor' /\ WhatWasRead'
    BY <1>1, <1>2, <1>3, <2>1, <2>2 DEF WhatWasLookedFor, WhatWasRead, AfterManifest,
                                        AfterLooking, AfterChain, There
  <2> QED  BY <2>1, <2>2, <2>3 DEF JudgedInv
<1>4. CASE ~There("chain.jsonl") /\ Abandon(TRUE)
  <2>1. ~WellFormed(AsPack(site))
    BY <1>1, <1>4, WellFormedThere DEF There, OnTheWay, AfterManifest
  <2> QED  BY <1>1, <1>4, <2>1, GivesUp DEF Abandon
<1> QED  BY <1>1, <1>3, <1>4 DEF FindEntries, There

-----------------------------------------------------------------------------
\* Whatever is read, its name is one more.
LEMMA OneMoreName ==
    ASSUME FilesInv, at \in {"read chain", "read keys"},
           sources' = Append(sources, opened.source)
    PROVE  ReadNames' = ReadNames \union {opened.source.name}
<1> DEFINE s == opened.source
<1>1. sources \in Seq(Source) /\ s \in Source
  BY DEF FilesInv, FilesTypeOK, OpenedOK, Source
<1>2. sources' = Append(sources, s)
  OBVIOUS
<1> HIDE DEF s
<1>3. /\ Append(sources, s) \in Seq(Source) /\ Len(Append(sources, s)) = Len(sources) + 1
      /\ \A n \in 1 .. Len(sources) : Append(sources, s)[n] = sources[n]
      /\ Append(sources, s)[Len(sources) + 1] = s
  BY ONLY <1>1, AppendProperties
<1>4. /\ DOMAIN sources = 1 .. Len(sources) /\ Len(sources) \in Nat
      /\ DOMAIN sources' = 1 .. Len(sources) + 1
  <2>1. sources \in Seq(Source) /\ sources' \in Seq(Source)
    BY <1>1, <1>2, <1>3
  <2>2. Len(sources') = Len(sources) + 1
    BY <1>2, <1>3
  <2> QED  BY ONLY <2>1, <2>2
<1>5. DOMAIN sources' = DOMAIN sources \union {Len(sources) + 1}
  BY ONLY <1>4
<1>6. \A n \in DOMAIN sources : sources'[n] = sources[n]
  BY <1>2, <1>3, <1>4
<1>7. sources'[Len(sources) + 1] = s
  BY <1>2, <1>3
<1>8. ReadNames' = {sources'[n].name : n \in DOMAIN sources \union {Len(sources) + 1}}
  BY <1>5 DEF ReadNames
<1>9. ReadNames' = ReadNames \union {s.name}
  BY ONLY <1>6, <1>7, <1>8 DEF ReadNames
<1> QED  BY <1>9 DEF s

LEMMA OpenChainJudged ==
    ASSUME FilesInv, JudgedInv, replaced = 0, OpenChain
    PROVE  JudgedInv'
<1>1. /\ OnTheWay /\ WhatWasLookedFor /\ at = "open chain"
      /\ ReadNames = {"manifest.json"} /\ There("chain.jsonl")
      /\ UNCHANGED <<site, archive, found, sources>>
  BY DEF JudgedInv, OpenChain, pathVars, WhatWasLookedFor, WhatWasRead, AfterManifest,
         AfterLooking, AfterChain
<1>2. Here.entries = site.entries
  BY <1>1, HereIsThere DEF AfterManifest, AfterLooking
<1>3. CASE Abandon(~Has(Here.entries, found.prefix, "chain.jsonl"))
  <2>1. at' = "returning" /\ verdict' = "malformed" /\ refused' = TRUE
    BY <1>1, <1>2, <1>3 DEF Abandon, There
  <2> QED  BY <1>1, <2>1, GivesUp
<1>4. CASE OpenFile("chain.jsonl", "chain") /\ GoOn("read chain")
  <2>1. /\ at' = "read chain" /\ UNCHANGED refused
        /\ opened'.content = Content(site.entries, found.prefix, "chain.jsonl")
        /\ opened'.source.name = "chain.jsonl"
    BY <1>2, <1>4 DEF OpenFile, GoOn, From
  <2>2. OnTheWay' /\ ReadNames' = {"manifest.json"}
    BY <1>1, <2>1, StaysOnTheWay DEF ReadNames, AfterManifest, AfterLooking
  <2>3. WhatWasLookedFor' /\ WhatWasRead'
    BY <1>1, <2>1, <2>2 DEF WhatWasLookedFor, WhatWasRead, AfterManifest, AfterLooking,
                            AfterChain, There
  <2> QED  BY <2>1, <2>2, <2>3 DEF JudgedInv
<1> QED  BY <1>3, <1>4 DEF OpenChain

LEMMA ReadChainJudged ==
    ASSUME FilesInv, JudgedInv, replaced = 0, ReadChain
    PROVE  JudgedInv'
<1>1. /\ OnTheWay /\ WhatWasLookedFor /\ at = "read chain" /\ refused \in BOOLEAN
      /\ ReadNames = {"manifest.json"} /\ There("chain.jsonl")
      /\ opened.content = Content(site.entries, found.prefix, "chain.jsonl")
      /\ opened.source.name = "chain.jsonl" /\ site \in Sites \union Replacements
      /\ UNCHANGED <<site, archive, found>> /\ sources' = Append(sources, opened.source)
  BY DEF JudgedInv, FilesInv, FilesTypeOK, SiteOK, ReadChain, pathVars, WhatWasLookedFor,
         WhatWasRead, AfterManifest, AfterLooking, AfterChain
<1>2. ReadNames' = {"manifest.json", "chain.jsonl"}
  BY <1>1, OneMoreName
<1>3. CASE Abandon(opened.content # "ok")
  <2>1. opened.content # "ok" => ~WellFormed(AsPack(site))
    BY <1>1, WellFormedThere DEF OnTheWay, AfterManifest, AfterLooking
  <2>2. ~refused' => ~WellFormed(AsPack(site))
    BY <1>3, <2>1 DEF Abandon
  <2> QED  BY <1>1, <1>3, <2>2, GivesUp DEF Abandon
<1>4. CASE opened.content = "ok" /\ GoOn("open keys")
  <2>1. at' = "open keys" /\ UNCHANGED refused /\ Good("chain.jsonl")
    BY <1>1, <1>4 DEF GoOn, Good
  <2>2. OnTheWay'
    BY <1>1, <1>2, <2>1, StaysOnTheWay DEF AfterManifest, AfterLooking, AfterChain
  <2>3. WhatWasLookedFor' /\ WhatWasRead'
    BY <1>1, <1>2, <2>1 DEF WhatWasLookedFor, WhatWasRead, AfterManifest, AfterLooking,
                            AfterChain, There, Good
  <2> QED  BY <2>1, <2>2, <2>3 DEF JudgedInv
<1> QED  BY <1>3, <1>4 DEF ReadChain

LEMMA OpenKeysJudged ==
    ASSUME FilesInv, JudgedInv, replaced = 0, OpenKeys
    PROVE  JudgedInv'
<1>1. /\ OnTheWay /\ WhatWasLookedFor /\ at = "open keys" /\ Good("chain.jsonl")
      /\ ReadNames = {"manifest.json", "chain.jsonl"}
      /\ "keys.json" \in found.files <=> There("keys.json") /\ ~refused
      /\ UNCHANGED <<site, archive, found, sources>>
  BY DEF JudgedInv, OpenKeys, pathVars, WhatWasLookedFor, WhatWasRead, AfterManifest,
         AfterLooking, AfterChain
<1>2. Here.entries = site.entries
  BY <1>1, HereIsThere DEF AfterManifest, AfterLooking, AfterChain
<1>3. CASE /\ "keys.json" \in found.files
           /\ Abandon(~Has(Here.entries, found.prefix, "keys.json"))
  <2>1. at' = "returning" /\ verdict' = "malformed" /\ refused' = TRUE
    BY <1>1, <1>2, <1>3 DEF Abandon, There
  <2> QED  BY <1>1, <2>1, GivesUp
<1>4. CASE "keys.json" \in found.files /\ OpenFile("keys.json", "keys") /\ GoOn("read keys")
  <2>1. /\ at' = "read keys" /\ UNCHANGED refused
        /\ opened'.content = Content(site.entries, found.prefix, "keys.json")
        /\ opened'.source.name = "keys.json"
    BY <1>2, <1>4 DEF OpenFile, GoOn, From
  <2>2. OnTheWay' /\ ReadNames' = {"manifest.json", "chain.jsonl"}
    BY <1>1, <2>1, StaysOnTheWay DEF ReadNames, AfterManifest, AfterLooking, AfterChain
  <2>3. WhatWasLookedFor' /\ WhatWasRead'
    BY <1>1, <1>4, <2>1, <2>2 DEF WhatWasLookedFor, WhatWasRead, AfterManifest, AfterLooking,
                                  AfterChain, There, Good
  <2> QED  BY <2>1, <2>2, <2>3 DEF JudgedInv
<1>5. CASE "keys.json" \notin found.files /\ GoOn("walk")
  <2>1. at' = "walk" /\ UNCHANGED refused
    BY <1>5 DEF GoOn
  <2>2. OnTheWay' /\ ReadNames' = {"manifest.json", "chain.jsonl"}
    BY <1>1, <2>1, StaysOnTheWay DEF ReadNames, AfterManifest, AfterLooking, AfterChain
  <2>3. WhatWasLookedFor' /\ WhatWasRead'
    BY <1>1, <1>5, <2>1, <2>2 DEF WhatWasLookedFor, WhatWasRead, AfterManifest, AfterLooking,
                                  AfterChain, There, Good
  <2> QED  BY <2>1, <2>2, <2>3 DEF JudgedInv
<1> QED  BY <1>3, <1>4, <1>5 DEF OpenKeys

LEMMA ReadKeysJudged ==
    ASSUME FilesInv, JudgedInv, replaced = 0, ReadKeys
    PROVE  JudgedInv'
<1>1. /\ OnTheWay /\ WhatWasLookedFor /\ at = "read keys" /\ refused \in BOOLEAN
      /\ ReadNames = {"manifest.json", "chain.jsonl"} /\ Good("chain.jsonl")
      /\ "keys.json" \in found.files /\ There("keys.json")
      /\ opened.content = Content(site.entries, found.prefix, "keys.json")
      /\ opened.source.name = "keys.json" /\ site \in Sites \union Replacements
      /\ UNCHANGED <<site, archive, found>> /\ sources' = Append(sources, opened.source)
  BY DEF JudgedInv, FilesInv, FilesTypeOK, SiteOK, ReadKeys, pathVars, WhatWasLookedFor,
         WhatWasRead, AfterManifest, AfterLooking, AfterChain
<1>2. ReadNames' = {"manifest.json", "chain.jsonl", "keys.json"}
  BY <1>1, OneMoreName
<1>3. CASE Abandon(opened.content # "ok")
  <2>1. opened.content # "ok" => ~WellFormed(AsPack(site))
    BY <1>1, WellFormedThere DEF OnTheWay, AfterManifest, AfterLooking, AfterChain, There
  <2>2. ~refused' => ~WellFormed(AsPack(site))
    BY <1>3, <2>1 DEF Abandon
  <2> QED  BY <1>1, <1>3, <2>2, GivesUp DEF Abandon
<1>4. CASE opened.content = "ok" /\ GoOn("walk")
  <2>1. at' = "walk" /\ UNCHANGED refused /\ Good("keys.json")
    BY <1>1, <1>4 DEF GoOn, Good
  <2>2. OnTheWay'
    BY <1>1, <1>2, <2>1, StaysOnTheWay DEF AfterManifest, AfterLooking, AfterChain
  <2>3. WhatWasLookedFor' /\ WhatWasRead'
    BY <1>1, <1>2, <2>1 DEF WhatWasLookedFor, WhatWasRead, AfterManifest, AfterLooking,
                            AfterChain, There, Good
  <2> QED  BY <2>1, <2>2, <2>3 DEF JudgedInv
<1> QED  BY <1>3, <1>4 DEF ReadKeys

LEMMA JudgeChainJudged ==
    ASSUME FilesInv, JudgedInv, replaced = 0, JudgeChain
    PROVE  JudgedInv'
<1>1. /\ OnTheWay /\ at = "walk" /\ at' = "returning" /\ verdict' = "judged"
      /\ Good("chain.jsonl") /\ Good("manifest.json") /\ There("chain.jsonl")
      /\ "keys.json" \in found.files <=> There("keys.json") /\ ~refused
      /\ refused => There("keys.json") /\ site.kind = "directory"
      /\ IF "keys.json" \in found.files
           THEN Good("keys.json") /\ ReadNames = {"manifest.json", "chain.jsonl", "keys.json"}
           ELSE ReadNames = {"manifest.json", "chain.jsonl"}
      /\ Located(site, found.prefix) /\ site \in Sites \union Replacements
      /\ UNCHANGED <<site, archive, found, sources, refused>>
  BY DEF JudgedInv, FilesInv, SiteOK, JudgeChain, pathVars, OnTheWay, WhatWasLookedFor,
         WhatWasRead, AfterManifest, AfterLooking, AfterChain
<1>2. OnTheWay' /\ WhatWasLookedFor' /\ WhatWasRead'
  BY <1>1 DEF OnTheWay, WhatWasLookedFor, WhatWasRead, Before, AtManifest, AfterManifest, AfterLooking,
              AfterChain
<1>3. /\ AsPack(site).keys # Absent <=> There("keys.json")
      /\ WellFormed([AsPack(site) EXCEPT !.keys = Absent])
      /\ WellFormed(AsPack(site)) <=> (There("keys.json") => Good("keys.json"))
  BY <1>1, WellFormedThere DEF There, Good
<1>4. ReadNames' = ReadNames
  BY <1>1 DEF ReadNames
<1>5. Judged'
  BY <1>1, <1>3, <1>4 DEF Judged
<1> QED  BY <1>2, <1>5 DEF JudgedInv

LEMMA RunDeferredJudged ==
    ASSUME FilesInv, JudgedInv, replaced = 0, RunDeferred
    PROVE  JudgedInv'
<1>1. /\ OnTheWay /\ Judged /\ at' \in {"returning", "done"}
      /\ UNCHANGED <<site, archive, found, sources, refused, verdict>>
  BY DEF JudgedInv, RunDeferred, pathVars
<1>2. OnTheWay' /\ WhatWasLookedFor' /\ WhatWasRead'
  BY <1>1 DEF OnTheWay, WhatWasLookedFor, WhatWasRead, Before, AtManifest, AfterManifest, AfterLooking,
              AfterChain
<1>3. Judged'
  BY <1>1 DEF Judged, ReadNames
<1> QED  BY <1>2, <1>3 DEF JudgedInv

LEMMA JudgedStep == FilesInv /\ JudgedInv /\ [Next]_vars => JudgedInv'
<1> SUFFICES ASSUME FilesInv, JudgedInv, [Next]_vars PROVE JudgedInv'
  OBVIOUS
<1>1. CASE UNCHANGED vars
  <2>1. /\ UNCHANGED <<site, replaced, at, archive, found, opened, sources, refused, verdict>>
        /\ ManifestContent' = ManifestContent
    BY <1>1 DEF vars, pathVars, ManifestContent, FirstManifest, Manifests
  <2>2. ReadNames' = ReadNames /\ Judged' = Judged
    BY <2>1 DEF ReadNames, Judged
  <2>3. OnTheWay' = OnTheWay
    BY <2>1, <2>2 DEF OnTheWay, There, Good
  <2>4. WhatWasLookedFor' = WhatWasLookedFor /\ WhatWasRead' = WhatWasRead
    BY <2>1, <2>2 DEF WhatWasLookedFor, WhatWasRead, There, Good
  <2> QED  BY <2>1, <2>2, <2>3, <2>4 DEF JudgedInv
<1>2. CASE Replace
  <2>1. replaced' # 0
    BY <1>2 DEF Replace, FilesInv, FilesTypeOK
  <2> QED  BY <2>1 DEF JudgedInv
<1>3. CASE replaced = 0 /\ Next /\ ~Replace
  <2>1. CASE Stat \/ ReadManifest \/ LookForChain \/ LookForKeys
    BY <1>3, <2>1, StatJudged, ReadManifestJudged, LookForChainJudged, LookForKeysJudged
  <2>2. CASE OpenArchive \/ FindManifest \/ OpenArchiveManifest \/ ReadArchiveManifest
    BY <1>3, <2>2, OpenArchiveJudged, FindManifestJudged, OpenArchiveManifestJudged,
       ReadArchiveManifestJudged
  <2>5. CASE ParseArchiveManifest \/ CheckArchiveVersion \/ FindEntries
    BY <1>3, <2>5, ParseArchiveManifestJudged, CheckArchiveVersionJudged, FindEntriesJudged
  <2>3. CASE OpenChain \/ ReadChain \/ OpenKeys \/ ReadKeys
    BY <1>3, <2>3, OpenChainJudged, ReadChainJudged, OpenKeysJudged, ReadKeysJudged
  <2>4. CASE JudgeChain \/ RunDeferred
    BY <1>3, <2>4, JudgeChainJudged, RunDeferredJudged
  <2> QED  BY <1>3, <2>1, <2>2, <2>3, <2>4, <2>5 DEF Next
<1>4. CASE replaced # 0 /\ Next /\ ~Replace
  <2>1. replaced' = replaced
    BY <1>4 DEF Next, Stat, ReadManifest, LookForChain, LookForKeys, OpenArchive,
       FindManifest, OpenArchiveManifest, ReadArchiveManifest, ParseArchiveManifest,
       CheckArchiveVersion, FindEntries, OpenChain, ReadChain, OpenKeys, ReadKeys,
       JudgeChain, RunDeferred, pathVars
  <2> QED  BY <1>4, <2>1 DEF JudgedInv
<1> QED  BY <1>1, <1>2, <1>3, <1>4

\* A path that is left alone is judged exactly if it holds a well-formed pack,
\* and on all the files of that pack (pack.go:57-217, verify.go:61-145).
THEOREM WellFormedIsJudged == Spec => []JudgedIfWellFormed
<1>1. Init => FilesInv /\ JudgedInv
  BY FilesInitInv, JudgedInitInv
<1>2. (FilesInv /\ JudgedInv) /\ [Next]_vars => (FilesInv /\ JudgedInv)'
  BY FilesStep, JudgedStep
<1>3. JudgedInv => JudgedIfWellFormed
  BY DEF JudgedInv, Judged, JudgedIfWellFormed, ReadNames
<1> QED  BY <1>1, <1>2, <1>3, PTL DEF Spec
===============================================================================
