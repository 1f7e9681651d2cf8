--------------------------- MODULE PacketIntegrity ---------------------------
(* What a stored build packet is checked against: the originals and the        *)
(* optional AI variants, the manifest that hashes them, the packet's columns,   *)
(* and the directory somebody extracts the download into. A packet is created,  *)
(* columns of its row and files of the directory change behind the program's    *)
(* back, and both verifications say what they still accept.                     *)
(*                                                                              *)
(* Hashes are injective: the hash of a content is the content. A packet's ids,  *)
(* versions, mode and time are one column `meta`; the source snapshot is its    *)
(* decision and the rest.                                                       *)
EXTENDS Naturals, SequencesExt

CONSTANTS Names,    \* the original artifacts: ARTIFACT_FILENAMES
          Variants, \* the AI variants: ENHANCED_ARTIFACT_FILENAMES
          Alien,    \* a name of neither
          Texts,    \* contents
          Huge,     \* the content beyond MAX_PACKET_FILE_BYTES
          MaxHits   \* BOUND: changes behind the program's back

ASSUME IntegrityAssumption ==
    /\ Names \cap Variants = {} /\ Alien \notin Names \cup Variants
    /\ Huge \notin Texts
    /\ IsFiniteSet(Names) /\ IsFiniteSet(Variants)

VARIABLES packet,   \* the stored row
          created,  \* as it was stored: a history variable
          folder,   \* the extracted download, or Nothing
          hits
integrityVars == <<packet, created, folder, hits>>

Entry == [path : Names \cup Variants \cup {Alien}, sha : Texts]
Nothing == [files |-> <<>>, manifest |-> <<>>]

\* One manifest entry per file, in some order.
EntriesOf(files) ==
    LET names == SetToSeq(DOMAIN files) IN
    [i \in DOMAIN names |-> [path |-> names[i], sha |-> files[names[i]]]]

(* ---- creation ------------------------------------------------------------- *)
BuildPacketArtifacts(files, meta) ==
    [files |-> EntriesOf(files), variants |-> <<>>, count |-> Cardinality(Names) + 1,
     status |-> "not_requested", provider |-> "none", meta |-> meta, source |-> "none",
     decision |-> "none"]

\* Root artifacts stay what they are; the attempt is recorded either way.
ManifestWithEnhancement(manifest, status, variants) ==
    [manifest EXCEPT !.variants = EntriesOf(variants),
                     !.count = Cardinality(Names) + 1 + Cardinality(DOMAIN variants),
                     !.status = status, !.provider = "ai", !.meta = "configured_ai"]

\* A provider's answer is the exact document set, or there are no variants.
ParseEnhancedDocuments(asked) == IF asked = "generated" THEN [Variants -> Texts] ELSE {<<>>}

CreatedPacket(files, variants, asked, decision) ==
    LET plain == [BuildPacketArtifacts(files, "det") EXCEPT
                    !.source = <<decision, "rest">>, !.decision = decision]
        manifest == IF asked = "not_requested" THEN plain
                    ELSE ManifestWithEnhancement(plain, asked, variants)
    IN [files |-> files, variants |-> variants, manifest |-> manifest, manifestSha |-> manifest,
        source |-> <<decision, "rest">>, meta |-> manifest.meta, status |-> asked,
        provider |-> manifest.provider]

(* ---- verification --------------------------------------------------------- *)
Paths(entries) == {entries[i].path : i \in DOMAIN entries}
EachOnce(entries) == Cardinality(Paths(entries)) = Len(entries)
Matches(entries, files) ==
    \A i \in DOMAIN entries : /\ entries[i].path \in DOMAIN files
                              /\ files[entries[i].path] = entries[i].sha

OriginalsMatch(files, manifest) ==
    /\ DOMAIN files = Names
    /\ EachOnce(manifest.files)
    /\ Paths(manifest.files) = Names
    /\ Matches(manifest.files, files)

ExpectedVariants(manifest) == IF manifest.status = "generated" THEN Variants ELSE {}

VariantsMatch(variants, manifest) ==
    /\ DOMAIN variants = ExpectedVariants(manifest)
    /\ manifest.count = Cardinality(Names) + 1 + Cardinality(ExpectedVariants(manifest))
    /\ EachOnce(manifest.variants)
    /\ Paths(manifest.variants) = ExpectedVariants(manifest)
    /\ Matches(manifest.variants, variants)

WithinLimits(files) == \A n \in DOMAIN files : files[n] # Huge

VerifyPacketArtifacts(files, manifest, variants) ==
    /\ OriginalsMatch(files, manifest)
    /\ VariantsMatch(variants, manifest)
    /\ WithinLimits(files) /\ WithinLimits(variants)

VerifyPacketRecord(p) ==
    /\ VerifyPacketArtifacts(p.files, p.manifest, p.variants)
    /\ p.manifest = p.manifestSha
    /\ p.manifest.source = p.source
    /\ p.manifest.decision = p.source[1]
    /\ p.manifest.meta = p.meta
    /\ p.manifest.status = p.status
    /\ p.status # "not_requested" => p.manifest.provider = p.provider

\* A plausible bug: one of the two copies of the rule misses what the other got.
OutdatedVerificationOut(p) ==
    /\ VerifyPacketArtifacts(p.files, p.manifest, p.variants)
    /\ p.manifest = p.manifestSha
    /\ p.manifest.source = p.source
    /\ p.manifest.meta = p.meta

\* The same rule once more, in the MCP surface.
VerificationOut(p) ==
    /\ VerifyPacketArtifacts(p.files, p.manifest, p.variants)
    /\ p.manifestSha = p.manifest
    /\ p.source = p.manifest.source
    /\ p.manifest.decision = p.source[1]
    /\ p.meta = p.manifest.meta
    /\ \/ p.manifest.status = "not_requested" /\ p.status = "not_requested"
       \/ p.manifest.status = p.status /\ p.manifest.provider = p.provider

\* The files a failed verification names. Of entries with one path the first counts.
MissingFiles(p) ==
    LET variants == ExpectedVariants(p.manifest) IN
    (Names \ (DOMAIN p.files \cap Paths(p.manifest.files)))
      \cup (variants \ (DOMAIN p.variants \cap Paths(p.manifest.variants)))

UnexpectedFiles(p) ==
    (DOMAIN p.files \ Names) \cup (DOMAIN p.variants \ ExpectedVariants(p.manifest))

Differing(entries, files) ==
    {n \in DOMAIN files \cap Paths(entries) :
        LET first == CHOOSE i \in DOMAIN entries :
                        /\ entries[i].path = n
                        /\ \A j \in 1..i - 1 : entries[j].path # n
        IN entries[first].sha # files[n]}

MismatchedFiles(p) ==
    (Differing(p.manifest.files, p.files) \cap Names)
      \cup (Differing(p.manifest.variants, p.variants) \cap ExpectedVariants(p.manifest))

\* The release check's own inspection of a deterministic packet it just made.
InspectBuildPacket(p) ==
    /\ DOMAIN p.files = Names
    /\ p.manifest.count = Cardinality(Names) + 1
    /\ p.manifest.meta = "det" /\ p.meta = "det"
    /\ Paths(p.manifest.files) = Names
    /\ Matches(p.manifest.files, p.files)
    /\ p.manifest = p.manifestSha
    /\ VerifyPacketRecord(p)

(* ---- the extracted download ----------------------------------------------- *)
\* A folder's files are the originals, the variants and what else is there; a
\* packet without generated variants has no business with an enhanced/ folder.
UnexpectedEntries(f) ==
    DOMAIN f.files \ (Names \cup ExpectedVariants(f.manifest))

VerifyBuildPacketDirectory(f) ==
    /\ UnexpectedEntries(f) = {}
    /\ VerifyPacketArtifacts([n \in DOMAIN f.files \cap Names |-> f.files[n]], f.manifest,
                             [n \in DOMAIN f.files \cap ExpectedVariants(f.manifest) |-> f.files[n]])

DeterministicZip(p) ==
    [files |-> [n \in DOMAIN p.files \cup DOMAIN p.variants |->
                  IF n \in DOMAIN p.files THEN p.files[n] ELSE p.variants[n]],
     manifest |-> p.manifest]

(* ---- behaviour ------------------------------------------------------------ *)
PacketIntegrityInit ==
    /\ \E files \in [Names -> Texts], asked \in {"not_requested", "generated", "fallback"},
          decision \in {"none", "d1"} :
         \E variants \in ParseEnhancedDocuments(asked) :
            packet = CreatedPacket(files, variants, asked, decision)
    /\ created = packet
    /\ folder = Nothing
    /\ hits = 0

Rewritten(files) == {[files EXCEPT ![n] = t] : n \in DOMAIN files, t \in Texts \cup {Huge}}
Removed(files) == {[m \in DOMAIN files \ {n} |-> files[m]] : n \in DOMAIN files}
With(files, n, t) == [m \in DOMAIN files \cup {n} |-> IF m = n THEN t ELSE files[m]]
Added(files) ==
    {With(files, n, t) : n \in (Names \cup Variants \cup {Alien}) \ DOMAIN files, t \in Texts}
Edited(files) == Rewritten(files) \cup Removed(files) \cup Added(files)

EditedEntries(entries) ==
    {[entries EXCEPT ![i].sha = t] : i \in DOMAIN entries, t \in Texts}
      \cup {SubSeq(entries, 1, Len(entries) - 1) : i \in DOMAIN entries}
      \cup {Append(entries, e) : e \in Entry}

EditedManifest(m) ==
    {[m EXCEPT !.files = e] : e \in EditedEntries(m.files)}
      \cup {[m EXCEPT !.variants = e] : e \in EditedEntries(m.variants)}
      \cup {[m EXCEPT !.status = s] : s \in {"not_requested", "generated", "fallback"}}
      \cup {[m EXCEPT !.count = @ - 1], [m EXCEPT !.decision = "d2"], [m EXCEPT !.meta = "other"]}

\* One column of the stored row changes before the download.
CorruptRow ==
    /\ folder = Nothing
    /\ hits < MaxHits
    /\ hits' = hits + 1
    /\ \/ \E f \in Edited(packet.files) : packet' = [packet EXCEPT !.files = f]
       \/ \E f \in Edited(packet.variants) : packet' = [packet EXCEPT !.variants = f]
       \/ \E m \in EditedManifest(packet.manifest) : packet' = [packet EXCEPT !.manifest = m]
       \/ packet' = [packet EXCEPT !.manifestSha = packet.manifest]
       \/ packet' = [packet EXCEPT !.source = <<"d2", "rest">>]
       \/ packet' = [packet EXCEPT !.source = <<packet.source[1], "other">>]
       \/ packet' = [packet EXCEPT !.meta = "other"]
       \/ packet' = [packet EXCEPT !.provider = "other"]
       \/ \E s \in {"not_requested", "generated", "fallback"} : packet' = [packet EXCEPT !.status = s]
    /\ UNCHANGED <<created, folder>>

\* The download route verifies first.
DownloadBuildPacket ==
    /\ folder = Nothing
    /\ VerifyPacketRecord(packet)
    /\ folder' = DeterministicZip(packet)
    /\ UNCHANGED <<packet, created, hits>>

CorruptFolder ==
    /\ hits < MaxHits
    /\ folder # Nothing
    /\ hits' = hits + 1
    /\ \/ \E f \in Edited(folder.files) : folder' = [folder EXCEPT !.files = f]
       \/ \E m \in EditedManifest(folder.manifest) : folder' = [folder EXCEPT !.manifest = m]
    /\ UNCHANGED <<packet, created>>

PacketIntegrityNext == CorruptRow \/ DownloadBuildPacket \/ CorruptFolder

PacketIntegritySpec == PacketIntegrityInit /\ [][PacketIntegrityNext]_integrityVars

(* ---- properties ----------------------------------------------------------- *)
\* A packet verifies as it is created, in each of the three modes, and the
\* release check's separate inspection takes what the service makes.
CreatedVerifies ==
    hits = 0 => /\ VerifyPacketRecord(packet)
                /\ packet.status = "not_requested" => InspectBuildPacket(packet)

\* docs/threat-model.md:159: as long as the hash of its manifest is the one
\* stored with it, a packet that verifies is the packet that was created,
\* whichever two of its columns changed; only the provider column of a packet
\* nobody asked AI for is compared with nothing.
VerifiedIsOriginal ==
    (packet.manifestSha = created.manifestSha /\ VerifyPacketRecord(packet)) =>
        \/ packet = created
        \/ packet.status = "not_requested" /\ [packet EXCEPT !.provider = "none"] = created

\* The REST route and the MCP tool, two copies of one rule, never disagree.
VerificationsAgree == VerifyPacketRecord(packet) <=> VerificationOut(packet)

Gone(was, now) == DOMAIN was \ DOMAIN now
Altered(was, now) == {n \in DOMAIN was \cap DOMAIN now : was[n] # now[n]}

\* Beside the manifest it was created with, a packet is valid or the files named
\* are the files that were lost, added and changed.
FaultsAreNamed ==
    packet.manifest = created.manifest =>
        /\ MissingFiles(packet) = Gone(created.files, packet.files) \cup Gone(created.variants, packet.variants)
        /\ UnexpectedFiles(packet) = Gone(packet.files, created.files) \cup Gone(packet.variants, created.variants)
        /\ MismatchedFiles(packet) =
              Altered(created.files, packet.files) \cup Altered(created.variants, packet.variants)

\* A download extracted into a folder verifies there, and a folder that verifies
\* beside the manifest that was downloaded holds exactly the files that were.
FolderIsTheDownload ==
    folder # Nothing =>
        /\ (VerifyPacketRecord(packet) /\ folder = DeterministicZip(packet)) => VerifyBuildPacketDirectory(folder)
        /\ (VerifyBuildPacketDirectory(folder) /\ folder.manifest = created.manifest) =>
              folder.files = DeterministicZip(created).files

\* A packet that verifies is the packet that was created, wherever it is verified:
\* in the database, over MCP, by the release check or in an unpacked folder.
VerificationIsSound ==
    /\ CreatedVerifies
    /\ VerifiedIsOriginal
    /\ VerificationsAgree
    /\ FaultsAreNamed
    /\ FolderIsTheDownload

\* The inductive invariant: the created packet is one the service makes, and what
\* changes behind its back still has files, columns and a folder to look at.
IsCreated(c) ==
    \E files \in [Names -> Texts], asked \in {"not_requested", "generated", "fallback"},
       decision \in {"none", "d1"} :
         \E variants \in ParseEnhancedDocuments(asked) : c = CreatedPacket(files, variants, asked, decision)

FileSets == UNION {[names -> Texts \cup {Huge}] : names \in SUBSET (Names \cup Variants \cup {Alien})}

Columns == {"files", "variants", "manifest", "manifestSha", "source", "meta", "status", "provider"}
PacketShape(p) == p = [c \in Columns |-> p[c]] /\ p.files \in FileSets /\ p.variants \in FileSets
FolderShape(f) == DOMAIN f = {"files", "manifest"} /\ f.files \in FileSets

IntegrityInv ==
    /\ hits \in Nat /\ (hits = 0 => packet = created)
    /\ IsCreated(created) /\ PacketShape(packet) /\ FolderShape(folder)
=============================================================================
