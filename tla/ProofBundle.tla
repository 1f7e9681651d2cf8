----------------------------- MODULE ProofBundle -----------------------------
(* The proof bundle of the release check: a run writes its artifacts into one    *)
(* directory file by file, hashes what it finds on the disk, and writes that    *)
(* as MANIFEST.json; `--verify-proof-dir` reads such a directory later.  Runs    *)
(* die between any two steps, are repeated into the same directory, or overlap, *)
(* and somebody edits the directory while nobody writes.                        *)
(*                                                                              *)
(* A content is a pair: which run's packet manifest it names and which run's    *)
(* packet files it holds.  Only an archive that was packed by hand has two      *)
(* different ones.  Hashes are injective and runs differ in every artifact.     *)
EXTENDS Naturals, Sequences

CONSTANTS Proof,     \* the runs of the release check
          Garbled,   \* what no reader of the format takes: empty, cut or mixed
          Stray,     \* the name of a file that is no part of a bundle
          NoProof,
          MaxEdits   \* BOUND: edits by hand

ASSUME ProofBundleAssumption ==
    /\ Garbled \notin Proof /\ NoProof \notin Proof

VARIABLES bundle,      \* the files in the directory
          listing,     \* what its MANIFEST.json says; <<>> when there is none to read
          overlapping, \* may runs overlap?
          stepOf,     \* the step each run is at
          hashed,      \* the hashes a run has read so far
          fresh,       \* the run that ended with nothing happening since
          edits
bundleVars == <<bundle, listing, overlapping, stepOf, hashed, fresh, edits>>

\* In the order they are written; the three texts that are compared with nothing
\* but the manifest are left out.
Order == <<"summary", "zip", "packetManifest", "verification">>
Artifact == {Order[i] : i \in DOMAIN Order}
Unreadable == <<Garbled, Garbled>>
OwnOf(r) == <<r, r>>

\* Steps: open and fill each artifact, hash each, open and fill the manifest.
FirstHash == 2 * Len(Order) + 1
OpenListing == 3 * Len(Order) + 1
AtEnd == 3 * Len(Order) + 3
Writing == {r \in Proof : stepOf[r] \in 1..AtEnd - 1}

(* ---- verification --------------------------------------------------------- *)
UnexpectedProofBundleEntries == DOMAIN bundle \ Artifact

\* A plausible bug: that a file is there is taken for that it is the file.
PresentArtifacts == DOMAIN listing = Artifact /\ Artifact \subseteq DOMAIN bundle

ManifestedArtifacts ==
    /\ DOMAIN listing = Artifact
    /\ \A n \in Artifact : n \in DOMAIN bundle /\ bundle[n] = listing[n]

BuildPacketManifestContract(content) == content[1] \in Proof
BuildPacketArchiveContract(content) == content # Unreadable

\* The archive's own manifest is the extracted one and hashes what it holds.
PacketIsWhole ==
    /\ BuildPacketArchiveContract(bundle["zip"])
    /\ bundle["zip"][1] = bundle["packetManifest"][1]
    /\ BuildPacketManifestContract(bundle["zip"])
    /\ bundle["zip"][1] = bundle["zip"][2]
    /\ bundle["verification"] # Unreadable

\* The summary names the archive by size and hash.
ProofSummaryMatches == bundle["summary"] # Unreadable /\ bundle["summary"] = bundle["zip"]

VerifyProofBundleManifest ==
    /\ ManifestedArtifacts
    /\ UnexpectedProofBundleEntries = {}
    /\ PacketIsWhole
    /\ ProofSummaryMatches

(* ---- stepOf -------------------------------------------------------------- *)
ProofBundleInit ==
    /\ bundle = <<>> /\ listing = <<>>
    /\ overlapping \in BOOLEAN
    /\ stepOf = [r \in Proof |-> 0]
    /\ hashed = [r \in Proof |-> <<>>]
    /\ fresh = NoProof
    /\ edits = 0

MayBegin(r) ==
    /\ stepOf[r] = 0
    /\ overlapping \/ Writing = {}

Put(f, n, content) == [m \in DOMAIN f \cup {n} |-> IF m = n THEN content ELSE f[m]]

PrepareProofBundleDir(r) ==
    /\ MayBegin(r)
    /\ stepOf' = [stepOf EXCEPT ![r] = IF UnexpectedProofBundleEntries = {} THEN 1 ELSE AtEnd]
    /\ fresh' = NoProof
    /\ UNCHANGED <<bundle, listing, overlapping, hashed, edits>>

\* An open file is empty until it is filled; two that have it open fill it over
\* one another, and which bytes remain depends on their lengths.
WriteArtifact(r) ==
    /\ stepOf[r] \in 1..FirstHash - 1
    /\ LET n == Order[(stepOf[r] + 1) \div 2] IN
       IF stepOf[r] % 2 = 1
       THEN bundle' = Put(bundle, n, Unreadable)
       ELSE \/ bundle' = Put(bundle, n, OwnOf(r))
            \/ overlapping /\ bundle' = Put(bundle, n, Unreadable)
    /\ stepOf' = [stepOf EXCEPT ![r] = @ + 1]
    /\ UNCHANGED <<listing, overlapping, hashed, fresh, edits>>

ProofBundleManifest(r) ==
    /\ stepOf[r] \in FirstHash..OpenListing - 1
    /\ LET n == Order[stepOf[r] - FirstHash + 1] IN
       hashed' = [hashed EXCEPT ![r] = Put(@, n, bundle[n])]
    /\ stepOf' = [stepOf EXCEPT ![r] = @ + 1]
    /\ UNCHANGED <<bundle, listing, overlapping, fresh, edits>>

WriteListing(r) ==
    /\ stepOf[r] \in {OpenListing, OpenListing + 1}
    /\ IF stepOf[r] = OpenListing
       THEN listing' = <<>> /\ fresh' = fresh
       ELSE /\ \/ listing' = hashed[r]
               \/ overlapping /\ listing' = <<>>
            /\ fresh' = r
    /\ hashed' = IF stepOf[r] = OpenListing THEN hashed ELSE [hashed EXCEPT ![r] = <<>>]
    /\ stepOf' = [stepOf EXCEPT ![r] = @ + 1]
    /\ UNCHANGED <<bundle, overlapping, edits>>

\* Killed, or an OSError, at any step.
Die(r) ==
    /\ r \in Writing
    /\ stepOf' = [stepOf EXCEPT ![r] = AtEnd]
    /\ hashed' = [hashed EXCEPT ![r] = <<>>]
    /\ UNCHANGED <<bundle, listing, overlapping, fresh, edits>>

\* Somebody replaces, repacks, removes or adds a file while nobody writes.
EditBundle ==
    /\ Writing = {} /\ edits < MaxEdits
    /\ edits' = edits + 1
    /\ fresh' = NoProof
    /\ \/ \E n \in Artifact, r \in Proof : bundle' = Put(bundle, n, OwnOf(r))
       \/ \E m, f \in Proof : bundle' = Put(bundle, "zip", <<m, f>>)
       \/ \E n \in DOMAIN bundle : bundle' = [m \in DOMAIN bundle \ {n} |-> bundle[m]]
       \/ bundle' = Put(bundle, Stray, Unreadable)
    /\ UNCHANGED <<listing, overlapping, stepOf, hashed>>

ProofBundleNext ==
    \/ \E r \in Proof : \/ PrepareProofBundleDir(r) \/ WriteArtifact(r) \/ ProofBundleManifest(r)
                        \/ WriteListing(r) \/ Die(r)
    \/ EditBundle

ProofBundleSpec == ProofBundleInit /\ [][ProofBundleNext]_bundleVars

(* ---- properties ----------------------------------------------------------- *)
\* In a bundle that verifies, the archive, its files, the manifest beside it and
\* the summary are of one run, also when two runs wrote over one another and the
\* last one listed the mixture; the texts and the server's verdict beside them
\* may be another run's.
OnePacketInside ==
    VerifyProofBundleManifest =>
        \E r \in Proof : /\ bundle["zip"] = OwnOf(r)
                         /\ bundle["packetManifest"] = OwnOf(r)
                         /\ bundle["summary"] = OwnOf(r)

\* When runs follow one another, a bundle that verifies is whole of one run,
\* wherever the runs before it died in the middle of rewriting it.
WholeOrRejected ==
    (~overlapping /\ edits = 0 /\ VerifyProofBundleManifest) =>
        \E r \in Proof : \A n \in Artifact : bundle[n] = OwnOf(r)

\* What a run has written to its end, alone, verifies, whatever it found in the
\* directory.
FinishedVerifies == (~overlapping /\ fresh # NoProof) => VerifyProofBundleManifest

\* A proof bundle shows one release check or is rejected, over whatever earlier
\* or overlapping checks left in the directory.
BundleIsOneRun == OnePacketInside /\ WholeOrRejected /\ FinishedVerifies

\* The inductive invariant: a run that writes alone finds what it has written
\* so far, hashes that, and lists nothing else.
Whole(f, r) == DOMAIN f = Artifact /\ \A n \in Artifact : f[n] = OwnOf(r)
HashedBefore(k) == {Order[i] : i \in {j \in DOMAIN Order : FirstHash + j <= k}}

WriterStands(r) ==
    /\ DOMAIN bundle \subseteq Artifact
    /\ \A i \in DOMAIN Order :
          2 * i < stepOf[r] => Order[i] \in DOMAIN bundle /\ bundle[Order[i]] = OwnOf(r)
    /\ DOMAIN hashed[r] = HashedBefore(stepOf[r])
    /\ \A n \in DOMAIN hashed[r] : hashed[r][n] = OwnOf(r)

Content == (Proof \cup {Garbled}) \X (Proof \cup {Garbled})

BundleTypes ==
    /\ stepOf \in [Proof -> 0..AtEnd] /\ DOMAIN hashed = Proof /\ fresh \in Proof \cup {NoProof}
    /\ \A n \in DOMAIN bundle :
          /\ bundle[n] \in Content
          /\ n # "zip" => bundle[n][1] = bundle[n][2]
    /\ \A r \in Proof \ Writing : hashed[r] = <<>>

Alone ==
    /\ \A r, s \in Writing : r = s
    /\ \A r \in Writing : WriterStands(r)
    /\ listing = <<>> \/ \E r \in Proof : Whole(listing, r)
    /\ fresh # NoProof => Writing = {} /\ Whole(bundle, fresh) /\ Whole(listing, fresh)

BundleInv == BundleTypes /\ (~overlapping => Alone)
=============================================================================
