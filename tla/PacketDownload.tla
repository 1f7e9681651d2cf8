---------------------------- MODULE PacketDownload ----------------------------
(* `tasksignal packets download --output FILE`: the existence check, the        *)
(* streamed answer with its limits, and the exclusive write, for commands that  *)
(* run at the same time and name the same output, while the server answers late *)
(* or wrongly, the disk fills up and commands are killed.                       *)
EXTENDS Naturals

CONSTANTS Downloader, \* the download commands, all with the same --output
          Chunks,     \* chunks of the archive
          Limit,      \* chunks a command accepts: max_download_bytes
          Someone,    \* who else may have a file there
          Empty

ASSUME DownloadAssumption ==
    /\ {Someone, Empty} \cap Downloader = {} /\ Someone # Empty
    /\ {Chunks, Limit} \subseteq Nat

VARIABLES at,       \* whose file is at the output path
          got,      \* chunks a command has received
          size,     \* chunks the server will send it: more than it announced
          stage,    \* how far the command is
          cleaned   \* the commands that unlinked the output as they failed
downloadVars == <<at, got, size, stage, cleaned>>

PacketDownloadInit ==
    /\ at \in {Someone, Empty}
    /\ got = [d \in Downloader |-> 0]
    /\ size = [d \in Downloader |-> 0]
    /\ stage = [d \in Downloader |-> "new"]
    /\ cleaned = {}

To(d, s) == stage' = [stage EXCEPT ![d] = s]

\* The output must not exist and its directory must.
CheckOutput(d) ==
    /\ stage[d] = "new"
    /\ To(d, IF at # Empty THEN "error" ELSE "asking")
    /\ UNCHANGED <<at, got, size, cleaned>>

\* The server answers 2xx and announces a length, or none, that its body need
\* not keep to; any other answer, a timeout and a lost connection end here.
Answer(d, n) ==
    /\ stage[d] = "asking"
    /\ size' = [size EXCEPT ![d] = n]
    /\ \/ To(d, "streaming")
       \/ n > Limit /\ To(d, "error")
    /\ UNCHANGED <<at, got, cleaned>>

ReceiveChunk(d) ==
    /\ stage[d] = "streaming"
    /\ got[d] < size[d]
    /\ got' = [got EXCEPT ![d] = @ + 1]
    /\ IF got[d] + 1 > Limit THEN To(d, "error") ELSE UNCHANGED stage
    /\ UNCHANGED <<at, size, cleaned>>

\* All of it, of the right type and starting like an archive.
Received(d) ==
    /\ stage[d] = "streaming"
    /\ got[d] = size[d]
    /\ \E whole \in {"received", "error"} : To(d, whole)
    /\ UNCHANGED <<at, got, size, cleaned>>

DownloadBreaks(d) ==
    /\ stage[d] \in {"asking", "streaming"}
    /\ To(d, "error")
    /\ UNCHANGED <<at, got, size, cleaned>>

\* A plausible bug: open without O_EXCL, after all the output did not exist.
OverwriteOutput(d) ==
    /\ stage[d] = "received"
    /\ at' = d
    /\ To(d, "writing")
    /\ UNCHANGED <<got, size, cleaned>>

CreateOutput(d) ==
    /\ stage[d] = "received"
    /\ IF at = Empty THEN at' = d /\ To(d, "writing") ELSE To(d, "error") /\ UNCHANGED at
    /\ UNCHANGED <<got, size, cleaned>>

\* The write fails and the output is unlinked; an interrupt ends the command here.
WriteOutputFails(d) ==
    /\ stage[d] = "writing"
    /\ \E s \in {"failing", "error"} : To(d, s)
    /\ at' = Empty
    /\ cleaned' = cleaned \cup {d}
    /\ UNCHANGED <<got, size>>

\* The open fails for another reason than a file being there.
OpenOutputFails(d) ==
    /\ stage[d] = "received"
    /\ To(d, "failing")
    /\ UNCHANGED <<at, got, size, cleaned>>

\* Any OSError unlinks the path (once more), whoever's file is there by now.
UnlinkOutput(d) ==
    /\ stage[d] = "failing"
    /\ To(d, "error")
    /\ at' = Empty
    /\ cleaned' = cleaned \cup {d}
    /\ UNCHANGED <<got, size>>

OutputWritten(d) ==
    /\ stage[d] = "writing"
    /\ To(d, "saved")
    /\ UNCHANGED <<at, got, size, cleaned>>

KillDownload(d) ==
    /\ stage[d] \in {"asking", "streaming", "received", "writing", "failing"}
    /\ To(d, "killed")
    /\ UNCHANGED <<at, got, size, cleaned>>

SomeoneSaves ==
    /\ at = Empty
    /\ at' = Someone
    /\ UNCHANGED <<got, size, stage, cleaned>>

PacketDownloadNext ==
    \/ \E d \in Downloader :
          \/ CheckOutput(d) \/ (\E n \in 1..Chunks : Answer(d, n)) \/ ReceiveChunk(d) \/ Received(d)
          \/ DownloadBreaks(d) \/ CreateOutput(d) \/ OutputWritten(d)
          \/ WriteOutputFails(d) \/ OpenOutputFails(d) \/ UnlinkOutput(d) \/ KillDownload(d)
    \/ SomeoneSaves

PacketDownloadSpec == PacketDownloadInit /\ [][PacketDownloadNext]_downloadVars

(* ---- properties ----------------------------------------------------------- *)
PacketDownloadTypeOK ==
    /\ at \in Downloader \cup {Someone, Empty}
    /\ got \in [Downloader -> 0..Limit + 1]
    /\ size \in [Downloader -> 0..Chunks]
    /\ stage \in [Downloader -> {"new", "asking", "streaming", "received", "writing", "failing", "saved",
                                 "error", "killed"}]
    /\ cleaned \subseteq Downloader

\* A command that says it saved the archive left it at the output, and it stays
\* its own while others download to the same path; only a command that could
\* neither open nor write the output takes it away.
SavedStays ==
    \A d \in Downloader : stage[d] = "saved" => at = d \/ cleaned \ {d} # {}

\* A command that ends with an error leaves none of its bytes at the output.
ErrorLeavesNothing ==
    \A d \in Downloader : stage[d] = "error" => at # d

\* The archive is at the output or nothing of it is, whatever the other downloads
\* to that output do.
SavedOrNothing == PacketDownloadTypeOK /\ SavedStays /\ ErrorLeavesNothing

\* The inductive invariant: the file at the output is a command's only once that
\* has created it, and is taken from it by another's cleanup only.
DownloadInv ==
    /\ PacketDownloadTypeOK
    /\ \A d \in Downloader :
         /\ stage[d] \in {"new", "asking", "streaming"} => got[d] <= Limit
         /\ at = d => stage[d] \in {"writing", "saved", "killed"}
         /\ stage[d] \in {"writing", "saved"} => at = d \/ cleaned \ {d} # {}
=============================================================================
