---------------------------- MODULE RuntimeConfig ----------------------------
(* The private configuration file of the packaged runtime: `tasksignal init`   *)
(* creates it once, with secrets of its own, and every other command loads it, *)
(* while other commands do the same, a write fails or a process dies half way. *)
(* A command creates at most one file, so a file is named by the command that  *)
(* created it; the operator's own file is Operator.                            *)
EXTENDS Naturals, FiniteSets

CONSTANTS Starter,    \* the commands given, each one process
          Keys,       \* the required settings, in the order they are written
          Environ,    \* the settings a command finds in its environment
          MaxTouches, \* BOUND: times the operator removes or places a file
          Operator, NoFile

ASSUME EnvironAssumption == Environ \in [Starter -> SUBSET (1..Keys)]
ASSUME ConfigBounds == {Keys, MaxTouches} \subseteq Nat
ASSUME NotAStarter == {Operator, NoFile} \cap Starter = {} /\ Operator # NoFile

VARIABLES directory,  \* of the file: absent, shared with other users, private
          dedicated,  \* its name is TaskSignal's, or it is the data directory
          inPlace,    \* the file under the config path
          wrote,      \* how many settings each file holds
          phase,      \* how far a command is
          reads,      \* the file a command opened to load it
          touches,
          overtaken   \* history: the path changed hands between its check and unlink
configVars == <<directory, dedicated, inPlace, wrote, phase, reads, touches, overtaken>>

File == Starter \cup {Operator}
Unwritten == [f \in File |-> IF f = Operator THEN Keys ELSE 0]

RuntimeConfigInit ==
    /\ directory \in {"absent", "shared", "private"}
    /\ dedicated \in BOOLEAN
    /\ inPlace = NoFile
    /\ wrote = Unwritten
    /\ phase = [s \in Starter |-> "new"]
    /\ reads = [s \in Starter |-> NoFile]
    /\ touches = 0
    /\ overtaken = [s \in Starter |-> FALSE]

Advance(s, p) == phase' = [phase EXCEPT ![s] = p]
SameFile(s) == inPlace = s
Overtaking == [s \in Starter |-> overtaken[s] \/ phase[s] = "unlinking"]

(* ---- tasksignal init ------------------------------------------------------ *)
EnsurePrivateDirectory(s) ==
    /\ phase[s] = "new"
    /\ LET refused == directory = "shared" /\ ~dedicated IN
       /\ Advance(s, IF directory = "absent" THEN "making" ELSE IF refused THEN "failed" ELSE "housed")
       /\ directory' = IF directory = "absent" \/ refused THEN directory ELSE "private"
    /\ UNCHANGED <<dedicated, inPlace, wrote, reads, touches, overtaken>>

\* mkdir without exist_ok: an init that finds another's directory by now fails.
MakeDirectory(s) ==
    /\ phase[s] = "making"
    /\ Advance(s, IF directory = "absent" THEN "housed" ELSE "failed")
    /\ directory' = IF directory = "absent" THEN "private" ELSE directory
    /\ UNCHANGED <<dedicated, inPlace, wrote, reads, touches, overtaken>>

ValidateExistingConfig(s) ==
    /\ phase[s] \in {"housed", "exists"}
    /\ Advance(s, IF inPlace # NoFile THEN "kept"
                  ELSE IF phase[s] = "housed" THEN "missing" ELSE "failed")
    /\ UNCHANGED <<directory, dedicated, inPlace, wrote, reads, touches, overtaken>>

\* A plausible bug: the file is opened for writing without O_EXCL.
TakeConfig(s) ==
    /\ phase[s] = "missing"
    /\ Advance(s, "writing")
    /\ inPlace' = s
    /\ UNCHANGED <<directory, dedicated, wrote, reads, touches, overtaken>>

CreateConfig(s) ==
    /\ phase[s] = "missing"
    /\ IF inPlace = NoFile THEN Advance(s, "writing") /\ inPlace' = s
                           ELSE Advance(s, "exists") /\ UNCHANGED inPlace
    /\ UNCHANGED <<directory, dedicated, wrote, reads, touches, overtaken>>

WriteSetting(s) ==
    /\ phase[s] = "writing"
    /\ wrote[s] < Keys
    /\ wrote' = [wrote EXCEPT ![s] = @ + 1]
    /\ UNCHANGED <<directory, dedicated, inPlace, phase, reads, touches, overtaken>>

\* Synced and still the file under the path: init says it created the config.
FinishConfig(s) ==
    /\ phase[s] = "writing"
    /\ wrote[s] = Keys
    /\ SameFile(s)
    /\ Advance(s, "created")
    /\ UNCHANGED <<directory, dedicated, inPlace, wrote, reads, touches, overtaken>>

\* A write or the sync fails, or the path changed: it looks whether the file under
\* the path is its own,
WriteFails(s) ==
    /\ phase[s] = "writing"
    /\ Advance(s, IF SameFile(s) THEN "unlinking" ELSE "failed")
    /\ UNCHANGED <<directory, dedicated, inPlace, wrote, reads, touches, overtaken>>

\* and then unlinks the path, whatever is there by now.
Unlink(s) ==
    /\ phase[s] = "unlinking"
    /\ Advance(s, "failed")
    /\ inPlace' = NoFile
    /\ overtaken' = IF overtaken[s] THEN Overtaking ELSE overtaken
    /\ UNCHANGED <<directory, dedicated, wrote, reads, touches>>

Dies(s) ==
    /\ phase[s] \in {"making", "housed", "missing", "exists", "writing", "unlinking", "reading"}
    /\ Advance(s, "dead")
    /\ UNCHANGED <<directory, dedicated, inPlace, wrote, reads, touches, overtaken>>

(* ---- every other command -------------------------------------------------- *)
OpenPrivateConfig(s) ==
    /\ phase[s] = "new"
    /\ Advance(s, IF inPlace = NoFile THEN "not_initialized" ELSE "reading")
    /\ reads' = [reads EXCEPT ![s] = inPlace]
    /\ UNCHANGED <<directory, dedicated, inPlace, wrote, touches, overtaken>>

\* A value the write cut off does not parse and is missing, like one not written.
LoadRuntimeConfig(s) ==
    /\ phase[s] = "reading"
    /\ Advance(s, IF Environ[s] \cup 1..wrote[reads[s]] = 1..Keys
                  THEN "loaded" ELSE "invalid_config")
    /\ UNCHANGED <<directory, dedicated, inPlace, wrote, reads, touches, overtaken>>

(* ---- the operator --------------------------------------------------------- *)
RemoveConfig ==
    /\ touches < MaxTouches
    /\ inPlace # NoFile
    /\ inPlace' = NoFile
    /\ touches' = touches + 1
    /\ overtaken' = Overtaking
    /\ UNCHANGED <<directory, dedicated, wrote, phase, reads>>

PlaceConfig ==
    /\ touches < MaxTouches
    /\ directory # "absent"
    /\ inPlace' = Operator
    /\ touches' = touches + 1
    /\ overtaken' = Overtaking
    /\ UNCHANGED <<directory, dedicated, wrote, phase, reads>>

RuntimeConfigNext ==
    \/ \E s \in Starter :
          \/ EnsurePrivateDirectory(s) \/ MakeDirectory(s) \/ ValidateExistingConfig(s)
          \/ CreateConfig(s) \/ WriteSetting(s) \/ FinishConfig(s) \/ WriteFails(s) \/ Unlink(s)
          \/ Dies(s)
          \/ OpenPrivateConfig(s) \/ LoadRuntimeConfig(s)
    \/ RemoveConfig \/ PlaceConfig

RuntimeConfigSpec == RuntimeConfigInit /\ [][RuntimeConfigNext]_configVars

(* ---- properties ----------------------------------------------------------- *)
RuntimeConfigTypeOK ==
    /\ directory \in {"absent", "shared", "private"}
    /\ dedicated \in BOOLEAN
    /\ inPlace \in File \cup {NoFile}
    /\ wrote \in [File -> 0..Keys]
    /\ phase \in [Starter -> {"new", "making", "housed", "missing", "exists", "writing",
                              "unlinking", "created", "kept", "failed", "dead",
                              "not_initialized", "reading", "loaded", "invalid_config"}]
    /\ reads \in [Starter -> File \cup {NoFile}]
    /\ touches \in 0..MaxTouches
    /\ overtaken \in [Starter -> BOOLEAN]

\* As long as the operator leaves the file alone: what init said it created is
\* the whole configuration and stays in place, whichever commands race with it,
\* fail or die; so at most one init ever says so.
CreatedIsTheConfig ==
    \A s \in Starter : (phase[s] = "created" /\ touches = 0) => SameFile(s) /\ wrote[s] = Keys

\* All commands run with one set of secrets, that of the file in place; the
\* exceptions are an operator's change and an init whose last step failed after
\* somebody had read all it wrote.
OneRuntime ==
    \A s \in Starter :
        (phase[s] = "loaded" /\ touches = 0) =>
            \/ reads[s] = inPlace
            \/ phase[reads[s]] = "failed"

\* A config file disappears by the operator's hand or by the cleanup of the init
\* that wrote that very file. The cleanup checks first and unlinks later: only if
\* the operator touched the path in between, or a cleanup he overtook that way took
\* the file, does it take another's file away.
OnlyItsWriterUnlinks ==
    [][\A f \in File : (inPlace = f /\ inPlace' # f) =>
          \/ touches' # touches
          \/ \E s \in Starter : /\ phase[s] = "unlinking" /\ phase'[s] = "failed"
                                /\ f = s \/ overtaken[s]]_configVars

\* What commands that start at once may rely on: one complete set of secrets,
\* which no other command takes away.
ConfigSafety ==
    /\ [](RuntimeConfigTypeOK /\ CreatedIsTheConfig /\ OneRuntime)
    /\ OnlyItsWriterUnlinks

\* The inductive invariant: until the operator touches it, a file that was read
\* stays in place unless its own writer fails.
ConfigInv ==
    /\ RuntimeConfigTypeOK /\ CreatedIsTheConfig
    /\ touches = 0 => inPlace # Operator
    /\ \A s \in Starter :
         /\ (phase[s] = "unlinking" /\ ~overtaken[s]) => SameFile(s)
         /\ overtaken[s] => touches # 0
         /\ phase[s] = "reading" => reads[s] \in File
         /\ (phase[s] \in {"reading", "loaded"} /\ touches = 0) =>
              /\ reads[s] \in Starter
              /\ reads[s] = inPlace \/ phase[reads[s]] = "failed"
=============================================================================
