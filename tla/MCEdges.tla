------------------------------- MODULE MCEdges -------------------------------
(* The local machines beside the database of a running server, side by side in *)
(* one run: one of them is chosen at the start and takes steps, the others stay *)
(* in one initial state of theirs, so the states add up and do not multiply.    *)
EXTENDS Migration, RuntimeConfig, PacketDownload, Connectors, CommandLine, RunDelta,
        ProofBundle, Sources, TLC

CONSTANTS cmd1, cmd2, cmd3, init1, init2, init3, o1, o2, o3, o4, forum, board, none

MCHead == (cmd1 :> 1) @@ (cmd2 :> 2) @@ (cmd3 :> 2)
MCHostOf == (o1 :> forum) @@ (o2 :> forum) @@ (o3 :> board) @@ (o4 :> none)
MCEnviron == (init1 :> {}) @@ (init2 :> {}) @@ (init3 :> {2})

VARIABLE machine
edgesVars == <<machine, migrationVars, configVars, downloadVars, connectorVars, commandVars,
                deltaVars, bundleVars, sourcesVars>>
Machines == {"migration", "config", "download", "connector", "command", "delta", "bundle",
             "sources"}

\* The initial state a machine keeps while another one moves.
Resting(m) ==
    CASE m = "migration" -> sqlite /\ disk[path] = Blank
      [] m = "config" -> directory = "absent" /\ dedicated
      [] m = "download" -> at = Empty
      [] m = "connector" -> kind = "page" /\ ~filtered
      [] m = "command" -> /\ command = [p \in Person |-> "projects list"]
                          /\ guarded = "no" /\ token = {}
      [] m = "bundle" -> ~overlapping
      [] m \in {"delta", "sources"} -> TRUE

Init ==
    /\ machine \in Machines
    /\ MigrationInit /\ (machine # "migration" => Resting("migration"))
    /\ RuntimeConfigInit /\ (machine # "config" => Resting("config"))
    /\ PacketDownloadInit /\ (machine # "download" => Resting("download"))
    /\ ConnectorInit /\ (machine # "connector" => Resting("connector"))
    /\ CommandLineInit /\ (machine # "command" => Resting("command"))
    /\ RunDeltaInit /\ SourcesInit
    /\ ProofBundleInit /\ (machine # "bundle" => Resting("bundle"))

Moves(m) == machine = m /\ UNCHANGED machine
Still(ms) ==
    /\ "migration" \in ms => UNCHANGED migrationVars
    /\ "config" \in ms => UNCHANGED configVars
    /\ "download" \in ms => UNCHANGED downloadVars
    /\ "connector" \in ms => UNCHANGED connectorVars
    /\ "command" \in ms => UNCHANGED commandVars
    /\ "delta" \in ms => UNCHANGED deltaVars
    /\ "bundle" \in ms => UNCHANGED bundleVars
    /\ "sources" \in ms => UNCHANGED sourcesVars

Next ==
    \/ Moves("migration") /\ MigrationNext /\ Still(Machines \ {"migration"})
    \/ Moves("config") /\ RuntimeConfigNext /\ Still(Machines \ {"config"})
    \/ Moves("download") /\ PacketDownloadNext /\ Still(Machines \ {"download"})
    \/ Moves("connector") /\ ConnectorNext /\ Still(Machines \ {"connector"})
    \/ Moves("command") /\ CommandLineNext /\ Still(Machines \ {"command"})
    \/ Moves("delta") /\ RunDeltaNext /\ Still(Machines \ {"delta"})
    \/ Moves("bundle") /\ ProofBundleNext /\ Still(Machines \ {"bundle"})
    \/ Moves("sources") /\ SourcesNext /\ Still(Machines \ {"sources"})

Spec == Init /\ [][Next]_edgesVars
=============================================================================
