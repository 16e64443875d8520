------------------------------ MODULE WalletRpc ------------------------------
(***************************************************************************)
(* How the CLI installs and starts beldex-wallet-rpc                       *)
(* (beldex/wallet_rpc.rs, init_beldex_wallet in cli/api.rs): an archive is *)
(* downloaded, the executable unpacked from it, the process spawned with a *)
(* daemon that answers, and a wallet opened.  The files outlive the        *)
(* process; the network, the file system and the daemons are external.     *)
(***************************************************************************)

VARIABLES
    archive,   \* the file of the archive
    exec,      \* the file of the executable
    install    \* where the start of the process is

installVars == <<archive, exec, install>>

File == {"none", "partial", "complete"}
InstallPhase == {"down", "download", "unpack", "tidy", "installed", "up"}

InstallTypeOK == archive \in File /\ exec \in File /\ install \in InstallPhase

InstallInit == archive = "none" /\ exec = "none" /\ install = "down"

\* create_new makes the file of the archive, which may not exist yet.
CreateNew(left) ==
    IF left = "none" THEN archive' = "partial" /\ install' = "download"
                     ELSE archive' = left /\ install' = "down"

\* Mutant: what is left of an earlier download stays.
NewKeepingArchive ==
    /\ install = "down"
    /\ IF exec = "none" THEN CreateNew(archive) ELSE UNCHANGED archive /\ install' = "installed"
    /\ UNCHANGED exec

\* WalletRpc::new removes what is left of an earlier download.  An executable that is
\* there is taken as it is; without one the download begins.
New ==
    /\ install = "down"
    /\ IF exec = "none" THEN CreateNew("none") ELSE archive' = "none" /\ install' = "installed"
    /\ UNCHANGED exec

Download ==
    /\ install = "download"
    /\ archive' = "complete"
    /\ install' = "unpack"
    /\ UNCHANGED exec

\* extract_archive writes the executable, piece by piece, and removes the archive.
UnpackBegin ==
    /\ install = "unpack"
    /\ exec' = "partial"
    /\ install' = "tidy"
    /\ UNCHANGED archive

UnpackEnd ==
    /\ install = "tidy"
    /\ exec' = "complete"
    /\ archive' = "none"
    /\ install' = "installed"

\* run: spawned, and waited for until it answers.  With an executable that is cut
\* off, the start fails.
RunProcess ==
    /\ install = "installed"
    /\ install' = IF exec = "complete" THEN "up" ELSE "down"
    /\ UNCHANGED <<archive, exec>>

\* An error of any of these steps, no daemon that is available, or a crash.
InstallFails ==
    /\ install # "down"
    /\ install' = "down"
    /\ UNCHANGED <<archive, exec>>

InstallStep ==
    \/ New \/ Download
    \/ UnpackBegin \/ UnpackEnd \/ RunProcess
=============================================================================
