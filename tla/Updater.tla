------------------------------ MODULE Updater ------------------------------
(***************************************************************************)
(* The client's update of itself (client/update.go, update_tray.go,           *)
(* update_web.go, update_apply_*.go, single_instance_startup.go): the check,   *)
(* the download, the helper that replaces the program when the old process    *)
(* has left, and the new process that waits for the lock of the old one.      *)
(***************************************************************************)
EXTENDS Naturals

CONSTANTS
  Platforms,    \* "linux", "darwin", "windows"
  Askers,       \* the tray and the local page, which share one slot
  MaxReleases,  \* bound: versions of the client
  MaxMisfortunes \* bound: what fails, crashes and restarts together

ASSUME UpdaterBounds == MaxReleases \in Nat \ {0} /\ MaxMisfortunes \in Nat

VARIABLES
  platform,  \* of this installation
  latest,    \* the version GitHub offers
  pending,   \* pendingUpdate: its version
  busy,      \* updateInProgress
  asker,     \* an install under way: its step, and the update it is for
  part,      \* the staged program
  digest,    \* its .sha256 file: the version whose digest it holds
  exe,       \* the installed program
  exeOld,    \* <exe>.old
  exeNew,    \* <exe>.new
  client,    \* the process with the instance lock: "off", "running", "quitting"
  helper,    \* the step of the helper (the script on Windows)
  relaunch,  \* the process the helper started waits for the lock
  gone,      \* history: the client was quit or killed, or was too slow to quit
  hollow,    \* history: between the two renames the machine went down, or the
             \* second one failed and the way back as well
  misfortunes \* bookkeeping of the bound MaxMisfortunes

programVars == <<part, digest, exe, exeOld, exeNew>>
processVars == <<client, helper, relaunch, gone>>
askVars == <<pending, busy, asker>>
updaterVars == <<platform, latest, askVars, programVars, processVars, hollow, misfortunes>>

\* A program: its version, and whether its bytes are what was released.
NoProgram == [v |-> 0, sound |-> TRUE]
NoInstall == [pc |-> "idle", v |-> 0]

UpdaterInit ==
  /\ platform \in Platforms
  /\ latest = 1 /\ pending = 0 /\ busy = FALSE /\ asker = [a \in Askers |-> NoInstall]
  /\ part = NoProgram /\ digest = 0 /\ exe = [v |-> 1, sound |-> TRUE]
  /\ exeOld = NoProgram /\ exeNew = NoProgram
  /\ client = "running" /\ helper = "none" /\ relaunch = FALSE /\ gone = FALSE /\ hollow = FALSE
  /\ misfortunes = 0

Misfortune == misfortunes < MaxMisfortunes /\ misfortunes' = misfortunes + 1

Released ==
  /\ latest < MaxReleases /\ latest' = latest + 1
  /\ UNCHANGED <<platform, askVars, programVars, processVars, hollow, misfortunes>>

---------------------------------------------------------------------------
(* The client: checks and installs. *)

\* The program that runs may be older than the one installed since.
Newer == latest > exe.v \/ gone \/ hollow

\* A newer release that has a digest can be installed; what fails, and a
\* release for a manual download, leaves nothing to install.
Offered(offers) == IF offers THEN latest ELSE 0

CheckForUpdate(offers) ==
  /\ client = "running" /\ ~busy
  /\ offers => Newer
  /\ pending' = Offered(offers)
  /\ UNCHANGED <<platform, latest, busy, asker, programVars, processVars, hollow, misfortunes>>

\* The update is read under the mutex, the slot claimed under it later.
AskInstall(a) ==
  /\ client = "running" /\ asker[a].pc = "idle" /\ pending # 0
  /\ asker' = [asker EXCEPT ![a] = [pc |-> "claim", v |-> pending]]
  /\ UNCHANGED <<platform, latest, pending, busy, programVars, processVars, hollow, misfortunes>>

\* beginUpdateOp.
BeginUpdateOp(a) ==
  /\ client = "running" /\ asker[a].pc = "claim"
  /\ asker' = [asker EXCEPT ![a] = IF busy THEN NoInstall ELSE [@ EXCEPT !.pc = "download"]]
  /\ busy' = TRUE
  /\ UNCHANGED <<platform, latest, pending, programVars, processVars, hollow, misfortunes>>

\* DownloadUpdate: what was read is compared with the digest of the manifest
\* and takes the place of what was staged; its own digest is written next.
DownloadUpdate(a) ==
  /\ client = "running" /\ asker[a].pc = "download"
  /\ part' = [v |-> asker[a].v, sound |-> TRUE]
  /\ asker' = [asker EXCEPT ![a].pc = "digest"]
  /\ UNCHANGED <<platform, latest, pending, busy, digest, exe, exeOld, exeNew, processVars, hollow, misfortunes>>

RecordDigest(a, written) ==
  /\ client = "running" /\ asker[a].pc = "digest"
  /\ IF written THEN digest' = asker[a].v /\ UNCHANGED misfortunes ELSE Misfortune /\ UNCHANGED digest
  /\ asker' = [asker EXCEPT ![a].pc = "apply"]
  /\ UNCHANGED <<platform, latest, pending, busy, part, exe, exeOld, exeNew, processVars, hollow>>

\* The download or the start of the helper fails: but for the script, the helper
\* is the installed program.
CannotHelp == platform # "windows" /\ exe = NoProgram
InstallFails(a) ==
  /\ client = "running" /\ asker[a].pc \in {"download", "apply"}
  /\ Misfortune \/ (asker[a].pc = "apply" /\ CannotHelp /\ UNCHANGED misfortunes)
  /\ asker' = [asker EXCEPT ![a] = NoInstall] /\ busy' = FALSE
  /\ UNCHANGED <<platform, latest, pending, programVars, processVars, hollow>>

\* ApplyUpdate starts the helper; the client quits and gives the slot back.  A
\* second install, downloaded before the first one's helper is done and the new
\* client has the lock, is left out.
ApplyUpdate(a) ==
  /\ client = "running" /\ asker[a].pc = "apply" /\ helper = "none" /\ ~relaunch /\ ~CannotHelp
  /\ helper' = "waiting" /\ client' = "quitting"
  /\ asker' = [asker EXCEPT ![a] = NoInstall] /\ busy' = FALSE
  /\ UNCHANGED <<platform, latest, pending, programVars, relaunch, gone, hollow, misfortunes>>

\* The process ends, and with it all it was doing; the lock is free.
ClientExits ==
  /\ client = "quitting" /\ client' = "off"
  /\ pending' = 0 /\ busy' = FALSE /\ asker' = [a \in Askers |-> NoInstall]
  /\ UNCHANGED <<platform, latest, programVars, helper, relaunch, gone, hollow, misfortunes>>

UserQuits ==
  /\ client = "running" /\ Misfortune
  /\ client' = "quitting" /\ gone' = TRUE
  /\ UNCHANGED <<platform, latest, askVars, programVars, helper, relaunch, hollow>>

\* The lock is taken; CleanupOldUpdateBinary.
Takes == client' = "running" /\ exeOld' = NoProgram

UserStarts ==
  /\ client = "off" /\ exe # NoProgram /\ Takes /\ gone' = FALSE
  /\ UNCHANGED <<platform, latest, askVars, part, digest, exe, exeNew, helper, relaunch, hollow, misfortunes>>

---------------------------------------------------------------------------
(* The helper. *)

HelperGoes(step) == helper' = step
SameClient == UNCHANGED <<client, relaunch, gone>>

\* main: the helper that failed goes on as the client it is - if no other has
\* the lock - and like any client removes what is left of the old program.
GoesOnAsClient(left) ==
  /\ helper' = "none"
  /\ client' = IF client = "off" THEN "running" ELSE client
  /\ exeOld' = IF client = "off" THEN NoProgram ELSE left
  /\ UNCHANGED <<relaunch, gone>>

\* waitForPreviousInstance.  The script waits two seconds and tries to move a
\* program that may still run, which Windows allows or not.  After half a minute
\* the helper goes on and the script gives up.
HelperWaits ==
  /\ helper = "waiting" /\ (platform = "windows" \/ client = "off")
  /\ HelperGoes(IF platform = "windows" THEN "move" ELSE "verify") /\ SameClient
  /\ UNCHANGED <<platform, latest, askVars, programVars, hollow, misfortunes>>

HelperWaitedEnough ==
  /\ helper = "waiting" /\ client # "off" /\ Misfortune
  /\ HelperGoes(IF platform = "windows" THEN "launch" ELSE "verify")
  /\ gone' = TRUE /\ UNCHANGED <<client, relaunch>>
  /\ UNCHANGED <<platform, latest, askVars, programVars, hollow>>

\* verifyStagedBinary; without a recorded digest it passes.
Verified == part # NoProgram /\ (digest = 0 \/ part = [v |-> digest, sound |-> TRUE])

HelperVerifies ==
  /\ helper = "verify"
  /\ IF Verified THEN HelperGoes("copy") /\ SameClient /\ UNCHANGED exeOld ELSE GoesOnAsClient(exeOld)
  /\ UNCHANGED <<platform, latest, askVars, part, digest, exe, exeNew, hollow, misfortunes>>

HelperCopies ==
  /\ helper = "copy"
  /\ exeOld' = NoProgram /\ exeNew' = part /\ HelperGoes("move") /\ SameClient
  /\ UNCHANGED <<platform, latest, askVars, part, digest, exe, hollow, misfortunes>>

CopyFails ==
  /\ helper = "copy" /\ Misfortune
  /\ exeNew' = NoProgram /\ GoesOnAsClient(NoProgram)
  /\ UNCHANGED <<platform, latest, askVars, part, digest, exe, hollow>>

HelperMoves ==
  /\ helper = "move" /\ exe # NoProgram
  /\ exeOld' = exe /\ exe' = NoProgram /\ HelperGoes("swap") /\ SameClient
  /\ UNCHANGED <<platform, latest, askVars, part, digest, exeNew, hollow, misfortunes>>

\* The first rename fails: the script leaves it at that; elsewhere nobody looks,
\* and the second one replaces the program where it is.
MoveFails ==
  /\ helper = "move"
  /\ Misfortune \/ (exe = NoProgram /\ UNCHANGED misfortunes)
  /\ HelperGoes(IF platform = "windows" THEN "launch" ELSE "swap") /\ SameClient
  /\ UNCHANGED <<platform, latest, askVars, programVars, hollow>>

\* The script moves the staged program itself.
HelperSwaps ==
  /\ helper = "swap"
  /\ IF platform = "windows"
     THEN part # NoProgram /\ exe' = part /\ part' = NoProgram /\ UNCHANGED exeNew /\ HelperGoes("launch")
     ELSE /\ exe' = exeNew /\ exeNew' = NoProgram /\ UNCHANGED part
          /\ HelperGoes(IF platform = "darwin" THEN "sign" ELSE "clean")
  /\ SameClient
  /\ UNCHANGED <<platform, latest, askVars, digest, exeOld, hollow, misfortunes>>

\* Mutant: a failed swap leaves the old program under its other name.
SwapFailsOnly ==
  /\ helper \in {"swap", "sign"} /\ Misfortune
  /\ IF platform = "windows" THEN HelperGoes("launch") /\ SameClient /\ UNCHANGED exeOld ELSE GoesOnAsClient(exeOld)
  /\ UNCHANGED <<platform, latest, askVars, part, digest, exe, exeNew, hollow>>

\* The second rename fails, or the signature on macOS: back to the old program,
\* if no client started meanwhile removed it.
SwapFails ==
  /\ helper \in {"swap", "sign"}
  /\ \/ Misfortune
     \/ platform = "windows" /\ part = NoProgram /\ UNCHANGED misfortunes
  /\ exe' = (IF exeOld = NoProgram THEN exe ELSE exeOld)
  /\ IF platform = "windows" THEN HelperGoes("launch") /\ SameClient /\ exeOld' = NoProgram ELSE GoesOnAsClient(NoProgram)
  /\ UNCHANGED <<platform, latest, askVars, part, digest, exeNew, hollow>>

\* The way back fails as well, and nobody looks at that either: no program is in
\* place, or on macOS the new one with a broken seal.
RollBackFails ==
  /\ helper \in {"swap", "sign"} /\ Misfortune
  /\ hollow' = (hollow \/ exe = NoProgram)
  /\ IF platform = "windows" THEN HelperGoes("launch") /\ SameClient /\ UNCHANGED exeOld ELSE GoesOnAsClient(exeOld)
  /\ UNCHANGED <<platform, latest, askVars, part, digest, exe, exeNew>>

HelperSigns ==
  /\ helper = "sign" /\ HelperGoes("clean") /\ SameClient
  /\ UNCHANGED <<platform, latest, askVars, programVars, hollow, misfortunes>>

HelperCleans ==
  /\ helper = "clean"
  /\ exeOld' = NoProgram /\ part' = NoProgram /\ digest' = 0 /\ HelperGoes("launch") /\ SameClient
  /\ UNCHANGED <<platform, latest, askVars, exe, exeNew, hollow, misfortunes>>

\* The program in place, if there is one, is started with --post-update.
HelperLaunches ==
  /\ helper = "launch" /\ helper' = "none" /\ relaunch' = (exe # NoProgram)
  /\ UNCHANGED <<platform, latest, askVars, programVars, client, gone, hollow, misfortunes>>

LaunchFails ==
  /\ helper = "launch" /\ platform # "windows" /\ Misfortune /\ GoesOnAsClient(exeOld)
  /\ UNCHANGED <<platform, latest, askVars, part, digest, exe, exeNew, hollow>>

\* acquireSingleInstanceOrExit: it waits for the lock ...
Relaunched ==
  /\ relaunch /\ client = "off" /\ relaunch' = FALSE /\ Takes
  /\ UNCHANGED <<platform, latest, askVars, part, digest, exe, exeNew, helper, gone, hollow, misfortunes>>

\* ... and leaves, half a minute later, if a client runs on that will not quit.
RelaunchGivesUp ==
  /\ relaunch /\ client = "running" /\ relaunch' = FALSE
  /\ UNCHANGED <<platform, latest, askVars, programVars, client, helper, gone, hollow, misfortunes>>

\* Power fails, or the session ends: no process is left.
MachineStops ==
  /\ Misfortune
  /\ client' = "off" /\ helper' = "none" /\ relaunch' = FALSE /\ gone' = TRUE
  /\ hollow' = (hollow \/ (helper = "swap" /\ exe = NoProgram))
  /\ pending' = 0 /\ busy' = FALSE /\ asker' = [a \in Askers |-> NoInstall]
  /\ UNCHANGED <<platform, latest, programVars>>

\* What is staged gets damaged before it is installed.
StagedSpoils ==
  /\ part # NoProgram /\ part.sound /\ helper \in {"none", "waiting"} /\ Misfortune
  /\ part' = [part EXCEPT !.sound = FALSE]
  /\ UNCHANGED <<platform, latest, askVars, digest, exe, exeOld, exeNew, processVars, hollow>>

UpdaterNext ==
  \/ Released \/ ClientExits \/ UserQuits \/ UserStarts \/ MachineStops \/ StagedSpoils
  \/ \E offers \in BOOLEAN : CheckForUpdate(offers)
  \/ \E a \in Askers :
       \/ AskInstall(a) \/ BeginUpdateOp(a) \/ DownloadUpdate(a) \/ InstallFails(a) \/ ApplyUpdate(a)
       \/ \E written \in BOOLEAN : RecordDigest(a, written)
  \/ HelperWaits \/ HelperWaitedEnough \/ HelperVerifies \/ HelperCopies \/ CopyFails \/ HelperMoves
  \/ MoveFails \/ HelperSwaps \/ SwapFails \/ RollBackFails \/ HelperSigns \/ HelperCleans \/ HelperLaunches \/ LaunchFails
  \/ Relaunched \/ RelaunchGivesUp

UpdaterSpec == UpdaterInit /\ [][UpdaterNext]_updaterVars

---------------------------------------------------------------------------
(* Properties. *)

Programs == [v : 0 .. MaxReleases, sound : BOOLEAN]

UpdaterTypeOK ==
  /\ platform \in Platforms /\ latest \in 1 .. MaxReleases /\ pending \in 0 .. latest /\ busy \in BOOLEAN
  /\ asker \in [Askers -> [pc : {"idle", "claim", "download", "digest", "apply"}, v : 0 .. latest]]
  /\ {part, exe, exeOld, exeNew} \subseteq Programs /\ digest \in 0 .. latest
  /\ client \in {"off", "running", "quitting"} /\ {relaunch, gone, hollow} \subseteq BOOLEAN
  /\ helper \in {"none", "waiting", "verify", "copy", "move", "swap", "sign", "clean", "launch"}
  /\ misfortunes \in 0 .. MaxMisfortunes

\* Whatever one thing fails in an update, the machine is left with a program in
\* place, the old one or the new one, and with a client that runs it, or a
\* process on its way to be one - unless the client was quit or killed or was
\* too slow to leave (single_instance_startup.go:47-55: "left the machine with no
\* backup service running at all"), and unless between the two renames the
\* machine went down or, with the second one, the rename back failed, which
\* nobody looks at (update_apply_linux.go:80-83); and never do two installs write
\* the one file.
UpdateLeavesAClient ==
  /\ exe = NoProgram => helper = "swap" \/ hollow
  /\ client # "off" \/ helper # "none" \/ relaunch \/ gone \/ exe = NoProgram
  /\ \A a, b \in Askers :
       {asker[a].pc, asker[b].pc} \subseteq {"download", "digest", "apply"} => a = b
=============================================================================
