------------------------------- MODULE Updater -------------------------------
(***************************************************************************)
(* The updater: one run of `update` takes a release from the check to the  *)
(* restarted service.                                                      *)
(*                                                                         *)
(* It leaves on disk release directories, the links `current` and cli.js   *)
(* (copies on Windows), and version.txt, which every process reads when it *)
(* starts.  A run may die between any two system calls that change them;   *)
(* the service may die and start at any time; a run starts again later.    *)
(*                                                                         *)
(* Versions are numbers; MajorAt says where a major bump is.  One run at a *)
(* time: nothing in the code excludes two.  Left out: names and sizes of   *)
(* artifacts, Homebrew installs (refused), the log.                        *)
(***************************************************************************)
EXTENDS Integers, FiniteSets, FiniteSetsExt, SequencesExt

CONSTANTS
  Newest,     \* releases 1..Newest come out; 1 is installed at first
  MajorAt,    \* the versions that begin a major
  Keep,       \* KEEP_LAST_N
  MaxDirs,    \* release directories ever made, as a bound
  MaxDeaths   \* deaths of a run or of the service, as a bound

ASSUME UpdaterAssumption == Newest \in Nat /\ Keep \in Nat \ {0} /\ MaxDirs \in Nat

VARIABLES
  windows,     \* process.platform is win32
  latest,      \* what fetchLatestRelease returns
  dirs,        \* the release directories
  current,     \* what `current` links to, or holds
  cli,         \* what cli.js links to, or holds
  versionTxt,  \* the version published
  serving,     \* the process on the port
  working,     \* a session of it is running or waits for input
  upd,         \* the run under way
  made, deaths

updaterVars == <<windows, latest, dirs, current, cli, versionTxt, serving, working, upd,
                 made, deaths>>
diskVars == <<dirs, current, cli, versionTxt>>

(* A directory is named by the version it was made for; code is what its   *)
(* tarball held.                                                           *)
Dir(version, code, n) ==
  [version |-> version, code |-> code, n |-> n, whole |-> FALSE, verified |-> FALSE]
NoDir == Dir(0, 0, 0)
NoProcess == [dir |-> NoDir, version |-> 0, service |-> TRUE]
Idle == [pc |-> "idle", force |-> FALSE, own |-> 0, target |-> 0, code |-> 0,
         tarball |-> "none", dir |-> NoDir]

FirstDir == [Dir(1, 1, 0) EXCEPT !.whole = TRUE, !.verified = TRUE]

(* A process runs the code cli.js leads to and reads version.txt once.     *)
Started(service) == [dir |-> cli, version |-> versionTxt, service |-> service]

UpdaterInit ==
  /\ windows \in BOOLEAN
  /\ latest = 1 /\ dirs = {FirstDir} /\ current = FirstDir /\ cli = FirstDir
  /\ versionTxt = 1
  \* The server was started by the service, or by hand.
  /\ serving \in {Started(TRUE), Started(FALSE)}
  /\ working = FALSE /\ upd = Idle /\ made = 0 /\ deaths = 0

-----------------------------------------------------------------------------
(* Around the updater.                                                     *)

Release ==
  /\ latest < Newest
  /\ latest' = latest + 1
  /\ UNCHANGED <<windows, diskVars, serving, working, upd, made, deaths>>

ServerWorks ==
  /\ serving # NoProcess
  /\ working' = ~working
  /\ UNCHANGED <<windows, latest, diskVars, serving, upd, made, deaths>>

ServerDies ==
  /\ serving # NoProcess /\ deaths < MaxDeaths
  /\ serving' = NoProcess /\ working' = FALSE /\ deaths' = deaths + 1
  /\ UNCHANGED <<windows, latest, diskVars, upd, made>>

(* The service manager, or a user, starts a server when none listens.      *)
ServerStarts ==
  /\ serving = NoProcess
  /\ \E service \in BOOLEAN : serving' = Started(service)
  /\ UNCHANGED <<windows, latest, diskVars, working, upd, made, deaths>>

RunDies ==
  /\ upd.pc # "idle" /\ deaths < MaxDeaths
  /\ upd' = Idle /\ deaths' = deaths + 1
  /\ UNCHANGED <<windows, latest, diskVars, serving, working, made>>

-----------------------------------------------------------------------------
(* runInstall, up to the download.                                         *)

Abandon == upd' = Idle
At(pc) == upd.pc = pc
GoesTo(pc) == upd' = [upd EXCEPT !.pc = pc]

(* checkForUpdate: newer, and not a major bump unless allowed.             *)
WouldInstall(own, target, allowMajor) ==
  /\ target > own
  /\ allowMajor \/ ~\E v \in own + 1 .. target : v \in MajorAt

(* The run reads its own version; the check fetches the latest release.    *)
Check ==
  /\ At("idle")
  /\ \E force, allowMajor \in BOOLEAN :
       /\ WouldInstall(versionTxt, latest, allowMajor)
       /\ upd' = [Idle EXCEPT !.pc = "checked", !.force = force, !.own = versionTxt,
                              !.target = latest]
  /\ UNCHANGED <<windows, latest, diskVars, serving, working, made, deaths>>

(* The release is fetched again, with its manifest: what is newest now is  *)
(* installed under the version the check found.  It may have vanished.     *)
FetchRelease ==
  /\ At("checked")
  /\ Abandon \/ upd' = [upd EXCEPT !.pc = "fetched", !.code = latest]
  /\ UNCHANGED <<windows, latest, diskVars, serving, working, made, deaths>>

(* countActiveSessions.  A server that answers is counted or answers badly; *)
(* one too slow for the request counts as unreachable.                      *)
CountAnswers ==
  IF serving = NoProcess THEN {"unreachable"}
  ELSE {"unreachable", "error", IF working THEN "some" ELSE "none"}

DeferCheck ==
  /\ At("fetched")
  /\ \E answer \in CountAnswers :
       IF ~upd.force /\ answer \in {"some", "error"} THEN Abandon ELSE GoesTo("cleared")
  /\ UNCHANGED <<windows, latest, diskVars, serving, working, made, deaths>>

\* Mutant: the digest is not compared.
DownloadUnchecked ==
  /\ At("cleared")
  /\ \E arrived \in {"good", "bad"} :
       upd' = [upd EXCEPT !.pc = "downloaded", !.tarball = arrived]
  /\ UNCHANGED <<windows, latest, diskVars, serving, working, made, deaths>>

(* downloadAndVerify: a wrong digest or size ends the run.                 *)
Download ==
  /\ At("cleared")
  /\ \E arrived \in {"good", "bad"} :
       IF arrived = "bad" THEN Abandon
       ELSE upd' = [upd EXCEPT !.pc = "downloaded", !.tarball = "good"]
  /\ UNCHANGED <<windows, latest, diskVars, serving, working, made, deaths>>

(* unpackTarball makes a directory of its own, then fills it; when it      *)
(* cannot, it removes it.  A run that dies leaves it as it is.             *)
MakeDir ==
  /\ At("downloaded") /\ made < MaxDirs
  /\ LET dir == [Dir(upd.target, upd.code, made + 1) EXCEPT
                   !.verified = upd.tarball = "good"]
     IN  /\ dirs' = dirs \cup {dir}
         /\ upd' = [upd EXCEPT !.pc = "unpacking", !.dir = dir]
  /\ made' = made + 1
  /\ UNCHANGED <<windows, latest, current, cli, versionTxt, serving, working, deaths>>

Unpack ==
  /\ At("unpacking")
  /\ \/ /\ dirs' = dirs \ {upd.dir}
        /\ Abandon
     \/ LET whole == [upd.dir EXCEPT !.whole = TRUE]
        IN  /\ dirs' = (dirs \ {upd.dir}) \cup {whole}
            /\ upd' = [upd EXCEPT !.pc = "stamped", !.dir = whole]
  /\ UNCHANGED <<windows, latest, current, cli, versionTxt, serving, working, made, deaths>>

-----------------------------------------------------------------------------
(* The swap and the restart.                                               *)

(* stopService: on Windows the listener is killed, or the run refuses.     *)
StopService ==
  /\ At("stamped")
  /\ IF windows
     THEN \/ /\ serving' = NoProcess /\ working' = FALSE
             /\ GoesTo("stopped")
          \/ /\ serving # NoProcess
             /\ Abandon
             /\ UNCHANGED <<serving, working>>
     ELSE GoesTo("stopped") /\ UNCHANGED <<serving, working>>
  /\ UNCHANGED <<windows, latest, diskVars, made, deaths>>

(* swapCurrent.  On Windows the old copy is removed before the new one has *)
(* its name, and may be busy.                                              *)
RemoveCopy ==
  /\ At("stopped") /\ windows /\ current # NoDir
  /\ \/ current' = NoDir /\ UNCHANGED upd
     \/ Abandon /\ UNCHANGED current
  /\ UNCHANGED <<windows, latest, dirs, cli, versionTxt, serving, working, made, deaths>>

SwapCurrent ==
  /\ At("stopped") /\ (windows => current = NoDir)
  /\ current' = upd.dir
  /\ GoesTo("current")
  /\ UNCHANGED <<windows, latest, dirs, cli, versionTxt, serving, working, made, deaths>>

SwapCli ==
  /\ At("current")
  /\ cli' = upd.dir
  /\ GoesTo("cli")
  /\ UNCHANGED <<windows, latest, dirs, current, versionTxt, serving, working, made, deaths>>

PublishVersionTxt ==
  /\ At("cli")
  /\ versionTxt' = upd.target
  /\ GoesTo("published")
  /\ UNCHANGED <<windows, latest, dirs, current, cli, serving, working, made, deaths>>

(* restartService: the service's process is replaced, or the command       *)
(* fails.  A server started by hand is not the service's and keeps the     *)
(* port.  (Method "none" needs an unsupported platform.)                   *)
RestartService ==
  /\ At("published")
  /\ \/ /\ serving.service
        /\ serving' = Started(TRUE) /\ working' = FALSE
        /\ GoesTo("restarted")
     \/ /\ ~serving.service
        /\ GoesTo("restarted") /\ UNCHANGED <<serving, working>>
     \/ /\ Abandon /\ UNCHANGED <<serving, working>>
  /\ UNCHANGED <<windows, latest, diskVars, made, deaths>>

\* Mutant: a restart that reported success is believed.
WaitForNothing ==
  /\ At("restarted")
  /\ GoesTo("healthy")
  /\ UNCHANGED <<windows, latest, diskVars, serving, working, made, deaths>>

(* waitForRestartHealth: what serves the port reports the version          *)
(* activated, or the time runs out.                                        *)
WaitForRestartHealth ==
  /\ At("restarted")
  /\ IF serving.version = upd.target THEN GoesTo("healthy") \/ Abandon ELSE Abandon
  /\ UNCHANGED <<windows, latest, diskVars, serving, working, made, deaths>>

(* pruneOldReleases: the newest Keep by version stay, and the active one.  *)
(* Builds of one version are equal to it: the order on disk decides.       *)
Kept(active) ==
  {top \in SUBSET dirs :
     /\ Cardinality(top) = Min({Keep, Cardinality(dirs)})
     /\ \A in \in top, out \in dirs \ top : in.version >= out.version}

Prune ==
  /\ At("healthy")
  /\ \E top \in Kept(upd.dir) : dirs' = top \cup {upd.dir}
  /\ Abandon
  /\ UNCHANGED <<windows, latest, current, cli, versionTxt, serving, working, made, deaths>>

UpdaterNext ==
  \/ Release \/ ServerWorks \/ ServerDies \/ ServerStarts \/ RunDies
  \/ Check \/ FetchRelease \/ DeferCheck \/ Download \/ MakeDir \/ Unpack
  \/ StopService \/ RemoveCopy \/ SwapCurrent \/ SwapCli \/ PublishVersionTxt
  \/ RestartService \/ WaitForRestartHealth \/ Prune

UpdaterSpec == UpdaterInit /\ [][UpdaterNext]_updaterVars

-----------------------------------------------------------------------------
(* Whatever is started runs a release that is whole, verified and on disk. *)
LinksLead ==
  /\ cli \in dirs /\ cli.whole /\ cli.verified
  /\ IF current = NoDir THEN windows ELSE current \in dirs /\ current.whole

(* version.txt never claims more than cli.js runs, wherever a run died:    *)
(* the next one would believe itself up to date on the old code.           *)
VersionNotAhead == versionTxt <= cli.code

(* The process that serves keeps the release it runs from, which it still  *)
(* loads modules from (a Windows process runs the copies).                 *)
ServingKept == serving # NoProcess => serving.dir \in dirs

(* Old releases are removed only once the new one serves.                  *)
HealthIsTheNewOne ==
  At("healthy") /\ serving # NoProcess => serving.dir = upd.dir

(* Every update leaves a state a later one can start from: install.ts,     *)
(* swap.ts.                                                                *)
UpdaterInv == LinksLead /\ VersionNotAhead /\ ServingKept /\ HealthIsTheNewOne
=============================================================================
