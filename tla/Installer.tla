----------------------------- MODULE Installer ------------------------------
(***************************************************************************)
(* cli/install.js, the postinstall script: puts the tsgo binary into the   *)
(* package's bin directory, from a cache shared by the user's installs or  *)
(* from the release.  Installs run side by side, each in a package         *)
(* directory of its own, may be killed at any moment and be run again in   *)
(* the same directory.                                                     *)
(***************************************************************************)
EXTENDS Naturals

CONSTANTS
    Installs,   \* runs of the script
    DirOf,      \* the package directory of each
    ProcessOf,      \* the process id of each
    Mortal,     \* installs that may be killed or lose the network
    Cache       \* stands for the cache directory

Dirs == {DirOf[i] : i \in Installs}
Processes == {ProcessOf[i] : i \in Installs}
Places == Dirs \cup {Cache}

ASSUME InstallerAssumption == Cache \notin Dirs /\ Mortal \subseteq Installs

VARIABLES
    file,       \* the binary of each place
    tmp,        \* tempPathFor of it and each process id
    stage       \* where each install is

installerVars == <<file, tmp, stage>>

(* What a file holds, and whether it may be executed.  A bad file is a     *)
(* whole one that does not run, left by an older version of the script.    *)
Data == {"partial", "good", "bad"}
NoFile == [data |-> "none", exec |-> FALSE]
File == {NoFile} \cup [data : Data, exec : BOOLEAN]
Exists(f) == f.data # "none"
Usable(f) == f.data = "good" /\ f.exec      \* isUsableBinary: --version exits with 0

Ended == {"off", "ok", "failed", "killed"}
AtWork(i) == stage[i] \notin Ended

Bin(i) == DirOf[i]
BinTmp(i) == <<DirOf[i], ProcessOf[i]>>
CacheTmp(i) == <<Cache, ProcessOf[i]>>

InstallerInit ==
    /\ file \in [Places -> {NoFile, [data |-> "good", exec |-> TRUE], [data |-> "bad", exec |-> TRUE]}]
    /\ tmp = [t \in Places \X Processes |-> NoFile]
    /\ stage = [i \in Installs |-> "off"]

Step(i, from, to) == stage[i] = from /\ stage' = [stage EXCEPT ![i] = to]
SetFile(p, f) == file' = [file EXCEPT ![p] = f]
SetTmp(t, f) == tmp' = [tmp EXCEPT ![t] = f]
Renamed(t, p) == SetFile(p, tmp[t]) /\ SetTmp(t, NoFile)

-----------------------------------------------------------------------------
(* install *)

(* No other install uses the package directory, no process has its id. *)
Start(i) ==
    /\ \A j \in Installs : DirOf[j] = DirOf[i] \/ ProcessOf[j] = ProcessOf[i] => ~AtWork(j)
    /\ Step(i, "off", "check")
    /\ UNCHANGED <<file, tmp>>

KeepWorking(i) ==
    /\ Usable(file[Bin(i)])
    /\ Step(i, "check", "ok")
    /\ UNCHANGED <<file, tmp>>

(* Mutant: what a killed install left stays. *)
RemoveBrokenOnly(i) ==
    /\ ~Usable(file[Bin(i)])
    /\ SetFile(Bin(i), NoFile)
    /\ UNCHANGED tmp
    /\ Step(i, "check", "restore")

(* The binary, and whatever temporary files are in the directory. *)
RemoveBroken(i) ==
    /\ ~Usable(file[Bin(i)])
    /\ SetFile(Bin(i), NoFile)
    /\ tmp' = [t \in Places \X Processes |-> IF t[1] = Bin(i) THEN NoFile ELSE tmp[t]]
    /\ Step(i, "check", "restore")

-----------------------------------------------------------------------------
(* From the cache.  Whatever fails there falls through to the download.    *)

CacheMiss(i) ==
    /\ ~Exists(file[Cache])
    /\ Step(i, "restore", "download")
    /\ UNCHANGED <<file, tmp>>

CacheHit(i) ==
    /\ Exists(file[Cache])
    /\ Step(i, "restore", "copy")
    /\ UNCHANGED <<file, tmp>>

(* copyAtomic: the temporary file is opened, ... *)
CopyBegins(i) ==
    /\ SetTmp(BinTmp(i), [data |-> "partial", exec |-> FALSE])
    /\ Step(i, "copy", "copying")
    /\ UNCHANGED file

(* ... what the cache holds is copied with its mode, unless another        *)
(* install has removed it meanwhile, ...                                   *)
CopyEnds(i) ==
    /\ Exists(file[Cache])
    /\ SetTmp(BinTmp(i), file[Cache])
    /\ Step(i, "copying", "rename")
    /\ UNCHANGED file

CopyFails(i) ==
    /\ ~Exists(file[Cache]) \/ i \in Mortal
    /\ SetTmp(BinTmp(i), NoFile)
    /\ Step(i, "copying", "download")
    /\ UNCHANGED file

(* ... and takes the name of the binary. *)
Restore(i) ==
    /\ Renamed(BinTmp(i), Bin(i))
    /\ Step(i, "rename", "chmod restored")

ChmodRestored(i) ==
    /\ SetFile(Bin(i), [file[Bin(i)] EXCEPT !.exec = TRUE])
    /\ Step(i, "chmod restored", "verify")
    /\ UNCHANGED tmp

(* Mutant: a file that is there is trusted. *)
VerifyExists(i) ==
    /\ Exists(file[Bin(i)])
    /\ Step(i, "verify", "ok")
    /\ UNCHANGED <<file, tmp>>

Verify(i) ==
    /\ Usable(file[Bin(i)])
    /\ Step(i, "verify", "ok")
    /\ UNCHANGED <<file, tmp>>

(* Mutant: the copy that does not run stays where it is, without a retry.  *)
DiscardGivesUp(i) ==
    /\ ~Usable(file[Bin(i)])
    /\ file' = [file EXCEPT ![Bin(i)] = NoFile, ![Cache] = NoFile]
    /\ Step(i, "verify", "failed")
    /\ UNCHANGED tmp

(* The copy and the cache's entry go, which another install may just have  *)
(* replaced by a good one.                                                 *)
Discard(i) ==
    /\ ~Usable(file[Bin(i)])
    /\ file' = [file EXCEPT ![Bin(i)] = NoFile, ![Cache] = NoFile]
    /\ Step(i, "verify", "download")
    /\ UNCHANGED tmp

-----------------------------------------------------------------------------
(* download *)

DownloadBegins(i) ==
    /\ SetTmp(BinTmp(i), [data |-> "partial", exec |-> FALSE])
    /\ Step(i, "download", "receiving")
    /\ UNCHANGED file

(* A status other than 200, too many redirects: before any file is made.   *)
DownloadRefused(i) ==
    /\ i \in Mortal
    /\ Step(i, "download", "failed")
    /\ UNCHANGED <<file, tmp>>

(* The whole body, of the announced length. *)
DownloadComplete(i) ==
    /\ SetTmp(BinTmp(i), [data |-> "good", exec |-> FALSE])
    /\ Step(i, "receiving", "received")
    /\ UNCHANGED file

(* The connection breaks, the body ends early, the disk is full. *)
DownloadFails(i) ==
    /\ i \in Mortal
    /\ SetTmp(BinTmp(i), NoFile)
    /\ Step(i, "receiving", "failed")
    /\ UNCHANGED file

Place(i) ==
    /\ Renamed(BinTmp(i), Bin(i))
    /\ Step(i, "received", "chmod")

Chmod(i) ==
    /\ SetFile(Bin(i), [file[Bin(i)] EXCEPT !.exec = TRUE])
    /\ Step(i, "chmod", "share")
    /\ UNCHANGED tmp

-----------------------------------------------------------------------------
(* The cache is filled, as far as it can be. *)

(* Mutant: the cache's entry is written in place. *)
ShareBeginsInPlace(i) ==
    /\ SetFile(Cache, [data |-> "partial", exec |-> FALSE])
    /\ Step(i, "share", "sharing")
    /\ UNCHANGED tmp

ShareBegins(i) ==
    /\ SetTmp(CacheTmp(i), [data |-> "partial", exec |-> FALSE])
    /\ Step(i, "share", "sharing")
    /\ UNCHANGED file

ShareCopied(i) ==
    /\ SetTmp(CacheTmp(i), file[Bin(i)])
    /\ Step(i, "sharing", "shared")
    /\ UNCHANGED file

Share(i) ==
    /\ Renamed(CacheTmp(i), Cache)
    /\ Step(i, "shared", "ok")

ShareFails(i) ==
    /\ i \in Mortal
    /\ \/ stage[i] = "share" /\ UNCHANGED tmp
       \/ stage[i] \in {"sharing", "shared"} /\ SetTmp(CacheTmp(i), NoFile)
    /\ stage' = [stage EXCEPT ![i] = "ok"]
    /\ UNCHANGED file

-----------------------------------------------------------------------------
(* SIGINT, SIGTERM, SIGHUP: the handler runs between the synchronous calls,*)
(* that is where the script waits for the download: its file is removed.   *)
Interrupted(i) ==
    /\ i \in Mortal /\ stage[i] \in {"download", "receiving", "received"}
    /\ SetTmp(BinTmp(i), NoFile)
    /\ stage' = [stage EXCEPT ![i] = "killed"]
    /\ UNCHANGED file

(* SIGKILL, power loss: everything stays as it is. *)
Killed(i) ==
    /\ i \in Mortal /\ AtWork(i)
    /\ stage' = [stage EXCEPT ![i] = "killed"]
    /\ UNCHANGED <<file, tmp>>

InstallStep(i) ==
    \/ KeepWorking(i) \/ RemoveBroken(i)
    \/ CacheMiss(i) \/ CacheHit(i) \/ CopyBegins(i) \/ CopyEnds(i) \/ CopyFails(i)
    \/ Restore(i) \/ ChmodRestored(i) \/ Verify(i) \/ Discard(i)
    \/ DownloadBegins(i) \/ DownloadRefused(i) \/ DownloadComplete(i) \/ DownloadFails(i)
    \/ Place(i) \/ Chmod(i)
    \/ ShareBegins(i) \/ ShareCopied(i) \/ Share(i) \/ ShareFails(i)

InstallerNext == \E i \in Installs : Start(i) \/ InstallStep(i) \/ Interrupted(i) \/ Killed(i)

InstallerSpec == InstallerInit /\ [][InstallerNext]_installerVars
FairSpec == InstallerSpec /\ \A i \in Installs : WF_installerVars(InstallStep(i))

-----------------------------------------------------------------------------
(* Properties. *)

(* "an interrupted install must never leave a truncated binary behind":    *)
(* neither in a package nor in the cache is there ever a part of a file,   *)
(* whenever installs are killed, cut off or run side by side.              *)
NeverTruncated == \A p \in Places : file[p].data # "partial"

(* An install that reports success has left a binary that runs.            *)
OkMeansUsable ==
    \A i \in Installs :
        stage[i] = "ok" /\ (\A j \in Installs \ {i} : DirOf[j] = DirOf[i] => stage[j] = "off")
            => Usable(file[Bin(i)])

(* A bin directory where an install reported success holds no temporary    *)
(* file, the ones of killed installs included (removeStaleTempFiles),      *)
(* unless the binary was there and nothing was done.                       *)
NoTempLeft ==
    [][\A i \in Installs :
        stage[i] # "check" /\ stage[i] # "ok" /\ stage'[i] = "ok"
            => \A p \in Processes : tmp'[<<Bin(i), p>>] = NoFile]_installerVars

(* Whatever earlier and other installs left behind, an install that is not *)
(* disturbed itself ends with success.                                     *)
UndisturbedSucceeds == \A i \in Installs \ Mortal : stage[i] = "check" ~> stage[i] = "ok"
=============================================================================
