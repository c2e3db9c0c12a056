------------------------------- MODULE Update -------------------------------
(***************************************************************************)
(* The update service of the desktop program (native_update.rs) with the   *)
(* settings it depends on and the Activity coordinator it asks for the     *)
(* input boundary.  Commands run on threads of a pool: a check holds the   *)
(* settings lock while it asks the authority once per trust root; an       *)
(* installation takes a snapshot of the settings, copies the candidate     *)
(* under the state lock, and downloads with neither; a change of the       *)
(* preferences resets the service while it holds the settings lock.        *)
(***************************************************************************)
EXTENDS Activity, Sequences

CONSTANTS
  Checks, Patches,  \* calls of update.check and of update.preferences.patch
  Channels,
  NumRoots,         \* trust roots, tried in order
  MaxVersion,       \* bound: the authority's newest version; 0 is the program's own
  None

\* What a check has found, where the service keeps it; versions are numbers.
Offers == [check : Checks, root : Nat, channel : Channels, version : Nat]

ASSUME CallsDiffer == Checks \cap Patches = {} /\ None \notin Checks \cup Patches \cup Offers

Versions == 1 .. MaxVersion

VARIABLES
  authority,        \* newest version per channel
  preferences,      \* update.channel and update.skip_version
  lock,             \* holder of the settings lock
  candidate,        \* NativeUpdateState.candidate
  updates,          \* NativeUpdateState.updates
  phase,            \* NativeUpdateState.state and operation_id
  offered,          \* availableVersion of the user interface
  check,            \* locals of each check
  patch,            \* program counter of each patch
  install,          \* locals of each installation
  installed         \* the update whose installer was launched; the process ends

offerVars == <<candidate, updates, phase>>
updaterVars == <<authority, preferences, lock, candidate, updates, phase, offered, check, patch,
                install, installed>>
updateVars == <<activity, updaterVars>>

NoCheck == [pc |-> "ready", channel |-> None, root |-> 1, found |-> <<>>, failed |-> FALSE]
NoPhase == [state |-> "idle", operation |-> None]
NoInstall == [pc |-> "ready", target |-> None, settings |-> None, candidate |-> None,
              updates |-> <<>>]

UpdateInit ==
  /\ ActivityInit
  /\ authority = [c \in Channels |-> 0]
  /\ preferences \in [channel : Channels, skip : {None}]
  /\ lock = None
  /\ candidate = None /\ updates = <<>> /\ phase = NoPhase
  /\ offered = None
  /\ check = [c \in Checks |-> NoCheck]
  /\ patch = [p \in Patches |-> "ready"]
  /\ install = [u \in Updates |-> NoInstall]
  /\ installed = None

-----------------------------------------------------------------------------
(* The authority, and the other owners of the boundary.                    *)

AuthorityReleases(channel) ==
  /\ authority[channel] < MaxVersion
  /\ authority' = [authority EXCEPT ![channel] = @ + 1]
  /\ UNCHANGED <<activity, preferences, lock, offerVars, offered, check, patch, install, installed>>

OtherActivity ==
  /\ \/ \E s \in Sessions : ReservePlayback(s) \/ DropPlayback(s)
     \/ \E o \in Operations : ReserveCalibration(o) \/ DropCalibration(o)
     \/ BeginShutdown
  /\ UNCHANGED updaterVars

-----------------------------------------------------------------------------
(* check: the settings lock is held from the reload to the publication.    *)

CheckBegins(c) ==
  /\ check[c].pc = "ready" /\ lock = None
  /\ lock' = c
  /\ check' = [check EXCEPT ![c] = [NoCheck EXCEPT !.pc = "ask",
                                                   !.channel = preferences.channel]]
  /\ UNCHANGED <<activity, authority, preferences, offerVars, offered, patch, install, installed>>

\* The settings cannot be loaded again: an error, and no change.
CheckReloadFails(c) ==
  /\ check[c].pc = "ready" /\ lock = None
  /\ check' = [check EXCEPT ![c].pc = "done"]
  /\ UNCHANGED <<activity, authority, preferences, lock, offerVars, offered, patch, install, installed>>

Offer(c) == [check |-> c, root |-> check[c].root, channel |-> check[c].channel,
             version |-> authority[check[c].channel]]

CheckAsks(c) ==
  /\ check[c].pc = "ask" /\ check[c].root <= NumRoots
  /\ \E r \in {[check[c] EXCEPT !.found = IF Offer(c).version = 0 THEN @ ELSE Append(@, Offer(c))],
               [check[c] EXCEPT !.failed = TRUE]} :
       check' = [check EXCEPT ![c] = [r EXCEPT !.root = @ + 1]]
  /\ UNCHANGED <<activity, authority, preferences, lock, offerVars, offered, patch, install, installed>>

CheckReturns(c) ==
  /\ check' = [check EXCEPT ![c] = [NoCheck EXCEPT !.pc = "done"]]
  /\ lock' = None
  /\ UNCHANGED <<activity, authority, preferences, patch, install, installed>>

AllAsked(c) == check[c].pc = "ask" /\ check[c].root > NumRoots
Reset == candidate' = None /\ updates' = <<>> /\ phase' = NoPhase
Available(c) ==
  check[c].found # <<>> /\ Head(check[c].found).version # preferences.skip

\* The first root's update is the candidate; the user interface shows it.
CheckFinds(c) ==
  /\ AllAsked(c) /\ Available(c)
  /\ candidate' = Head(check[c].found)
  /\ updates' = check[c].found
  /\ phase' = [state |-> "available", operation |-> None]
  /\ offered' \in {Head(check[c].found).version, offered}
  /\ CheckReturns(c)

\* No update, a skipped one, or no answer from any root.
CheckFindsNone(c) ==
  /\ AllAsked(c) /\ ~Available(c)
  /\ Reset
  /\ offered' \in {None, offered}
  /\ CheckReturns(c)

\* The time of a successful check cannot be stored: an error, and no change.
CheckNotRecorded(c) ==
  /\ AllAsked(c)
  /\ check[c].found # <<>> \/ ~check[c].failed
  /\ UNCHANGED <<offerVars, offered>>
  /\ CheckReturns(c)

-----------------------------------------------------------------------------
(* patch_update_preferences, and patch_settings with update preferences.   *)

PatchStores(p) ==
  /\ patch[p] = "ready" /\ lock = None
  /\ preferences' \in [channel : Channels, skip : Versions \cup {None}]
  /\ lock' = p
  /\ patch' = [patch EXCEPT ![p] = "reset"]
  /\ UNCHANGED <<activity, authority, offerVars, offered, check, install, installed>>

PatchFails(p) ==
  /\ patch[p] = "ready" /\ lock = None
  /\ patch' = [patch EXCEPT ![p] = "done"]
  /\ UNCHANGED <<activity, authority, preferences, lock, offerVars, offered, check, install, installed>>

PatchResets(p) ==
  /\ patch[p] = "reset"
  /\ Reset
  /\ lock' = None
  /\ patch' = [patch EXCEPT ![p] = "done"]
  /\ UNCHANGED <<activity, authority, preferences, offered, check, install, installed>>

-----------------------------------------------------------------------------
(* begin_update_handoff and install.                                       *)

SetInstall(u, r) ==
  /\ install' = [install EXCEPT ![u] = r]
  /\ UNCHANGED <<authority, preferences, lock, candidate, updates, offered, check, patch>>

SetPhase(u, state) == phase' = [state |-> state, operation |-> u]

Done(u) == SetInstall(u, [NoInstall EXCEPT !.pc = "done"]) /\ UNCHANGED installed

InstallReads(u) ==
  /\ install[u].pc = "ready" /\ lock = None
  /\ offered # None
  /\ \/ SetInstall(u, [NoInstall EXCEPT !.pc = "take", !.target = offered,
                                        !.settings = preferences]) /\ UNCHANGED installed
     \/ Done(u)                       \* the settings cannot be loaded again
  /\ UNCHANGED <<activity, phase>>

Stale(u) ==
  \/ candidate.version # install[u].target
  \/ install[u].settings.skip = candidate.version
  \/ install[u].settings.channel # candidate.channel

InstallTakes(u) ==
  /\ install[u].pc = "take"
  /\ IF candidate = None \/ updates = <<>> \/ Stale(u)
       THEN Done(u)
       ELSE /\ SetInstall(u, [install[u] EXCEPT !.pc = "reserve",
                                                !.candidate = candidate,
                                                !.updates = updates])
            /\ UNCHANGED installed
  /\ UNCHANGED <<activity, phase>>

InstallReserves(u) ==
  /\ install[u].pc = "reserve"
  /\ ReserveUpdate(u)
  /\ SetInstall(u, [install[u] EXCEPT !.pc = "begin"])
  /\ UNCHANGED <<phase, installed>>

InstallRefused(u) ==
  /\ install[u].pc = "reserve" /\ ~Admissible
  /\ Done(u) /\ UNCHANGED <<activity, phase>>

InstallBegins(u) ==
  /\ install[u].pc = "begin"
  /\ SetPhase(u, "downloading")
  /\ SetInstall(u, [install[u] EXCEPT !.pc = "download"])
  /\ UNCHANGED <<activity, installed>>

\* MUTANT: the updates of the service are downloaded, not the copied ones.
BugInstallDownloads(u) ==
  /\ install[u].pc = "download" /\ updates # <<>>
  /\ \/ /\ SetInstall(u, [install[u] EXCEPT !.updates = updates, !.pc = "publish"])
        /\ SetPhase(u, "ready")
     \/ /\ SetInstall(u, [install[u] EXCEPT !.updates = Tail(updates)])
        /\ UNCHANGED phase
  /\ UNCHANGED <<activity, installed>>

\* Each root's update is downloaded until one verifies.
InstallDownloads(u) ==
  /\ install[u].pc = "download" /\ install[u].updates # <<>>
  /\ \/ /\ SetInstall(u, [install[u] EXCEPT !.pc = "publish"])
        /\ SetPhase(u, "ready")
     \/ /\ SetInstall(u, [install[u] EXCEPT !.updates = Tail(@)])
        /\ UNCHANGED phase
  /\ UNCHANGED <<activity, installed>>

InstallPublishes(u) ==
  /\ install[u].pc = "publish"
  /\ SetPhase(u, "installing")
  /\ SetInstall(u, [install[u] EXCEPT !.pc = "launch"])
  /\ UNCHANGED <<activity, installed>>

\* An event that cannot be published, or an identifier that cannot be drawn, ends
\* the call and drops its lease; the state stays what it was set to last.
InstallStops(u) ==
  /\ \/ install[u].pc = "begin" /\ (UNCHANGED phase \/ SetPhase(u, "downloading"))
     \/ install[u].pc \in {"publish", "launch"} /\ UNCHANGED phase
  /\ DropUpdate(u)
  /\ Done(u)

\* install_error: no update verifies, the one that does is too large, or its
\* installer cannot be launched.
InstallFails(u) ==
  /\ install[u].pc \in {"download", "launch"}
  /\ SetPhase(u, "error")
  /\ DropUpdate(u)
  /\ Done(u)

\* The installer is launched after the safety hook, and the process exits.
InstallLaunches(u) ==
  /\ install[u].pc = "launch"
  /\ installed' = Head(install[u].updates)
  /\ SetInstall(u, [install[u] EXCEPT !.pc = "exited"])
  /\ UNCHANGED <<activity, phase>>

-----------------------------------------------------------------------------
CheckStep(c) ==
  \/ CheckBegins(c) \/ CheckReloadFails(c) \/ CheckAsks(c)
  \/ CheckFinds(c) \/ CheckFindsNone(c) \/ CheckNotRecorded(c)

PreferencesStep(p) == PatchStores(p) \/ PatchFails(p) \/ PatchResets(p)

InstallStep(u) ==
  \/ InstallReads(u) \/ InstallTakes(u) \/ InstallReserves(u) \/ InstallRefused(u)
  \/ InstallBegins(u) \/ InstallDownloads(u) \/ InstallPublishes(u)
  \/ InstallStops(u) \/ InstallFails(u) \/ InstallLaunches(u)

UpdateStep ==
  \/ \E channel \in Channels : AuthorityReleases(channel)
  \/ OtherActivity
  \/ \E c \in Checks : CheckStep(c)
  \/ \E p \in Patches : PreferencesStep(p)
  \/ \E u \in Updates : InstallStep(u)

UpdateNext == installed = None /\ UpdateStep

UpdateSpec == UpdateInit /\ [][UpdateNext]_updateVars

-----------------------------------------------------------------------------
\* Between calls, the candidate is one the preferences in force allow: checks
\* and patches of several threads never leave an update of another channel, or
\* a skipped one, ready to be installed (native_runtime.rs patch_settings and
\* patch_update_preferences reset the service under the settings lock).
CandidateFitsPreferences ==
  lock = None /\ candidate # None =>
    candidate.channel = preferences.channel /\ candidate.version # preferences.skip

\* What is launched was found by the check whose version the user asked for,
\* whatever checks and patches ran during the download (install copies the
\* candidate and its updates under one lock).
InstallerWasAskedFor ==
  \A u \in Updates : install[u].pc = "exited" =>
    /\ install[u].candidate.version = install[u].target
    /\ installed.check = install[u].candidate.check

\* Update: what is launched was found by the check the user saw, and what is
\* offered between the calls is what the preferences in force allow
\* (native_update.rs install, native_runtime.rs patch_settings).
LaunchedWasAskedFor == InstallerWasAskedFor /\ CandidateFitsPreferences
=============================================================================
