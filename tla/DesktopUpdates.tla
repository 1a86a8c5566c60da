---------------------------- MODULE DesktopUpdates ----------------------------
(***************************************************************************)
(* Updating the Desktop application: the update manager (update-manager.ts),*)
(* its IPC (update-ipc.ts), the package installer                          *)
(* (source-nerve-rpm-updater.ts) and the card of the settings screen       *)
(* (UpdateSettings.tsx).                                                   *)
(*                                                                         *)
(* The updater library looks at the published releases, downloads the one  *)
(* it saw last and reports with events.  A release is a number, 0 the one  *)
(* that runs.  Requests of the window are handled in the order they were   *)
(* sent; leaving the screen and coming back forgets that one is under way. *)
(* The library joins a check or a download to the one under way.           *)
(***************************************************************************)
EXTENDS Naturals, Sequences, SequencesExt

CONSTANTS MaxRelease,  \* bound: releases published
          MaxAsks,     \* bound: requests about updates
          MaxFaults    \* bound: failures, timeouts, screens left, restarts

VARIABLES
  platform,    \* "rpm": installed by the package manager while running; "other"
  compatible,  \* the releases whose metadata fits this application
  feed,        \* the release published last
  view,        \* the update manager's state and release
  updater,     \* the library: seen, checking, loading, file (releases; 0 is none)
  installers,  \* the releases package managers are installing for the manager
  late,        \* those still being installed after the timeout or the restart
  behind,      \* the release on disk behind the application that runs
  running,     \* 0; once it has restarted: the release the application became
  asked, busy, \* requests not yet handled; the one the screen waits for
  crossed,     \* a check ran beside a download or an installation
  asks, faults

vars == <<platform, compatible, feed, view, updater, installers, late, behind, running, asked,
          busy, crossed, asks, faults>>
world == <<platform, compatible, feed>>
disk == <<installers, late, behind, running>>

Fault == faults < MaxFaults /\ faults' = faults + 1
Up == running = 0

-----------------------------------------------------------------------------
(* The window. *)

CanCheck == view.state \notin {"checking", "downloading", "installing"}
CanDownload == view.state = "available"
CanRestart == view.state \in {"downloaded", "install-failed"}
Run(what) ==
  /\ Up /\ busy = "none" /\ asks < MaxAsks
  /\ what = "check" => CanCheck
  /\ what = "download" => CanDownload
  /\ what = "restart" => CanRestart
  /\ asked' = Append(asked, what) /\ busy' = what /\ asks' = asks + 1
  /\ UNCHANGED <<world, view, updater, disk, crossed, faults>>
ComeBack ==
  /\ Up /\ busy # "none" /\ Fault
  /\ busy' = "none"
  /\ UNCHANGED <<world, view, updater, disk, asked, crossed, asks>>

\* An answer reaches the screen that asked; one that came back does not wait.
Answered(what) ==
  busy' = IF busy = what /\ ~Contains(asked, what) THEN "none" ELSE busy

\* Everybody else: another release.
Publish ==
  /\ Up /\ feed < MaxRelease
  /\ feed' = feed + 1
  /\ UNCHANGED <<platform, compatible, view, updater, disk, asked, busy, crossed, asks, faults>>

-----------------------------------------------------------------------------
(* The manager and the library. *)

Handled(what) == Up /\ asked # <<>> /\ Head(asked) = what /\ asked' = Tail(asked)
Patch(state) == view' = [view EXCEPT !.state = state]

Check ==
  /\ Handled("check")
  /\ Patch("checking")
  /\ updater' = [updater EXCEPT !.checking = TRUE]
  /\ crossed' = (crossed \/ updater.loading # 0 \/ installers # {})
  /\ UNCHANGED <<world, disk, busy, asks, faults>>

\* applyAvailableInfo: a newer release is offered if its metadata fits.
ApplyAvailableInfo(r) ==
  IF r \in compatible THEN [state |-> "available", release |-> r]
                      ELSE [state |-> "incompatible", release |-> 0]
Checked ==
  /\ Up /\ updater.checking
  /\ \/ /\ updater' = [updater EXCEPT !.checking = FALSE, !.seen = feed]
        /\ view' = IF feed = 0 THEN [state |-> "up-to-date", release |-> 0]
                               ELSE ApplyAvailableInfo(feed)
        /\ UNCHANGED faults
     \/ /\ Fault /\ Patch("error")
        /\ updater' = [updater EXCEPT !.checking = FALSE]
  /\ Answered("check")
  /\ UNCHANGED <<world, disk, asked, crossed, asks>>

\* download: of the release the library saw last.
Download ==
  /\ Handled("download")
  /\ IF view.state = "available"
     THEN /\ Patch("downloading") /\ UNCHANGED busy
          /\ updater' = IF updater.loading # 0 THEN updater
                        ELSE [updater EXCEPT !.loading = updater.seen, !.file = 0]
     ELSE /\ Patch("error") /\ UNCHANGED updater
          /\ busy' = IF busy = "download" /\ ~Contains(asked', "download") THEN "none" ELSE busy
  /\ UNCHANGED <<world, disk, crossed, asks, faults>>
DownloadProgress ==
  /\ Up /\ updater.loading # 0
  /\ Patch("downloading")
  /\ UNCHANGED <<world, updater, disk, asked, busy, crossed, asks, faults>>

\* update-downloaded: the metadata of what was downloaded is looked at again,
\* and what it says stands when the download has been answered.
Downloaded ==
  /\ Up /\ updater.loading # 0
  /\ \/ /\ updater' = [updater EXCEPT !.loading = 0, !.file = updater.loading]
        /\ view' = IF updater.loading \in compatible
                   THEN [state |-> "downloaded", release |-> updater.loading]
                   ELSE [view EXCEPT !.state = "incompatible"]
        /\ UNCHANGED faults
     \/ /\ Fault /\ Patch("error")
        /\ updater' = [updater EXCEPT !.loading = 0]
  /\ Answered("download")
  /\ UNCHANGED <<world, disk, asked, crossed, asks>>

\* A bug: what is only available may be installed too.
RestartableWhenAvailable == view.state \in {"available", "downloaded", "install-failed"}

\* restartToUpdate, of a verified download or again after a failure.
Restartable == view.state \in {"downloaded", "install-failed"}
RestartToUpdate ==
  /\ Handled("restart")
  /\ IF Restartable /\ updater.file # 0
     THEN /\ Patch("installing") /\ installers' = installers \cup {updater.file}
          /\ UNCHANGED busy
     ELSE /\ IF Restartable THEN Patch("install-failed") ELSE UNCHANGED view
          /\ busy' = IF busy = "restart" /\ ~Contains(asked', "restart") THEN "none" ELSE busy
          /\ UNCHANGED installers
  /\ UNCHANGED <<world, updater, late, behind, running, crossed, asks, faults>>

\* The package manager (or, elsewhere, the library on quitting) is done, and the
\* application starts again as what was installed.
Installed(r) ==
  /\ Up /\ r \in installers
  /\ running' = r /\ installers' = installers \ {r}
  /\ UNCHANGED <<world, view, updater, late, behind, asked, busy, crossed, asks, faults>>

\* It fails, or takes too long and is told to stop: it may yet finish.
InstallFails(r) ==
  /\ Up /\ r \in installers /\ Fault
  /\ Patch("install-failed") /\ Answered("restart")
  /\ installers' = installers \ {r}
  /\ \/ UNCHANGED late
     \/ platform = "rpm" /\ late' = late \cup {r}
  /\ UNCHANGED <<world, updater, behind, running, asked, crossed, asks>>
InstalledLate(r) ==
  /\ Up /\ r \in late
  /\ late' = late \ {r} /\ behind' = r
  /\ UNCHANGED <<world, view, updater, installers, running, asked, busy, crossed, asks, faults>>

\* The application is quit and started again; a package manager goes on.  What
\* was installed late is what starts.
StartAgain ==
  /\ Up /\ Fault
  /\ running' = behind /\ late' = late \cup installers /\ installers' = {}
  /\ view' = [state |-> "idle", release |-> 0]
  /\ updater' = [seen |-> 0, checking |-> FALSE, loading |-> 0, file |-> 0]
  /\ asked' = <<>> /\ busy' = "none"
  /\ UNCHANGED <<world, behind, crossed, asks>>

-----------------------------------------------------------------------------
Init ==
  /\ platform \in {"rpm", "other"} /\ compatible \in SUBSET (1..MaxRelease) /\ feed = 0
  /\ view = [state |-> "idle", release |-> 0]
  /\ updater = [seen |-> 0, checking |-> FALSE, loading |-> 0, file |-> 0]
  /\ installers = {} /\ late = {} /\ behind = 0 /\ running = 0
  /\ asked = <<>> /\ busy = "none" /\ crossed = FALSE /\ asks = 0 /\ faults = 0

Next ==
  \/ \E what \in {"check", "download", "restart"} : Run(what)
  \/ ComeBack \/ Publish \/ Check \/ Checked \/ Download \/ DownloadProgress \/ Downloaded
  \/ RestartToUpdate \/ StartAgain
  \/ \E r \in 1..MaxRelease : Installed(r) \/ InstallFails(r) \/ InstalledLate(r)

Spec == Init /\ [][Next]_vars

-----------------------------------------------------------------------------
\* A restart is only offered when the package downloaded is of the release
\* shown; so is a second try, unless a check ran beside the download or the
\* installation.  Only a release whose metadata fits is ever installed, and no
\* state that says something is under way outlives what is under way
\* (DesktopUpdateManager).
UpdateIsVerified ==
  /\ view.state = "downloaded" \/ (view.state \in {"installing", "install-failed"} /\ ~crossed) =>
       updater.file = view.release
  /\ installers \cup late \cup {running, behind} \subseteq compatible \cup {0}
  /\ view.state = "checking" => updater.checking
  /\ view.state = "downloading" => updater.loading # 0
  /\ view.state = "installing" => installers # {} \/ running # 0
================================================================================
