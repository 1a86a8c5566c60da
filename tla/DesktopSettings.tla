---------------------------- MODULE DesktopSettings ----------------------------
(***************************************************************************)
(* The Desktop's startup and background preferences: the store             *)
(* (desktop-preferences.ts), the controller (background-controller.ts), the *)
(* card of the settings screen (DesktopSettings.tsx,                       *)
(* DesktopBehaviorSettingsCard.tsx) and what they decide for the window    *)
(* (main.ts).                                                              *)
(*                                                                         *)
(* A file that is missing or invalid counts as one with the defaults.  All *)
(* writes of one process share one temporary file.  The switch for         *)
(* notifications has no effect on anything else and is left out, and so is *)
(* resetPreferences, which nothing calls.                                  *)
(***************************************************************************)
EXTENDS Naturals, Sequences, SequencesExt

CONSTANTS Policies,   \* what product profiles may allow: [background, login : BOOLEAN]
          MaxSaves,   \* bound: updates of the preferences
          MaxFaults,  \* bound: failures, screens left, restarts
          None

VARIABLES
  policy,      \* what the product profile allows
  file, temporary, mem, \* the stored preferences, those being written, those in memory
  item,        \* the login item of the system
  saves,       \* updates of the preferences under way
  shown, saving, \* the screen
  window,      \* "open", "hidden", "none" (the application runs on), "quit"
  unsettled,   \* updates overlapped or could not be undone, and none succeeded alone since
  asks, faults

vars == <<policy, file, temporary, mem, item, saves, shown, saving, window, unsettled, asks,
          faults>>
stored == <<file, temporary, mem>>

Fault == faults < MaxFaults /\ faults' = faults + 1

Preferences ==
  {p \in [background : BOOLEAN, close : {"tray", "quit"}, login : BOOLEAN] :
     p.close = "tray" => p.background}
EffectivePreferences(p) ==
  LET background == policy.background /\ p.background IN
  [background |-> background, close |-> IF background THEN p.close ELSE "quit",
   login |-> policy.login /\ p.login]
AssertAllowed(p) ==
  /\ p.background => policy.background
  /\ p.login => policy.login

-----------------------------------------------------------------------------
(* The screen. *)

\* One switch of what is shown is turned.
ToggleBackground ==
  [shown EXCEPT !.background = ~@, !.close = IF shown.background THEN "quit" ELSE "tray"]
Toggles ==
  {ToggleBackground, [shown EXCEPT !.login = ~@]}
    \cup {[shown EXCEPT !.close = c] : c \in IF shown.background THEN {"tray", "quit"} ELSE {}}

\* updatePreferences: what is stored is remembered for the case that it fails.
Save ==
  /\ window = "open" /\ ~saving /\ asks < MaxSaves
  /\ asks' = asks + 1
  /\ \E next \in Toggles \ {shown} :
       IF AssertAllowed(next)
       THEN /\ saves' = Append([i \in DOMAIN saves |-> [saves[i] EXCEPT !.alone = FALSE]],
                               [next |-> next, previous |-> mem, at |-> "write", undoing |-> FALSE,
                                mine |-> TRUE, alone |-> saves = <<>>])
            /\ saving' = TRUE /\ unsettled' = (unsettled \/ saves # <<>>)
       ELSE UNCHANGED <<saves, saving, unsettled>>
  /\ UNCHANGED <<policy, stored, item, shown, window, faults>>

\* The screen is left and shown again; it forgets what it asked for.
Forgotten == [i \in DOMAIN saves |-> [saves[i] EXCEPT !.mine = FALSE]]
Reload == saving' = FALSE /\ shown' = EffectivePreferences(mem)
ComeBack ==
  /\ window = "open" /\ saving /\ Fault
  /\ Reload /\ saves' = Forgotten
  /\ UNCHANGED <<policy, stored, item, window, unsettled, asks>>

-----------------------------------------------------------------------------
(* The controller and the store. *)

At(i, step) == i \in DOMAIN saves /\ saves[i].at = step
Answered(i) ==
  /\ saves' = RemoveAt(saves, i)
  /\ saving' = (saving /\ ~saves[i].mine)

\* A bug: the preferences are kept though the login item could not be changed.
UndoneNot(s) == s.next

\* What is stored again after a failure.
Undone(s) == s.previous
Writing(s) == IF s.undoing THEN Undone(s) ELSE s.next

\* atomicWrite: the temporary file, then the rename, which fails when another
\* update has just renamed the same file.
WriteTemporary(i) ==
  /\ At(i, "write")
  /\ \/ /\ temporary' = Writing(saves[i]) /\ saves' = [saves EXCEPT ![i].at = "rename"]
        /\ UNCHANGED <<saving, unsettled, faults>>
     \/ /\ Fault /\ Answered(i) /\ unsettled' = (unsettled \/ saves[i].undoing)
        /\ UNCHANGED temporary
  /\ UNCHANGED <<policy, file, mem, item, shown, window, asks>>
Rename(i) ==
  /\ At(i, "rename")
  /\ \/ /\ temporary # None
        /\ file' = temporary /\ temporary' = None /\ mem' = Writing(saves[i])
        /\ IF saves[i].undoing THEN Answered(i)
           ELSE saves' = [saves EXCEPT ![i].at = "apply"] /\ UNCHANGED saving
        /\ UNCHANGED <<unsettled, faults>>
     \/ /\ temporary = None \/ faults < MaxFaults
        /\ faults' = IF temporary = None THEN faults ELSE faults + 1
        /\ Answered(i) /\ unsettled' = (unsettled \/ saves[i].undoing)
        /\ UNCHANGED stored
  /\ UNCHANGED <<policy, item, shown, window, asks>>

\* applyLaunchAtLogin; when it fails what was stored before is stored again.
ApplyLaunchAtLogin(i) ==
  /\ At(i, "apply")
  /\ \/ /\ item' = EffectivePreferences(saves[i].next).login
        /\ Answered(i) /\ unsettled' = (unsettled /\ ~saves[i].alone)
        /\ shown' = IF saves[i].mine THEN EffectivePreferences(mem) ELSE shown
        /\ UNCHANGED faults
     \/ /\ Fault /\ saves' = [saves EXCEPT ![i].at = "write", ![i].undoing = TRUE]
        /\ UNCHANGED <<item, saving, shown, unsettled>>
  /\ UNCHANGED <<policy, stored, window, asks>>

-----------------------------------------------------------------------------
(* The window. *)

ShouldHideOnClose == LET p == EffectivePreferences(mem) IN p.background /\ p.close = "tray"
ShouldKeepRunningWithoutWindows == EffectivePreferences(mem).background

\* The application ends at any step of an update.
Ends == saves' = <<>> /\ temporary' = None /\ window' = "quit"
CloseWindow ==
  /\ window = "open"
  /\ IF ShouldHideOnClose THEN window' = "hidden" /\ UNCHANGED <<saves, saving, temporary>>
     ELSE IF ShouldKeepRunningWithoutWindows
     THEN window' = "none" /\ saves' = Forgotten /\ saving' = FALSE /\ UNCHANGED temporary
     ELSE Ends /\ saving' = FALSE
  /\ UNCHANGED <<policy, file, mem, item, shown, unsettled, asks, faults>>
\* The tray's menu, or a crash.
Quit ==
  /\ window # "quit" /\ Fault /\ Ends /\ saving' = FALSE
  /\ UNCHANGED <<policy, file, mem, item, shown, unsettled, asks>>
ShowWindow ==
  /\ window \in {"hidden", "none"}
  /\ window' = "open"
  /\ IF window = "none" THEN Reload ELSE UNCHANGED <<shown, saving>>
  /\ UNCHANGED <<policy, stored, item, saves, unsettled, asks, faults>>

\* The next start: the file is read and the login item set again, if it can be.
\* An application started at login stays hidden if it may run without windows.
StartAgain ==
  /\ window = "quit"
  /\ mem' = file /\ shown' = EffectivePreferences(file)
  /\ \/ /\ item' = EffectivePreferences(file).login /\ unsettled' = FALSE /\ UNCHANGED faults
     \/ Fault /\ unsettled' = TRUE /\ UNCHANGED item
  /\ window' \in {"open"} \cup
       (IF item /\ EffectivePreferences(file).background THEN {"hidden"} ELSE {})
  /\ UNCHANGED <<policy, file, temporary, saves, saving, asks>>

-----------------------------------------------------------------------------
Init ==
  /\ policy \in Policies
  /\ file \in Preferences /\ temporary = None /\ mem = file
  /\ item = EffectivePreferences(file).login
  /\ saves = <<>> /\ shown = EffectivePreferences(file) /\ saving = FALSE
  /\ window \in {"open"} \cup
       (IF item /\ EffectivePreferences(file).background THEN {"hidden"} ELSE {})
  /\ unsettled = FALSE /\ asks = 0 /\ faults = 0

Next ==
  \/ Save \/ ComeBack \/ CloseWindow \/ Quit \/ ShowWindow \/ StartAgain
  \/ \E i \in 1..MaxSaves : WriteTemporary(i) \/ Rename(i) \/ ApplyLaunchAtLogin(i)

Spec == Init /\ [][Next]_vars

-----------------------------------------------------------------------------
\* Between updates of the preferences the login item is the one they ask for and
\* the file is what the application goes by, failures and restarts included.
\* Updates that overlap, and a change that could not be undone, may leave it
\* otherwise until an update succeeds on its own or the application starts again
\* (BackgroundController.updatePreferences).
LoginItemFollows ==
  saves = <<>> /\ ~unsettled /\ window # "quit" =>
    mem = file /\ item = EffectivePreferences(mem).login
================================================================================
