-------------------------- MODULE DesktopDiagnostics --------------------------
(***************************************************************************)
(* DiagnosticsManager and its IPC handlers: previews of a support bundle   *)
(* that can be exported, and the latest state backup                       *)
(* (desktop/src/main/diagnostics-manager.ts, diagnostics-ipc.ts).          *)
(***************************************************************************)
EXTENDS Naturals, Sequences, FiniteSets, SequencesExt

CONSTANTS
    Calls,            \* calls that may be open at the same time
    MaxPending,       \* MAX_PENDING_PREVIEWS
    Ttl,              \* PREVIEW_TTL_MS
    MaxAsks,          \* bound: previews and backups asked for
    MaxTime,          \* bound: the clock
    MaxFaults         \* bound: failing steps and crashes

VARIABLES
    now, pending, shown, begun,     \* the clock and the previews
    asking,    \* calls that are building a preview
    latest,    \* DiagnosticsManager.latestBackup
    stored, temporary,              \* recovery-state.json and its .tmp-<pid>
    backups,   \* backups the daemon has made
    created,   \* backups asked for
    saving,    \* saving[c]: where createAndValidateStateBackup is
    unsure,    \* two backups overlapped, or storing one failed
    faults

previewVars == <<now, pending, shown, begun, asking>>
backupVars == <<latest, stored, temporary, backups, created, saving, unsure>>
vars == <<previewVars, backupVars, faults>>

None == 0

Init ==
    /\ now = 0 /\ pending = <<>> /\ shown = {} /\ begun = 0 /\ asking = {}
    /\ latest = None /\ stored = None /\ temporary = None
    /\ backups = 0 /\ created = 0
    /\ saving = [c \in Calls |-> [at |-> "idle", backup |-> None]]
    /\ unsure = FALSE
    /\ faults = 0

Fault == faults < MaxFaults /\ faults' = faults + 1

-----------------------------------------------------------------------------
(* Support bundle previews.                                                *)

Pruned(s) == SelectSeq(s, LAMBDA p : p.expires > now)
\* The preview that expires first makes room for the next one.
EvictedNewest(s) == IF Len(s) >= MaxPending THEN Front(s) ELSE s
Evicted(s) == IF Len(s) >= MaxPending THEN Tail(s) ELSE s

\* previewSupportBundle, up to the first await of buildBundlePayload.
PreviewSupportBundle(c) ==
    /\ c \notin asking /\ begun + created < MaxAsks
    /\ begun' = begun + 1
    /\ asking' = asking \cup {c}
    /\ pending' = Evicted(Pruned(pending))
    /\ UNCHANGED <<now, shown, backupVars, faults>>

\* The payload is there: the preview is kept and shown.
PreviewShown(c) ==
    LET preview == [id |-> Cardinality(shown) + 1, expires |-> now + Ttl,
                    mark |-> begun]
    IN /\ c \in asking
       /\ asking' = asking \ {c}
       /\ pending' = Append(pending, preview)
       /\ shown' = shown \cup {preview}
       /\ UNCHANGED <<now, begun, backupVars, faults>>

PreviewFails(c) ==
    /\ c \in asking
    /\ Fault
    /\ asking' = asking \ {c}
    /\ UNCHANGED <<now, pending, shown, begun, backupVars>>

\* exportBytes: what is no longer pending is refused.
Export(p) ==
    /\ p \in shown
    /\ pending' = Pruned(pending)
    /\ UNCHANGED <<now, shown, begun, asking, backupVars, faults>>

Tick ==
    /\ now < MaxTime
    /\ now' = now + 1
    /\ UNCHANGED <<pending, shown, begun, asking, backupVars, faults>>

-----------------------------------------------------------------------------
(* State backups.                                                          *)

At(c, at, backup) == saving' = [saving EXCEPT ![c] = [at |-> at, backup |-> backup]]
Overlaps == \E c \in Calls : saving[c].at # "idle"

CreateStateBackup(c) ==
    /\ saving[c].at = "idle" /\ begun + created < MaxAsks
    /\ created' = created + 1
    /\ unsure' = (unsure \/ Overlaps)
    /\ At(c, "create", None)
    /\ UNCHANGED <<previewVars, latest, stored, temporary, backups, faults>>

\* The daemon has made the backup: it is the latest one from now on.
BackupCreated(c) ==
    /\ saving[c].at = "create"
    /\ backups' = backups + 1
    /\ latest' = backups + 1
    /\ At(c, "write", backups + 1)
    /\ UNCHANGED <<previewVars, stored, temporary, created, unsure, faults>>

CreateFails(c) ==
    /\ saving[c].at = "create"
    /\ Fault
    /\ At(c, "idle", None)
    /\ UNCHANGED <<previewVars, latest, stored, temporary, backups, created,
                   unsure>>

\* writeRecoveryState: every call writes the same temporary file and moves it.
WriteTemporary(c) ==
    /\ saving[c].at = "write"
    /\ temporary' = saving[c].backup
    /\ At(c, "move", saving[c].backup)
    /\ UNCHANGED <<previewVars, latest, stored, backups, created, unsure,
                   faults>>

\* Then the backup is validated, which changes nothing here.
MoveTemporary(c) ==
    /\ saving[c].at = "move" /\ temporary # None
    /\ stored' = temporary
    /\ temporary' = None
    /\ At(c, "idle", None)
    /\ UNCHANGED <<previewVars, latest, backups, created, unsure, faults>>

\* Another call has moved the temporary file away: the rename fails.
MoveFindsNothing(c) ==
    /\ saving[c].at = "move" /\ temporary = None
    /\ At(c, "idle", None)
    /\ UNCHANGED <<previewVars, latest, stored, temporary, backups, created,
                   unsure, faults>>

WriteFails(c) ==
    /\ saving[c].at \in {"write", "move"}
    /\ Fault
    /\ unsure' = TRUE
    /\ At(c, "idle", None)
    /\ UNCHANGED <<previewVars, latest, stored, temporary, backups, created>>

\* The application is killed and started again: initialize reads back what was
\* stored, and the previews went with the window that showed them.
ManagerRestarts ==
    /\ Fault
    /\ latest' = stored
    /\ temporary' = None
    /\ saving' = [c \in Calls |-> [at |-> "idle", backup |-> None]]
    /\ unsure' = FALSE
    /\ pending' = <<>> /\ shown' = {} /\ asking' = {}
    /\ UNCHANGED <<now, begun, stored, backups, created>>

-----------------------------------------------------------------------------
Next ==
    \/ \E c \in Calls : PreviewSupportBundle(c) \/ PreviewShown(c) \/ PreviewFails(c)
    \/ \E p \in shown : Export(p)
    \/ Tick
    \/ \E c \in Calls : \/ CreateStateBackup(c) \/ BackupCreated(c) \/ CreateFails(c)
                        \/ WriteTemporary(c) \/ MoveTemporary(c)
                        \/ MoveFindsNothing(c) \/ WriteFails(c)
    \/ ManagerRestarts
Spec == Init /\ [][Next]_vars

-----------------------------------------------------------------------------
\* A preview that was shown can be exported until it expires or MaxPending
\* later previews were finished or begun.
ShownStaysExportable ==
    \A p \in shown :
       \/ p.expires <= now
       \/ \E i \in DOMAIN pending : pending[i] = p
       \/ (Cardinality(shown) - p.id) + (begun - p.mark) >= MaxPending

\* The backup that is remembered was made, and it is the one a restart finds,
\* unless two backups overlapped or storing one failed.
LatestBackupSurvives ==
    /\ latest <= backups /\ stored <= backups
    /\ ~Overlaps /\ ~unsure => stored = latest

\* A promise made to the user is kept while other calls come and go: a preview
\* can be exported as it was shown, the backup that was announced can be found.
SupportStateKept == ShownStaysExportable /\ LatestBackupSurvives
=============================================================================
