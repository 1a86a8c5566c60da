------------------------------ MODULE RuntimeLog ------------------------------
(***************************************************************************)
(* RuntimeLogStore (desktop/src/main/runtime-log-store.ts): the bounded    *)
(* log of runtime events in memory, and its rotated files.                 *)
(*                                                                         *)
(* An entry is its size and a stamp, the number of entries that were       *)
(* recorded before it by this and by earlier processes; wording and        *)
(* redaction are left out.  A file that does not exist is empty.           *)
(***************************************************************************)
EXTENDS Naturals, Sequences, FiniteSets, SequencesExt

CONSTANTS
    Events,           \* runtime events: a type and the size of the text
    MaxMessageBytes,  \* MAX_MESSAGE_BYTES
    MaxBundleBytes,   \* MAX_DIAGNOSTICS_BYTES
    MaxEntries,       \* RuntimeLogStoreOptions.maxEntries
    MaxMemoryBytes,   \* RuntimeLogStoreOptions.maxMemoryBytes
    MaxFileBytes,     \* RuntimeLogStoreOptions.maxFileBytes
    Rotations,        \* RuntimeLogStoreOptions.rotations
    MaxRecords,       \* bound: entries recorded
    MaxFaults         \* bound: failing steps and crashes

VARIABLES
    entries,   \* RuntimeLogStore.entries
    dropped,   \* RuntimeLogStore.droppedEntries
    recorded,  \* entries recorded by all processes
    first,     \* entries recorded before this process started
    queue,     \* RuntimeLogStore.writeQueue
    files,     \* files[0] the log, files[i] its i-th rotation
    writer,    \* where appendSerialized is: a step and the file it is at
    lost,      \* stamps whose append failed, or was cut off by a crash
    faults

vars == <<entries, dropped, recorded, first, queue, files, writer, lost, faults>>

Idle == [step |-> "idle", file |-> 0]

Init ==
    /\ entries = <<>> /\ dropped = 0 /\ recorded = 0 /\ first = 0
    /\ queue = <<>> /\ files = [i \in 0..Rotations |-> <<>>]
    /\ writer = Idle /\ lost = {}
    /\ faults = 0

Fault == faults < MaxFaults /\ faults' = faults + 1

-----------------------------------------------------------------------------
\* sanitizeText: a text is cut; what looks like a bundle may be longer.
Sanitized(event) ==
    LET limit == IF event.type = "bundle" THEN MaxBundleBytes ELSE MaxMessageBytes
    IN IF event.bytes > limit THEN limit ELSE event.bytes
\* eventToLogEntry: the progress of a turn is not logged.
Logged(event) == event.type # "progress"

Bytes(s) == FoldSeq(LAMBDA e, n : e.bytes + n, 0, s)

\* The loop of record: the oldest entries make room, the newest one stays.
Fits(s) == Len(s) <= MaxEntries /\ (Len(s) > 1 => Bytes(s) <= MaxMemoryBytes)
Retained(s) ==
    LET fitting == {k \in 1..Len(s) : Fits(SubSeq(s, k, Len(s)))}
    IN SubSeq(s, CHOOSE k \in fitting : \A j \in fitting : k <= j, Len(s))

\* record: kept in memory at once, appended to the file in turn.
Record(event) ==
    LET entry == [stamp |-> recorded + 1, bytes |-> Sanitized(event)]
        kept == Retained(Append(entries, entry))
    IN /\ recorded < MaxRecords /\ Logged(event)
       /\ recorded' = recorded + 1
       /\ entries' = kept
       /\ dropped' = dropped + Len(entries) + 1 - Len(kept)
       /\ queue' = Append(queue, entry)
       /\ UNCHANGED <<first, files, writer, lost, faults>>

\* Mutant: the size of the line that is appended is forgotten.
FullWithout(line) == files[0] # <<>> /\ Bytes(files[0]) > MaxFileBytes
Full(line) == files[0] # <<>> /\ Bytes(files[0]) + line.bytes > MaxFileBytes

\* appendSerialized looks at the size of the file.
BeginAppend ==
    /\ writer = Idle /\ queue # <<>>
    /\ writer' = IF Full(Head(queue)) THEN [step |-> "remove", file |-> Rotations]
                 ELSE [step |-> "append", file |-> 0]
    /\ UNCHANGED <<entries, dropped, recorded, first, queue, files, lost,
                   faults>>

\* rotate: the oldest file is removed, then the others move up, oldest first.
RemoveOldest ==
    /\ writer.step = "remove"
    /\ files' = [files EXCEPT ![Rotations] = <<>>]
    /\ writer' = [step |-> "move", file |-> Rotations - 1]
    /\ UNCHANGED <<entries, dropped, recorded, first, queue, lost, faults>>

MoveFile ==
    LET i == writer.file
    IN /\ writer.step = "move"
       /\ files' = IF files[i] = <<>> THEN files
                   ELSE [files EXCEPT ![i + 1] = files[i], ![i] = <<>>]
       /\ writer' = IF i = 0 THEN [step |-> "append", file |-> 0]
                    ELSE [step |-> "move", file |-> i - 1]
       /\ UNCHANGED <<entries, dropped, recorded, first, queue, lost, faults>>

AppendLine ==
    /\ writer.step = "append"
    /\ files' = [files EXCEPT ![0] = Append(@, Head(queue))]
    /\ queue' = Tail(queue)
    /\ writer' = Idle
    /\ UNCHANGED <<entries, dropped, recorded, first, lost, faults>>

\* A step of an append fails: the catch in record forgets that entry.
AppendFails ==
    /\ writer # Idle
    /\ Fault
    /\ lost' = lost \cup {Head(queue).stamp}
    /\ queue' = Tail(queue)
    /\ writer' = Idle
    /\ UNCHANGED <<entries, dropped, recorded, first, files>>

\* The application is killed and started again: the files are what is left.
LogRestarts ==
    /\ recorded > first
    /\ Fault
    /\ entries' = <<>> /\ dropped' = 0 /\ first' = recorded
    /\ lost' = lost \cup {queue[i].stamp : i \in DOMAIN queue}
    /\ queue' = <<>> /\ writer' = Idle
    /\ UNCHANGED <<recorded, files>>

-----------------------------------------------------------------------------
Next ==
    \/ \E event \in Events : Record(event)
    \/ BeginAppend \/ RemoveOldest \/ MoveFile \/ AppendLine \/ AppendFails
    \/ LogRestarts
Spec == Init /\ [][Next]_vars

-----------------------------------------------------------------------------
\* The files, oldest first, and the entries still to be written.
Written == FlattenSeq([i \in 1..(Rotations + 1) |-> files[Rotations + 1 - i]])
Stamps(s) == {s[i].stamp : i \in DOMAIN s}

\* The log on disk reads in the order things happened, each entry once, and has
\* no hole: from its oldest entry on only those are missing whose append failed
\* or was cut off, whatever step of a rotation was the last one done.
FilesAreTail ==
    /\ \A i, j \in DOMAIN Written : i < j => Written[i].stamp < Written[j].stamp
    /\ Written # <<>> =>
          (Written[1].stamp)..recorded \subseteq
             Stamps(Written) \cup Stamps(queue) \cup lost
    /\ \A i \in 0..Rotations :
          Bytes(files[i]) <= MaxFileBytes \/ Len(files[i]) = 1

\* Memory holds the last entries of this process and has counted the others.
MemoryIsTail ==
    /\ Fits(entries)
    /\ dropped + Len(entries) = recorded - first
    /\ \A i \in DOMAIN entries : entries[i].stamp = recorded - Len(entries) + i

\* What the user is shown as the log, and what is left of it after a crash, is
\* the end of what happened: in memory without a gap, on disk without any but
\* the entries whose own append failed.
LogIsTail == FilesAreTail /\ MemoryIsTail
===============================================================================
