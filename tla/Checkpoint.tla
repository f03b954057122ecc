----------------------------- MODULE Checkpoint -----------------------------
(***************************************************************************)
(* The checkpoint writer (lib/sync.go) beside the dump it persists, and a  *)
(* crash and restart of the whole process. InstantSync reads the dump's    *)
(* (file, position) from dumpConfig once a second, and                     *)
(* SyncBinlogFilenamePos opens the checkpoint file with O_TRUNC and then   *)
(* writes "file:pos". The dump is abstracted to what SinkRefinement in     *)
(* BinlogDump shows of it: it hands the owed events to the callback in log *)
(* order, and the callback stores each event's file name and then its      *)
(* position into dumpConfig. On restart the process resumes from the file: *)
(* from the position it holds, or, when it holds none, from SHOW MASTER    *)
(* STATUS, the master's end of log.                                        *)
(***************************************************************************)
EXTENDS Naturals, Sequences, FiniteSetsExt

CONSTANTS
    Log,         \* the owed events' (file, LogPos), in log order
    Start,       \* the checkpoint the process first starts from
    NoFile,      \* the empty file name ""
    SyncPos,     \* dumpConfig.SyncPos as (file, pos); the code never assigns it
    MaxCrashes,  \* process crashes in one behaviour
    MaxFaults    \* failed checkpoint writes in one behaviour

N == Len(Log)
\* The contents of an empty checkpoint file.
Empty == << >>
Positions == {<<NoFile, 0>>} \cup {Start} \cup {Log[i] : i \in 1..N}
FileNames == {p[1] : p \in Positions}
Offsets == {p[2] : p \in Positions}

VARIABLES
    next,        \* the dump: the index in Log of the next event to deliver
    delivered,   \* the indices the callback has received
    fileName,    \* dumpConfig.BinlogDumpFileName
    position,    \* dumpConfig.BinlogDumpPosition
    cb,          \* "idle", or "pos": the callback stored the file, not the position
    wpc,         \* InstantSync: "loop", "pos" (file name read), "open" (newPos read),
                 \* "write" (file truncated)
    newPos,      \* the "file:pos" InstantSync read
    disk,        \* the checkpoint file: a position, or Empty
    crashes,
    faults

vars == <<next, delivered, fileName, position, cb, wpc, newPos, disk, crashes, faults>>
dumpVars == <<next, delivered, fileName, position, cb>>
writerVars == <<wpc, newPos>>

\* Log order of positions: file name first, then offset.
After(a, b) == a[1] > b[1] \/ (a[1] = b[1] /\ a[2] > b[2])

\* Where a dump from position p starts: the first owed event after it.
ResumeIndex(p) ==
    LET later == {i \in 1..N : After(Log[i], p)}
    IN  IF later = {} THEN N + 1 ELSE Min(later)

\* The first owed event (from the first start on) the sink has not received.
FirstUndelivered ==
    LET missing == {i \in ResumeIndex(Start)..N : i \notin delivered}
    IN  IF missing = {} THEN N + 1 ELSE Min(missing)

-----------------------------------------------------------------------------
(* The dump and the callback.                                              *)

\* DumpBinlog hands the next event to the callback, which stores its file
\* name into dumpConfig.
Deliver ==
    /\ next <= N /\ cb = "idle"
    /\ delivered' = delivered \cup {next}
    /\ fileName' = Log[next][1]
    /\ cb' = "pos"
    /\ next' = next + 1
    /\ UNCHANGED <<position, writerVars, disk, crashes, faults>>

\* ... and then its position.
StorePosition ==
    /\ cb = "pos"
    /\ position' = Log[next - 1][2]
    /\ cb' = "idle"
    /\ UNCHANGED <<next, delivered, fileName, writerVars, disk, crashes, faults>>

-----------------------------------------------------------------------------
(* The checkpoint writer.                                                  *)

\* CheckBinlogFilePos: "file:pos" with a file name.
CheckBinlogFilePos(p) == p[1] # NoFile

\* InstantSync: the Sprintf of newPos reads dumpConfig's two fields one
\* after the other, with no lock against the callback: first the file name
\* (newPos[1] holds it until the position is read) ...
InstantSync ==
    /\ wpc = "loop"
    /\ newPos' = <<fileName, newPos[2]>>
    /\ wpc' = "pos"
    /\ UNCHANGED <<dumpVars, disk, crashes, faults>>

\* Mutants of InstantSyncPosition: the Sprintf arguments swapped, and a
\* position formatted once, before the loop, and never again.
InstantSyncPositionSwapped ==
    /\ wpc = "pos"
    /\ newPos' = <<position, newPos[1]>>
    /\ wpc' = IF newPos' # SyncPos /\ CheckBinlogFilePos(newPos') THEN "open" ELSE "loop"
    /\ UNCHANGED <<dumpVars, disk, crashes, faults>>

InstantSyncPositionStale ==
    /\ wpc = "pos"
    /\ newPos' = newPos
    /\ wpc' = IF newPos' # SyncPos /\ CheckBinlogFilePos(newPos') THEN "open" ELSE "loop"
    /\ UNCHANGED <<dumpVars, disk, crashes, faults>>

\* ... then the position; SyncBinlogFilenamePos is called when newPos
\* differs from SyncPos, and an invalid position returns an error before
\* the file is opened.
InstantSyncPosition ==
    /\ wpc = "pos"
    /\ newPos' = <<newPos[1], position>>
    /\ wpc' = IF newPos' # SyncPos /\ CheckBinlogFilePos(newPos') THEN "open" ELSE "loop"
    /\ UNCHANGED <<dumpVars, disk, crashes, faults>>

\* os.OpenFile with O_CREATE|O_TRUNC: the file is now empty.
OpenTruncate ==
    /\ wpc = "open"
    /\ disk' = Empty
    /\ wpc' = "write"
    /\ UNCHANGED <<dumpVars, newPos, crashes, faults>>

\* io.WriteString of "file:pos".
WriteString ==
    /\ wpc = "write"
    /\ disk' = newPos
    /\ wpc' = "loop"
    /\ UNCHANGED <<dumpVars, newPos, crashes, faults>>

\* io.WriteString failing: the error is returned, and the file stays empty.
WriteStringFails ==
    /\ wpc = "write"
    /\ faults < MaxFaults
    /\ faults' = faults + 1
    /\ wpc' = "loop"
    /\ UNCHANGED <<dumpVars, newPos, disk, crashes>>

-----------------------------------------------------------------------------
(* The process crashing and starting again from the checkpoint file.       *)

Crash ==
    /\ crashes < MaxCrashes
    /\ crashes' = crashes + 1
    /\ IF disk = Empty
         THEN /\ next' = N + 1
              /\ fileName' = NoFile /\ position' = 0
         ELSE /\ next' = ResumeIndex(disk)
              /\ fileName' = disk[1] /\ position' = disk[2]
    /\ cb' = "idle" /\ wpc' = "loop"
    /\ UNCHANGED <<delivered, newPos, disk, faults>>

Init ==
    /\ next = ResumeIndex(Start)
    /\ delivered = {}
    /\ fileName = Start[1] /\ position = Start[2]
    /\ cb = "idle"
    /\ wpc = "loop" /\ newPos = Start
    /\ disk = Start
    /\ crashes = 0 /\ faults = 0

Next ==
    \/ Deliver \/ StorePosition
    \/ InstantSync \/ InstantSyncPosition \/ OpenTruncate \/ WriteString \/ WriteStringFails
    \/ Crash

Spec == Init /\ [][Next]_vars
            /\ WF_vars(Deliver \/ StorePosition)
            /\ WF_vars(InstantSync \/ InstantSyncPosition \/ OpenTruncate \/ WriteString)

-----------------------------------------------------------------------------
TypeOK ==
    /\ next \in 1..(N + 1) /\ delivered \subseteq 1..N
    /\ fileName \in FileNames /\ position \in Offsets
    /\ cb \in {"idle", "pos"} /\ wpc \in {"loop", "pos", "open", "write"}
    /\ disk \in {Empty} \cup (FileNames \X Offsets)
    /\ crashes \in 0..MaxCrashes /\ faults \in 0..MaxFaults

\* spec.md 1 and 8: a restart resumes where the process stopped. A crash
\* never makes the dump resume past an owed event the sink has not yet
\* received, whatever the checkpoint writer was doing at the time.
NoSkip == [][Crash => next' <= FirstUndelivered]_vars

\* spec.md 4.7: the checkpoint file keeps up with the dump. Whenever
\* dumpConfig holds a valid position, the file comes to hold that same
\* position again and again (once for good only if nothing truncates it).
Persisted == CheckBinlogFilePos(<<fileName, position>>) => disk = <<fileName, position>>
KeepsUp == []<>Persisted
=============================================================================
