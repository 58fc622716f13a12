------------------------------- MODULE Capsule -------------------------------
(***************************************************************************)
(* Incident capsules (capsule.rs): `capsule pack` copies a canonical       *)
(* host-path log into a new directory with a manifest, and `capsule        *)
(* verify` checks such a directory.  The log may be one a live session     *)
(* still appends to, several processes may pack to the same place, and any *)
(* step may fail or be the last of its process.                            *)
(*                                                                         *)
(* A log is known by its number of records and whether its bytes are those *)
(* records in canonical form; a digest tells two logs apart.               *)
(***************************************************************************)
EXTENDS Absent, Naturals, FiniteSets

CONSTANTS
  FILE,            \* what is not a directory, at the output path
  Packers,         \* processes that run `capsule pack`
  MaxLogRecords,   \* CAPSULE_SOURCE_MAX_BYTES, in records
  MaxAppends       \* bound: records appended to the log

ASSUME CapsuleAssumption ==
  IsFiniteSet(Packers) /\ MaxLogRecords \in Nat /\ MaxAppends \in Nat

Bytes == [records : Nat, canonical : BOOLEAN]

VARIABLES
  log,      \* the input: Bytes
  place,    \* what is at the output path
  packers,  \* per packer: its phase and the bytes it read
  temp,     \* per packer: its temporary directory, NONE if there is none
  reader    \* a `capsule verify` of the output path
capsuleVars == <<log, place, packers, temp, reader>>

\* A directory and what is in it; FILE is anything that is not a directory.
Directory(source, manifest) == [source |-> source, manifest |-> manifest]
EmptyDirectory == Directory(NONE, NONE)

ASSUME NoneIsNoCapsule == NONE \notin Bytes /\ NONE \notin [source : Bytes, manifest : Bytes]

CapsuleInit ==
  /\ log = [records |-> 0, canonical |-> TRUE]
  /\ place = NONE
  /\ packers = [p \in Packers |-> [phase |-> "off", bytes |-> NONE]]
  /\ temp = [p \in Packers |-> NONE]
  /\ reader = [phase |-> "off", manifest |-> NONE]

\* A live session appends a record: its bytes arrive in two parts, and if it
\* dies between them the log stays torn.
AppendRecord ==
  /\ log' = IF log.canonical THEN [log EXCEPT !.canonical = FALSE]
            ELSE [records |-> log.records + 1, canonical |-> TRUE]
  /\ log'.records <= MaxAppends
  /\ UNCHANGED <<place, packers, temp, reader>>

\* Somebody else makes a file or a directory at the output path.
ClaimPlace ==
  /\ place = NONE
  /\ place' \in {FILE, EmptyDirectory}
  /\ UNCHANGED <<log, packers, temp, reader>>

-----------------------------------------------------------------------------
(***************************************************************************)
(* capsule pack.                                                           *)
(***************************************************************************)
Moved(p, phase) == packers' = [packers EXCEPT ![p].phase = phase]

StartPack(p) ==
  /\ packers[p].phase = "off"
  /\ Moved(p, IF place = NONE THEN "measuring" ELSE "failed")
  /\ UNCHANGED <<log, place, temp, reader>>

Readable(bytes) == bytes.records <= MaxLogRecords

\* read_bounded: the length of the file, then up to one byte past the limit.
MeasureLog(p) ==
  /\ packers[p].phase = "measuring"
  /\ Moved(p, IF Readable(log) THEN "reading" ELSE "failed")
  /\ UNCHANGED <<log, place, temp, reader>>

\* Fault: a torn last record is left to whoever reads the capsule.
Canonical_Parsed(bytes) == Readable(bytes)

\* canonical_records: the bytes are the canonical form of their records.
Canonical(bytes) == Readable(bytes) /\ bytes.canonical

ReadLog(p) ==
  /\ packers[p].phase = "reading"
  /\ packers' = [packers EXCEPT
                   ![p] = IF Canonical(log) THEN [phase |-> "making", bytes |-> log]
                          ELSE [phase |-> "failed", bytes |-> NONE]]
  /\ UNCHANGED <<log, place, temp, reader>>

\* The name of the temporary directory is the process's own.
MakeTemp(p) ==
  /\ packers[p].phase = "making"
  /\ Moved(p, "source") /\ temp' = [temp EXCEPT ![p] = EmptyDirectory]
  /\ UNCHANGED <<log, place, reader>>

WriteSource(p) ==
  /\ packers[p].phase = "source"
  /\ Moved(p, "manifest") /\ temp' = [temp EXCEPT ![p].source = packers[p].bytes]
  /\ UNCHANGED <<log, place, reader>>

\* manifest_for describes the bytes that were read, not the log as it is now.
WriteManifest(p) ==
  /\ packers[p].phase = "manifest"
  /\ Moved(p, "verifying") /\ temp' = [temp EXCEPT ![p].manifest = packers[p].bytes]
  /\ UNCHANGED <<log, place, reader>>

\* verify, of a directory whose manifest has been read.
Verifies(directory, manifest) ==
  /\ directory.source # NONE /\ manifest # NONE
  /\ Canonical(directory.source) /\ manifest = directory.source

VerifyTemp(p) ==
  /\ packers[p].phase = "verifying"
  /\ Verifies(temp[p], temp[p].manifest)
  /\ Moved(p, "publishing")
  /\ UNCHANGED <<log, place, temp, reader>>

\* Fault: the output is replaced, whatever it is.
Renameable_Any == TRUE

\* rename: a directory replaces nothing but an empty directory.
Renameable == place \in {NONE, EmptyDirectory}

Publish(p) ==
  /\ packers[p].phase = "publishing" /\ Renameable
  /\ place' = temp[p]
  /\ Moved(p, "packed") /\ temp' = [temp EXCEPT ![p] = NONE]
  /\ UNCHANGED <<log, reader>>

Packing == {"measuring", "reading", "making", "source", "manifest", "verifying",
            "publishing"}

\* A call fails, or rename does since the output is taken: the temporary
\* directory is removed.
PackFails(p) ==
  /\ packers[p].phase \in Packing
  /\ Moved(p, "failed") /\ temp' = [temp EXCEPT ![p] = NONE]
  /\ UNCHANGED <<log, place, reader>>

\* The process is killed: what it made stays.
PackKilled(p) ==
  /\ packers[p].phase \in Packing
  /\ Moved(p, "killed")
  /\ UNCHANGED <<log, place, temp, reader>>

-----------------------------------------------------------------------------
\* capsule verify: the manifest is read, then the source.
ReadManifest ==
  /\ reader.phase = "off" /\ place # NONE
  /\ reader' = IF place = FILE \/ place = EmptyDirectory
               THEN [phase |-> "refused", manifest |-> NONE]
               ELSE [phase |-> "reading", manifest |-> place.manifest]
  /\ UNCHANGED <<log, place, packers, temp>>

ReadSource ==
  /\ reader.phase = "reading"
  /\ reader' = [reader EXCEPT
                  !.phase = IF Verifies(place, reader.manifest)
                            THEN "verified" ELSE "refused"]
  /\ UNCHANGED <<log, place, packers, temp>>

CapsuleNext ==
  \/ AppendRecord \/ ClaimPlace \/ ReadManifest \/ ReadSource
  \/ \E p \in Packers :
       \/ StartPack(p) \/ MeasureLog(p) \/ ReadLog(p) \/ MakeTemp(p)
       \/ WriteSource(p) \/ WriteManifest(p) \/ VerifyTemp(p) \/ Publish(p)
       \/ PackFails(p) \/ PackKilled(p)

CapsuleSpec == CapsuleInit /\ [][CapsuleNext]_capsuleVars

-----------------------------------------------------------------------------
\* "Publishes atomically into a new directory": whatever is at the output is
\* somebody else's or a whole capsule of records the log has; it is the capsule
\* of every packer that reported success, so one at most, for good; a reader
\* that found a capsule there verifies it; and only a packer that was killed
\* leaves a temporary directory behind.
CapsuleWhole ==
  /\ place \notin {NONE, FILE, EmptyDirectory} =>
       /\ place.source = place.manifest
       /\ place.source.canonical
       /\ place.source.records <= log.records /\ place.source.records <= MaxLogRecords
  /\ \A p \in Packers : packers[p].phase = "packed" =>
       /\ place = Directory(packers[p].bytes, packers[p].bytes)
       /\ \A q \in Packers \ {p} : packers[q].phase # "packed"
  /\ reader.manifest # NONE => reader.phase # "refused"
  /\ \A p \in Packers : packers[p].phase \in {"failed", "packed"} => temp[p] = NONE
=============================================================================
