--------------------------- MODULE ArtifactProofs ---------------------------
(***************************************************************************)
(* What is published is whole, whatever fails, dies or writes meanwhile:   *)
(* a capsule by rename of a directory (Capsule), the frames of a screen    *)
(* capture by a manifest that comes last (Capture).                        *)
(***************************************************************************)
EXTENDS Capsule, Capture, FiniteSetTheorems, WellFoundedInduction, TLAPS

PackPhases == Packing \cup {"off", "packed", "failed", "killed"}

\* Records of the log, in canonical form, no more than a capsule may hold.
Whole(bytes) ==
  /\ bytes \in Bytes /\ bytes.canonical
  /\ bytes.records <= log.records /\ bytes.records <= MaxLogRecords

\* From the moment a packer has read the log until it ends.
Holding == {"making", "source", "manifest", "verifying", "publishing", "packed"}

CapsuleTypes ==
  /\ log \in Bytes
  /\ packers \in [Packers -> [phase : PackPhases, bytes : Bytes \cup {NONE}]]
  /\ temp \in [Packers -> [source : Bytes \cup {NONE}, manifest : Bytes \cup {NONE}] \cup {NONE}]

\* The temporary directory of a packer that was not killed is what its phase
\* says, made of the bytes it read.
PackerInvariant(p) ==
  LET phase == packers[p].phase
      bytes == packers[p].bytes
  IN /\ phase \in Holding => Whole(bytes)
     /\ phase \in {"off", "measuring", "reading", "making", "failed", "packed"} => temp[p] = NONE
     /\ phase = "source" => temp[p] = EmptyDirectory
     /\ phase = "manifest" => temp[p] = Directory(bytes, NONE)
     /\ phase \in {"verifying", "publishing"} => temp[p] = Directory(bytes, bytes)
     /\ phase = "packed" => place = Directory(bytes, bytes)

PlaceInvariant ==
  \/ place \in {NONE, FILE, EmptyDirectory}
  \/ \E bytes \in Bytes : Whole(bytes) /\ place = Directory(bytes, bytes)

OnePacked ==
  \A p, q \in Packers :
    packers[p].phase = "packed" /\ packers[q].phase = "packed" => p = q

\* A capsule that a reader has begun with stays until it has ended.
ReaderInvariant ==
  /\ reader \in [phase : {"off", "reading", "refused", "verified"}, manifest : Bytes \cup {NONE}]
  /\ reader.phase = "reading" => reader.manifest # NONE
  /\ reader.manifest # NONE =>
       /\ reader.phase \in {"reading", "verified"}
       /\ Whole(reader.manifest)
       /\ place = Directory(reader.manifest, reader.manifest)

CapsuleInvariant ==
  /\ CapsuleTypes /\ PlaceInvariant /\ OnePacked /\ ReaderInvariant
  /\ \A p \in Packers : PackerInvariant(p)

-----------------------------------------------------------------------------
LEMMA CapsuleInitially == CapsuleInit => CapsuleInvariant
<1> SUFFICES ASSUME CapsuleInit PROVE CapsuleInvariant
  OBVIOUS
<1> USE DEF CapsuleInit
<1>1. CapsuleTypes
  BY DEF CapsuleTypes, PackPhases, Packing, Bytes
<1>2. \A p \in Packers : PackerInvariant(p)
  BY DEF PackerInvariant, Holding
<1> QED
  BY <1>1, <1>2 DEF CapsuleInvariant, PlaceInvariant, OnePacked, ReaderInvariant

\* A capsule is neither nothing nor an empty directory.
LEMMA CapsuleIsThere ==
  ASSUME NEW bytes \in Bytes
  PROVE  /\ Directory(bytes, bytes) # NONE
         /\ Directory(bytes, bytes) # EmptyDirectory
         /\ Directory(bytes, NONE) # EmptyDirectory
<1>1. Directory(bytes, bytes) \in [source : Bytes, manifest : Bytes]
  BY DEF Directory
<1> QED
  BY <1>1, NoneIsNoCapsule DEF Directory, EmptyDirectory

\* A packer that goes on or ends short of publishing disturbs nobody.
LEMMA PackerMoves ==
  ASSUME CapsuleInvariant, UNCHANGED <<log, place, reader>>,
         NEW p \in Packers,
         NEW x \in [phase : PackPhases \ {"packed"}, bytes : Bytes \cup {NONE}],
         NEW t \in [source : Bytes \cup {NONE}, manifest : Bytes \cup {NONE}] \cup {NONE},
         packers' = [packers EXCEPT ![p] = x],
         temp' = [temp EXCEPT ![p] = t],
         PackerInvariant(p)'
  PROVE  CapsuleInvariant'
<1> USE DEF CapsuleInvariant
<1>1. CapsuleTypes'
  BY DEF CapsuleTypes, PackPhases
<1>2. \A q \in Packers : q # p => packers'[q] = packers[q] /\ temp'[q] = temp[q]
  BY DEF CapsuleTypes
<1>3. packers'[p].phase # "packed"
  BY DEF CapsuleTypes
<1>4. \A q \in Packers : PackerInvariant(q)'
  BY <1>2 DEF PackerInvariant, Whole
<1>5. OnePacked'
  BY <1>2, <1>3 DEF OnePacked
<1>6. PlaceInvariant' /\ ReaderInvariant'
  BY DEF PlaceInvariant, ReaderInvariant, Whole
<1> QED
  BY <1>1, <1>4, <1>5, <1>6

\* What a packer does before it publishes.
LEMMA PackerStep ==
  ASSUME CapsuleInvariant, NEW p \in Packers,
         \/ StartPack(p) \/ MeasureLog(p) \/ ReadLog(p) \/ MakeTemp(p)
         \/ WriteSource(p) \/ WriteManifest(p) \/ VerifyTemp(p)
         \/ PackFails(p) \/ PackKilled(p)
  PROVE  CapsuleInvariant'
<1> DEFINE phase == packers[p].phase
           bytes == packers[p].bytes
<1>0. /\ packers[p] \in [phase : PackPhases, bytes : Bytes \cup {NONE}]
      /\ packers[p] = [phase |-> phase, bytes |-> bytes]
      /\ bytes \in Bytes \cup {NONE}
      /\ temp[p] \in [source : Bytes \cup {NONE}, manifest : Bytes \cup {NONE}] \cup {NONE}
      /\ temp = [temp EXCEPT ![p] = temp[p]]
      /\ DOMAIN packers = Packers /\ DOMAIN temp = Packers
      /\ log \in Bytes
      /\ PackerInvariant(p)
  BY DEF CapsuleInvariant, CapsuleTypes
<1>1. ASSUME NEW next \in PackPhases \ {"packed"}, Moved(p, next)
      PROVE  /\ packers' = [packers EXCEPT ![p] = [phase |-> next, bytes |-> bytes]]
             /\ [phase |-> next, bytes |-> bytes]
                   \in [phase : PackPhases \ {"packed"}, bytes : Bytes \cup {NONE}]
             /\ packers'[p].phase = next /\ packers'[p].bytes = bytes
  <2>1. [packers[p] EXCEPT !.phase = next] = [phase |-> next, bytes |-> bytes]
    BY <1>0
  <2>2. packers' = [packers EXCEPT ![p] = [packers[p] EXCEPT !.phase = next]]
    BY <1>0, <1>1 DEF Moved
  <2>3. [phase |-> next, bytes |-> bytes]
          \in [phase : PackPhases \ {"packed"}, bytes : Bytes \cup {NONE}]
    BY <1>0
  <2> QED
    BY <1>0, <2>1, <2>2, <2>3
<1>2. CASE StartPack(p) \/ MeasureLog(p)
  <2>1. PICK next \in {"measuring", "reading", "failed"} :
          /\ Moved(p, next) /\ temp[p] = NONE /\ UNCHANGED <<log, place, temp, reader>>
    BY <1>0, <1>2 DEF StartPack, MeasureLog, PackerInvariant
  <2>2. next \in PackPhases \ {"packed"}
    BY DEF PackPhases, Packing
  <2>3. PackerInvariant(p)'
    BY <1>1, <2>1, <2>2 DEF PackerInvariant, Holding
  <2> QED
    BY <1>0, <1>1, <2>1, <2>2, <2>3, PackerMoves
<1>3. CASE ReadLog(p)
  <2> DEFINE x == IF Canonical(log) THEN [phase |-> "making", bytes |-> log]
                  ELSE [phase |-> "failed", bytes |-> NONE]
  <2>1. /\ packers' = [packers EXCEPT ![p] = x] /\ packers'[p] = x
        /\ temp[p] = NONE /\ UNCHANGED <<log, place, temp, reader>>
    BY <1>0, <1>3 DEF ReadLog, PackerInvariant
  <2>2. x \in [phase : PackPhases \ {"packed"}, bytes : Bytes \cup {NONE}]
    BY <1>0 DEF PackPhases, Packing
  <2>3. PackerInvariant(p)'
    BY <1>0, <2>1, CapsuleAssumption
    DEF PackerInvariant, Holding, Whole, Canonical, Readable, Bytes, CapsuleAssumption
  <2> HIDE DEF x
  <2> QED
    BY <1>0, <2>1, <2>2, <2>3, PackerMoves
<1>4. CASE MakeTemp(p) \/ WriteSource(p) \/ WriteManifest(p)
  <2>1. Whole(bytes) /\ bytes \in Bytes
    BY <1>0, <1>4 DEF MakeTemp, WriteSource, WriteManifest, PackerInvariant, Holding, Whole
  <2>2. PICK next \in {"source", "manifest", "verifying"} :
          /\ Moved(p, next) /\ UNCHANGED <<log, place, reader>>
          /\ temp' = [temp EXCEPT
                ![p] = IF next = "source" THEN EmptyDirectory
                       ELSE IF next = "manifest" THEN Directory(bytes, NONE)
                       ELSE Directory(bytes, bytes)]
    BY <1>0, <1>4
    DEF MakeTemp, WriteSource, WriteManifest, PackerInvariant, EmptyDirectory, Directory
  <2>3. next \in PackPhases \ {"packed"}
    BY DEF PackPhases, Packing
  <2>4. temp'[p] \in [source : Bytes \cup {NONE}, manifest : Bytes \cup {NONE}] \cup {NONE}
    BY <1>0, <2>1, <2>2 DEF EmptyDirectory, Directory
  <2>5. PackerInvariant(p)'
    BY <1>0, <1>1, <2>1, <2>2, <2>3 DEF PackerInvariant, Holding, Whole
  <2>6. temp' = [temp EXCEPT ![p] = temp'[p]]
    BY <1>0, <2>2
  <2> QED
    BY <1>0, <1>1, <2>2, <2>3, <2>4, <2>5, <2>6, PackerMoves
<1>5. CASE VerifyTemp(p)
  <2>1. Moved(p, "publishing") /\ UNCHANGED <<log, place, temp, reader>>
    BY <1>5 DEF VerifyTemp
  <2>2. "publishing" \in PackPhases \ {"packed"}
    BY DEF PackPhases, Packing
  <2>3. PackerInvariant(p)'
    BY <1>0, <1>1, <1>5, <2>1, <2>2 DEF PackerInvariant, Holding, Whole, VerifyTemp
  <2> QED
    BY <1>0, <1>1, <2>1, <2>2, <2>3, PackerMoves
<1>6. CASE PackFails(p) \/ PackKilled(p)
  <2>1. PICK next \in {"failed", "killed"} :
          /\ Moved(p, next) /\ UNCHANGED <<log, place, reader>>
          /\ temp' = [temp EXCEPT ![p] = IF next = "failed" THEN NONE ELSE temp[p]]
    BY <1>0, <1>6 DEF PackFails, PackKilled
  <2>2. next \in PackPhases \ {"packed"}
    BY DEF PackPhases
  <2>3. temp'[p] = IF next = "failed" THEN NONE ELSE temp[p]
    BY <1>0, <2>1
  <2>4. PackerInvariant(p)'
    BY <1>0, <1>1, <2>1, <2>2, <2>3 DEF PackerInvariant, Holding
  <2> QED
    BY <1>0, <1>1, <2>1, <2>2, <2>3, <2>4, PackerMoves
<1> QED
  BY <1>2, <1>3, <1>4, <1>5, <1>6

\* The rename finds nothing or an empty directory: no capsule is displaced.
LEMMA PublishStep ==
  ASSUME CapsuleInvariant, NEW p \in Packers, Publish(p)
  PROVE  CapsuleInvariant'
<1> DEFINE bytes == packers[p].bytes
<1>1. /\ packers[p] = [phase |-> "publishing", bytes |-> bytes]
      /\ Whole(bytes) /\ bytes \in Bytes /\ temp[p] = Directory(bytes, bytes)
  BY DEF CapsuleInvariant, CapsuleTypes, PackerInvariant, Holding, Publish, Whole
<1>2. \A any \in Bytes : place # Directory(any, any)
  BY CapsuleIsThere DEF Publish, Renameable
<1>3. /\ \A q \in Packers : packers[q].phase # "packed"
      /\ reader.manifest = NONE
  BY <1>2 DEF CapsuleInvariant, CapsuleTypes, PackerInvariant, ReaderInvariant, Holding, Whole
<1>4. [packers[p] EXCEPT !.phase = "packed"] = [phase |-> "packed", bytes |-> bytes]
  BY <1>1
<1>5. /\ packers' = [packers EXCEPT ![p] = [phase |-> "packed", bytes |-> bytes]]
      /\ temp' = [temp EXCEPT ![p] = NONE]
      /\ place' = Directory(bytes, bytes) /\ UNCHANGED <<log, reader>>
  BY <1>1, <1>4 DEF Publish, Moved
<1>6. /\ packers'[p].phase = "packed" /\ packers'[p].bytes = bytes /\ temp'[p] = NONE
      /\ \A q \in Packers \ {p} : packers'[q] = packers[q] /\ temp'[q] = temp[q]
  BY <1>5 DEF CapsuleInvariant, CapsuleTypes
<1>7. CapsuleTypes'
  BY <1>1, <1>5 DEF CapsuleInvariant, CapsuleTypes, PackPhases
<1>8. PlaceInvariant' /\ ReaderInvariant'
  BY <1>1, <1>3, <1>5 DEF CapsuleInvariant, PlaceInvariant, ReaderInvariant, Whole
<1>9. OnePacked'
  BY <1>3, <1>6 DEF OnePacked
<1>10. PackerInvariant(p)'
  BY <1>1, <1>5, <1>6 DEF PackerInvariant, Holding, Whole
<1>11. ASSUME NEW q \in Packers \ {p} PROVE PackerInvariant(q)'
  BY <1>3, <1>5, <1>6 DEF CapsuleInvariant, PackerInvariant, Whole
<1> QED
  BY <1>7, <1>8, <1>9, <1>10, <1>11 DEF CapsuleInvariant

\* The log only grows: what was whole stays so.
LEMMA AppendStep ==
  ASSUME CapsuleInvariant, AppendRecord
  PROVE  CapsuleInvariant'
<1>1. /\ log' \in Bytes /\ log.records <= log'.records
      /\ log.records \in Nat /\ log'.records \in Nat
  <2>1. log \in Bytes /\ log = [records |-> log.records, canonical |-> log.canonical]
    BY DEF CapsuleInvariant, CapsuleTypes, Bytes
  <2>2. \/ log' = [records |-> log.records, canonical |-> FALSE]
        \/ log' = [records |-> log.records + 1, canonical |-> TRUE]
    BY <2>1 DEF AppendRecord
  <2>3. log.records \in Nat
    BY <2>1 DEF Bytes
  <2>4. CASE log' = [records |-> log.records, canonical |-> FALSE]
    BY <2>3, <2>4 DEF Bytes
  <2>5. CASE log' = [records |-> log.records + 1, canonical |-> TRUE]
    BY <2>3, <2>5 DEF Bytes
  <2> QED
    BY <2>1, <2>2, <2>4, <2>5
<1>2. \A bytes : Whole(bytes) => Whole(bytes)'
  BY <1>1 DEF Whole, Bytes
<1>3. UNCHANGED <<place, packers, temp, reader>>
  BY DEF AppendRecord
<1>4. CapsuleTypes' /\ OnePacked'
  BY <1>1, <1>3 DEF CapsuleInvariant, CapsuleTypes, OnePacked
<1>5. PlaceInvariant' /\ ReaderInvariant'
  BY <1>2, <1>3 DEF CapsuleInvariant, PlaceInvariant, ReaderInvariant
<1>6. \A p \in Packers : PackerInvariant(p)'
  BY <1>2, <1>3 DEF CapsuleInvariant, PackerInvariant
<1> QED
  BY <1>4, <1>5, <1>6 DEF CapsuleInvariant

\* Others take the output path only while nothing is there.
LEMMA ClaimStep ==
  ASSUME CapsuleInvariant, ClaimPlace
  PROVE  CapsuleInvariant'
<1>1. \A any \in Bytes : place # Directory(any, any)
  BY CapsuleIsThere DEF ClaimPlace
<1>2. /\ \A p \in Packers : packers[p].phase # "packed"
      /\ reader.manifest = NONE
  BY <1>1 DEF CapsuleInvariant, CapsuleTypes, PackerInvariant, ReaderInvariant, Holding, Whole
<1>3. UNCHANGED <<log, packers, temp, reader>> /\ place' \in {FILE, EmptyDirectory}
  BY DEF ClaimPlace
<1>4. CapsuleTypes' /\ OnePacked' /\ PlaceInvariant'
  BY <1>3 DEF CapsuleInvariant, CapsuleTypes, OnePacked, PlaceInvariant
<1>5. ReaderInvariant'
  BY <1>2, <1>3 DEF CapsuleInvariant, ReaderInvariant
<1>6. \A p \in Packers : PackerInvariant(p)'
  BY <1>2, <1>3 DEF CapsuleInvariant, PackerInvariant, Whole
<1> QED
  BY <1>4, <1>5, <1>6 DEF CapsuleInvariant

\* A reader that has a manifest has it of a capsule that stays.
LEMMA ReaderStep ==
  ASSUME CapsuleInvariant, ReadManifest \/ ReadSource
  PROVE  CapsuleInvariant'
<1>1. UNCHANGED <<log, place, packers, temp>>
  BY DEF ReadManifest, ReadSource
<1>2. CapsuleTypes' /\ OnePacked' /\ PlaceInvariant' /\ \A p \in Packers : PackerInvariant(p)'
  BY <1>1 DEF CapsuleInvariant, CapsuleTypes, OnePacked, PlaceInvariant, PackerInvariant, Whole
<1>3. CASE ReadManifest
  <2>1. CASE place = FILE \/ place = EmptyDirectory
    <3>1. reader' = [phase |-> "refused", manifest |-> NONE]
      BY <1>3, <2>1 DEF ReadManifest
    <3>2. ReaderInvariant'
      BY <3>1 DEF ReaderInvariant
    <3> QED
      BY <1>2, <3>2 DEF CapsuleInvariant
  <2>2. CASE ~(place = FILE \/ place = EmptyDirectory)
    <3>1. PICK bytes \in Bytes : Whole(bytes) /\ place = Directory(bytes, bytes)
      BY <1>3, <2>2 DEF CapsuleInvariant, PlaceInvariant, ReadManifest
    <3>2. reader' = [phase |-> "reading", manifest |-> bytes]
      BY <1>3, <2>2, <3>1 DEF ReadManifest, Directory
    <3>3. bytes # NONE
      BY NoneIsNoCapsule
    <3>4. ReaderInvariant'
      BY <1>1, <3>1, <3>2, <3>3 DEF ReaderInvariant, Whole
    <3> QED
      BY <1>2, <3>4 DEF CapsuleInvariant
  <2> QED
    BY <2>1, <2>2
<1>4. CASE ReadSource
  <2> DEFINE bytes == reader.manifest
  <2>1. /\ reader = [phase |-> "reading", manifest |-> bytes]
        /\ bytes # NONE /\ Whole(bytes) /\ place = Directory(bytes, bytes)
    BY <1>4 DEF CapsuleInvariant, ReaderInvariant, ReadSource
  <2>2. Verifies(place, bytes)
    BY <2>1 DEF Verifies, Canonical, Readable, Whole, Directory
  <2>3. reader' = [phase |-> "verified", manifest |-> bytes]
    BY <1>4, <2>1, <2>2 DEF ReadSource
  <2>4. ReaderInvariant'
    BY <1>1, <2>1, <2>3 DEF ReaderInvariant, Whole
  <2> QED
    BY <1>2, <2>4 DEF CapsuleInvariant
<1> QED
  BY <1>3, <1>4

LEMMA CapsuleStep ==
  ASSUME CapsuleInvariant, [CapsuleNext]_capsuleVars
  PROVE  CapsuleInvariant'
<1>1. CASE UNCHANGED capsuleVars
  BY <1>1 DEF CapsuleInvariant, CapsuleTypes, OnePacked, PlaceInvariant, PackerInvariant,
              ReaderInvariant, Whole, capsuleVars
<1>2. CASE CapsuleNext
  <2>1. CASE AppendRecord \/ ClaimPlace \/ ReadManifest \/ ReadSource
    BY <2>1, AppendStep, ClaimStep, ReaderStep
  <2>2. ASSUME NEW p \in Packers,
               \/ StartPack(p) \/ MeasureLog(p) \/ ReadLog(p) \/ MakeTemp(p)
               \/ WriteSource(p) \/ WriteManifest(p) \/ VerifyTemp(p) \/ Publish(p)
               \/ PackFails(p) \/ PackKilled(p)
        PROVE  CapsuleInvariant'
    BY <2>2, PackerStep, PublishStep
  <2> QED
    BY <1>2, <2>1, <2>2 DEF CapsuleNext
<1> QED
  BY <1>1, <1>2

LEMMA CapsuleInvariantSuffices == CapsuleInvariant => CapsuleWhole
<1> SUFFICES ASSUME CapsuleInvariant PROVE CapsuleWhole
  OBVIOUS
<1>1. place \notin {NONE, FILE, EmptyDirectory} =>
        /\ place.source = place.manifest
        /\ place.source.canonical
        /\ place.source.records <= log.records /\ place.source.records <= MaxLogRecords
  BY DEF CapsuleInvariant, PlaceInvariant, Whole, Directory
<1>2. \A p \in Packers : packers[p].phase = "packed" =>
        /\ place = Directory(packers[p].bytes, packers[p].bytes)
        /\ \A q \in Packers \ {p} : packers[q].phase # "packed"
  BY DEF CapsuleInvariant, PackerInvariant, OnePacked
<1>3. reader.manifest # NONE => reader.phase # "refused"
  BY DEF CapsuleInvariant, ReaderInvariant
<1>4. \A p \in Packers : packers[p].phase \in {"failed", "packed"} => temp[p] = NONE
  BY DEF CapsuleInvariant, PackerInvariant
<1> QED
  BY <1>1, <1>2, <1>3, <1>4 DEF CapsuleWhole

\* However many packers run beside a live log, fail or are killed at any call,
\* and whatever else takes the output path: what they publish is one whole
\* capsule, for good, that a reader verifies, and a packer that ends leaves no
\* temporary directory.
THEOREM CapsulesAreWhole == CapsuleSpec => []CapsuleWhole
<1>1. CapsuleInvariant /\ [CapsuleNext]_capsuleVars => CapsuleInvariant'
  BY CapsuleStep
<1> QED
  BY CapsuleInitially, <1>1, CapsuleInvariantSuffices, PTL DEF CapsuleSpec

(***************************************************************************)
(* The screenshot transaction.                                             *)
(***************************************************************************)
Ahead == {"starting", "ready", "waiting"}
Framing == {"staging", "shooting", "writing", "reading"}
Reached == Framing \cup {"settling"}
Closing == {"manifest", "verifying", "publishing", "done"}
CapturePhases == Ahead \cup Reached \cup Closing \cup {"off", "failed", "killed"}

FileStates == {"absent", "part", "ours", "theirs"}
PartNames == {"text", "svg", "ansi", "html"}
Shown == [stage : Nat, view : {0, 1}]
Requests == [native : BOOLEAN, timed : BOOLEAN, frames : SUBSET Nat, keys : SUBSET Nat]
Frames == [at : Nat, shown : Shown, view : {0, 1},
           digests : UNION {[parts -> FileStates] : parts \in SUBSET PartNames}]

Jobs == [request : Requests, phase : CapturePhases, target : Nat, start : Nat,
         view : {0, 1}, shown : Shown \cup {NONE}, part : Nat]
Terminals == [running : BOOLEAN, since : Nat \cup {NONE}, keys : Nat, view : {0, 1}]

CaptureTypes ==
  /\ job \in Jobs
  /\ job.phase # "off" => job.request \in CaptureRequests
  /\ records \in Seq(Frames)
  /\ files \in [Names -> FileStates]
  /\ strangers \in [made : SUBSET Names, late : BOOLEAN, writes : Nat]
  /\ terminal \in Terminals
  /\ elapsed \in Nat /\ signal \in BOOLEAN

Taken(s) == {s[i].at : i \in DOMAIN s}
Before(S, time) == {t \in S : t < time}
UpTo(S, time) == {t \in S : t <= time}

\* Where the plan is: what was taken, and which view the keys have asked for.
Planned(r, phase, target, view, taken) ==
  /\ phase \in Ahead \cup Reached =>
       target \in Targets(r) /\ taken = Before(r.frames, target)
  /\ phase \in Ahead => view = Cardinality(Before(r.keys, target)) % 2
  /\ phase \in Reached => view = ViewAt(r, target)
  /\ phase \in Framing => target \in r.frames
  /\ phase \in Closing => taken = r.frames
  /\ phase \in {"starting", "ready"} => r.native

\* A frame shows what the plan says of its time.
Truthful(r, shown, time) ==
  /\ shown.view = ViewAt(r, time)
  /\ shown.stage >= StageAt(r, time)
  /\ ~r.native => shown.stage = StageAt(r, time)

Recorded(r, s) ==
  /\ \A i, j \in DOMAIN s : i < j => s[i].at < s[j].at
  /\ \A i \in DOMAIN s : Truthful(r, s[i].shown, s[i].at)
  /\ Len(s) = Cardinality(Taken(s))

StagesReached ==
  /\ terminal.since \in Nat => terminal.since <= elapsed
  /\ job.phase = "shooting" /\ job.request.native => ChildStage >= StageAt(job.request, job.target)
  /\ job.phase \in {"writing", "reading"} =>
       job.shown \in Shown /\ Truthful(job.request, job.shown, job.target)

FilesKept ==
  /\ \A x \in strangers.made : files[x] = "theirs"
  /\ files[Temporary] \in {"absent", "ours"}
  /\ files[Manifest] = "ours" => job.phase = "done"
  /\ job.phase \in {"done", "failed"} =>
       ~terminal.running /\ files[Gate] # "ours" /\ files[Temporary] = "absent"
  /\ job.phase \in {"publishing", "done"} /\ ~strangers.late =>
       \A i \in DOMAIN records : \A p \in DOMAIN records[i].digests :
         files[<<i, p>>] = records[i].digests[p]

\* Nobody else made the gate that is open, and a gate of this transaction is
\* open, or left by a kill.
GateKept ==
  /\ Opened => Gate \notin strangers.made
  /\ files[Gate] = "ours" => Opened \/ job.phase = "killed"
  /\ Opened => files[Gate] # "absent"

CaptureInvariant ==
  /\ CaptureTypes
  /\ Planned(job.request, job.phase, job.target, job.view, Taken(records))
  /\ Recorded(job.request, records)
  /\ job.phase = "off" => records = <<>> /\ job.view = 0
  /\ StagesReached
  /\ FilesKept
  /\ GateKept

-----------------------------------------------------------------------------
LEMMA LeastTime ==
  ASSUME NEW S \in SUBSET Nat, S # {}
  PROVE  Min(S) \in S /\ \A t \in S : Min(S) <= t
<1> DEFINE R == OpToRel(<, Nat)
<1>1. PICK n \in S : \A m \in S : ~ (<<m, n>> \in R)
  <2>1. IsWellFoundedOn(R, Nat)
    BY NatLessThanWellFounded
  <2> HIDE DEF R
  <2> QED
    BY <2>1, WFMin
<1>2. \A m \in S : ~ (m < n)
  BY <1>1 DEF OpToRel
<1>3. \A m \in S : n <= m
  BY <1>2
<1> QED
  BY <1>3 DEF Min

\* Between a target and the next there is neither a frame nor a key.
LEMMA NextTime ==
  ASSUME NEW r \in Requests, NEW time \in Nat,
         NEW later, later = {t \in Targets(r) : t > time}
  PROVE  /\ later = {} => UpTo(r.frames, time) = r.frames
         /\ later # {} =>
              /\ Min(later) \in Nat /\ Min(later) \in Targets(r)
              /\ Before(r.frames, Min(later)) = UpTo(r.frames, time)
              /\ Before(r.keys, Min(later)) = UpTo(r.keys, time)
<1>1. Targets(r) \subseteq Nat /\ r.frames \subseteq Targets(r) /\ r.keys \subseteq Targets(r)
  BY CaptureAssumption DEF Targets, CaptureAssumption, Requests
<1>2. later # {} => Min(later) \in later /\ \A t \in later : Min(later) <= t
  BY <1>1, LeastTime
<1>3. r.frames \subseteq Nat /\ r.keys \subseteq Nat
  BY DEF Requests
<1> QED
  BY <1>1, <1>2, <1>3 DEF UpTo, Before

LEMMA FirstTime ==
  ASSUME NEW r \in Requests, r.frames # {}
  PROVE  /\ Min(Targets(r)) \in Nat /\ Min(Targets(r)) \in Targets(r)
         /\ Before(r.frames, Min(Targets(r))) = {}
         /\ Before(r.keys, Min(Targets(r))) = {}
<1>1. Targets(r) \subseteq Nat /\ r.frames \subseteq Targets(r) /\ r.keys \subseteq Targets(r)
  BY CaptureAssumption DEF Targets, CaptureAssumption, Requests
<1>2. Min(Targets(r)) \in Targets(r) /\ \A t \in Targets(r) : Min(Targets(r)) <= t
  BY <1>1, LeastTime
<1> QED
  BY <1>1, <1>2 DEF Before, Requests

\* A key at a time changes the view, nothing else does.
LEMMA ViewOfKeys ==
  ASSUME NEW r \in Requests, IsFiniteSet(r.keys), NEW time \in Nat
  PROVE  LET view == Cardinality(Before(r.keys, time)) % 2
         IN /\ view \in {0, 1}
            /\ ViewAt(r, time) = IF time \in r.keys THEN 1 - view ELSE view
<1> DEFINE B == Before(r.keys, time)
           U == UpTo(r.keys, time)
<1>1. ViewAt(r, time) = Cardinality(U) % 2
  BY DEF ViewAt, UpTo
<1>2. r.keys \subseteq Nat
  BY DEF Requests
<1>3. B \subseteq r.keys /\ time \notin B
  BY <1>2 DEF Before
<1>4. IsFiniteSet(B) /\ Cardinality(B) \in Nat
  BY <1>3, FS_Subset, FS_CardinalityType
<1>5. CASE time \in r.keys
  <2>1. U = B \cup {time}
    BY <1>2, <1>5 DEF UpTo, Before
  <2> HIDE DEF B, U
  <2>2. Cardinality(U) = Cardinality(B) + 1
    BY <1>3, <1>4, <2>1, FS_AddElement
  <2> DEFINE n == Cardinality(B)
  <2> HIDE DEF n
  <2>3. n \in Nat => (n + 1) % 2 = 1 - (n % 2) /\ n % 2 \in {0, 1}
    OBVIOUS
  <2> QED
    BY <1>1, <1>4, <1>5, <2>2, <2>3 DEF n, B
<1>6. CASE time \notin r.keys
  <2>1. U = B
    BY <1>2, <1>6 DEF UpTo, Before
  <2> HIDE DEF B, U
  <2>2. Cardinality(B) % 2 \in {0, 1}
    BY <1>4
  <2> QED
    BY <1>1, <1>6, <2>1, <2>2 DEF B
<1> QED
  BY <1>5, <1>6

\* A scene does not go back.
LEMMA StagesGoOn ==
  ASSUME NEW r, NEW early \in Nat, NEW late \in Nat, early <= late
  PROVE  /\ StageAt(r, early) \in Nat
         /\ StageAt(r, early) <= StageAt(r, late)
<1> DEFINE E == {t \in Transitions : r.timed /\ t <= early}
           L == {t \in Transitions : r.timed /\ t <= late}
<1>0. \A t \in Transitions : t <= early => t <= late
  BY CaptureAssumption DEF CaptureAssumption
<1>1. E \subseteq L /\ L \subseteq Transitions
  BY <1>0
<1>2. IsFiniteSet(L)
  BY <1>1, FS_Subset, CaptureAssumption DEF CaptureAssumption
<1>3. IsFiniteSet(E) /\ Cardinality(E) <= Cardinality(L) /\ Cardinality(E) \in Nat
  BY <1>1, <1>2, FS_Subset, FS_CardinalityType
<1> QED
  BY <1>3 DEF StageAt

\* What the steps need to know of the parent.
LEMMA JobFields ==
  ASSUME CaptureInvariant
  PROVE  /\ job = [request |-> job.request, phase |-> job.phase, target |-> job.target,
                   start |-> job.start, view |-> job.view, shown |-> job.shown,
                   part |-> job.part]
         /\ job.request \in Requests /\ job.phase \in CapturePhases /\ job.target \in Nat
         /\ job.start \in Nat /\ job.view \in {0, 1} /\ job.shown \in Shown \cup {NONE}
         /\ job.part \in Nat
         /\ job.phase # "off" =>
              /\ job.request \in CaptureRequests
              /\ IsFiniteSet(job.request.keys) /\ IsFiniteSet(job.request.frames)
              /\ Cardinality(job.request.frames) <= MaxFrames
<1>1. /\ job \in Jobs
      /\ job.phase # "off" => job.request \in CaptureRequests
  BY DEF CaptureInvariant, CaptureTypes
<1>2. \A r \in CaptureRequests :
        /\ IsFiniteSet(r.keys) /\ IsFiniteSet(r.frames)
        /\ Cardinality(r.frames) <= MaxFrames
  BY CaptureAssumption DEF CaptureAssumption
<1> QED
  BY <1>1, <1>2 DEF Jobs

\* The target is dealt with.
LEMMA PlanGoesOn ==
  ASSUME NEW r \in Requests, NEW time \in Nat, NEW view, view = ViewAt(r, time),
         NEW taken, taken = UpTo(r.frames, time),
         NEW later, later = {t \in Targets(r) : t > time}
  PROVE  /\ later = {} => Planned(r, "manifest", time, view, taken)
         /\ later # {} => /\ Min(later) \in Nat
                          /\ Planned(r, "waiting", Min(later), view, taken)
<1>1. view = Cardinality(UpTo(r.keys, time)) % 2
  BY DEF ViewAt, UpTo
<1>2. ASSUME later = {} PROVE Planned(r, "manifest", time, view, taken)
  BY <1>2, NextTime DEF Planned, Ahead, Reached, Framing, Closing
<1>3. ASSUME later # {} PROVE Min(later) \in Nat /\ Planned(r, "waiting", Min(later), view, taken)
  BY <1>1, <1>3, NextTime DEF Planned, Ahead, Reached, Framing, Closing
<1> QED
  BY <1>2, <1>3

LEMMA CaptureInitially == CaptureInit => CaptureInvariant
<1> SUFFICES ASSUME CaptureInit PROVE CaptureInvariant
  OBVIOUS
<1> USE DEF CaptureInit
<1>1. CaptureTypes
  <2>1. NoRequest \in Requests
    BY DEF Requests, NoRequest
  <2>2. job \in Jobs
    BY <2>1 DEF CapturePhases, Jobs
  <2>3. records \in Seq(Frames) /\ files \in [Names -> FileStates]
    BY DEF FileStates
  <2>4. strangers \in [made : SUBSET Names, late : BOOLEAN, writes : Nat]
    OBVIOUS
  <2>5. terminal \in Terminals
    BY DEF Terminals
  <2> QED
    BY <2>2, <2>3, <2>4, <2>5 DEF CaptureTypes
<1>2. Planned(job.request, job.phase, job.target, job.view, Taken(records))
  BY DEF Planned, Ahead, Reached, Framing, Closing
<1>3. Recorded(job.request, records)
  <2>1. DOMAIN records = {} /\ Len(records) = 0
    OBVIOUS
  <2>2. Taken(records) = {}
    BY <2>1 DEF Taken
  <2>3. Cardinality({}) = 0
    BY FS_EmptySet
  <2> QED
    BY <2>1, <2>2, <2>3 DEF Recorded
<1>4. StagesReached
  BY CaptureAssumption DEF StagesReached, CaptureAssumption
<1>5. FilesKept
  BY DEF FilesKept, Names, Manifest, Temporary, Gate
<1>6. GateKept
  BY DEF GateKept, Names, Gate, Opened, Working
<1> QED
  BY <1>1, <1>2, <1>3, <1>4, <1>5, <1>6 DEF CaptureInvariant

\* The parent goes to another phase of the same target.
LEMMA PhaseMoves ==
  ASSUME CaptureInvariant, NEW phase \in CapturePhases,
         job' = [job EXCEPT !.phase = phase]
  PROVE  /\ job'.request = job.request /\ job'.phase = phase /\ job'.target = job.target
         /\ job'.view = job.view /\ job'.shown = job.shown /\ job'.part = job.part
         /\ job' \in Jobs
BY JobFields DEF Jobs

\* While no file changes, and nothing is claimed of them.
LEMMA FilesStay ==
  ASSUME CaptureInvariant, UNCHANGED <<files, strangers>>,
         job.phase # "done", job'.phase \notin {"publishing", "done", "failed"}
  PROVE  FilesKept'
BY DEF CaptureInvariant, FilesKept

\* The transaction goes on, with the gate open or not.
LEMMA GateStays ==
  ASSUME CaptureInvariant, UNCHANGED strangers, files'[Gate] = files[Gate],
         job.phase # "killed", Opened' <=> Opened
  PROVE  GateKept'
BY DEF CaptureInvariant, GateKept

LEMMA GoesOnOpened ==
  ASSUME job'.request = job.request, job.phase \in Reached \cup Closing \cup {"waiting"},
         job'.phase \in Reached \cup Closing \cup {"waiting"},
         job.phase # "done", job'.phase # "done"
  PROVE  job.phase # "killed" /\ (Opened' <=> Opened)
BY DEF Opened, Request, Working, Reached, Framing, Closing

\* The child, the clock and the signal.
LEMMA ChildStep ==
  ASSUME CaptureInvariant,
         ChildSeesGate \/ ChildHandlesKey \/ Interrupted \/ CaptureClock
  PROVE  CaptureInvariant'
<1>1. UNCHANGED <<job, records, files, strangers>> /\ terminal'.running = terminal.running
  BY DEF ChildSeesGate, ChildHandlesKey, Interrupted, CaptureClock, CaptureInvariant,
         CaptureTypes, Terminals
<1>2. CaptureTypes'
  <2>1. /\ elapsed \in Nat
        /\ terminal = [running |-> terminal.running, since |-> terminal.since,
                       keys |-> terminal.keys, view |-> terminal.view]
        /\ terminal.running \in BOOLEAN /\ terminal.since \in Nat \cup {NONE}
        /\ terminal.keys \in Nat /\ terminal.view \in {0, 1}
    BY DEF CaptureInvariant, CaptureTypes, Terminals
  <2>2. terminal' \in Terminals
    <3>1. CASE ChildSeesGate
      BY <2>1, <3>1 DEF ChildSeesGate, Terminals
    <3>2. CASE ChildHandlesKey
      <4>1. terminal.keys - 1 \in Nat /\ 1 - terminal.view \in {0, 1}
        BY <2>1, <3>2 DEF ChildHandlesKey
      <4>2. terminal' = [running |-> terminal.running, since |-> terminal.since,
                         keys |-> terminal.keys - 1, view |-> 1 - terminal.view]
        BY <2>1, <3>2 DEF ChildHandlesKey
      <4> QED
        BY <2>1, <4>1, <4>2 DEF Terminals
    <3>3. CASE Interrupted \/ CaptureClock
      BY <3>3 DEF Interrupted, CaptureClock, CaptureInvariant, CaptureTypes
    <3> QED
      BY <3>1, <3>2, <3>3
  <2>3. elapsed' \in {elapsed, elapsed + 1} /\ (signal' = signal \/ signal' = TRUE)
    BY DEF ChildSeesGate, ChildHandlesKey, Interrupted, CaptureClock
  <2>4. elapsed' \in Nat
    BY <2>1, <2>3
  <2>5. signal' \in BOOLEAN
    BY <2>3 DEF CaptureInvariant, CaptureTypes
  <2> QED
    BY <1>1, <2>2, <2>4, <2>5 DEF CaptureInvariant, CaptureTypes
<1>3. StagesReached'
  <2> DEFINE ran == IF terminal.since = NONE THEN 0 ELSE elapsed - terminal.since
             runs == IF terminal'.since = NONE THEN 0 ELSE elapsed' - terminal'.since
  <2>1. /\ elapsed \in Nat /\ elapsed' \in Nat /\ elapsed <= elapsed'
        /\ terminal.since \in Nat \cup {NONE}
        /\ terminal.since \in Nat => terminal.since <= elapsed
    BY DEF CaptureInvariant, CaptureTypes, Terminals, StagesReached, ChildSeesGate,
           ChildHandlesKey, Interrupted, CaptureClock
  <2>2. \/ terminal'.since = terminal.since
        \/ terminal.since = NONE /\ terminal'.since = elapsed' /\ elapsed' = elapsed
    BY DEF CaptureInvariant, CaptureTypes, Terminals, ChildSeesGate, ChildHandlesKey, Interrupted,
           CaptureClock
  <2>3. /\ ran \in Nat /\ runs \in Nat /\ ran <= runs
        /\ terminal'.since \in Nat => terminal'.since <= elapsed'
    BY <2>1, <2>2, CaptureAssumption DEF CaptureAssumption
  <2>4. ChildStage \in Nat /\ ChildStage <= ChildStage' /\ ChildStage' \in Nat
    <3>1. ChildStage = StageAt(job.request, ran) /\ ChildStage' = StageAt(job.request, runs)
      BY <1>1 DEF ChildStage, Request, StageAt
    <3> HIDE DEF ran, runs
    <3> QED
      BY <2>3, <3>1, StagesGoOn
  <2>5. StageAt(job.request, job.target) \in Nat
    BY StagesGoOn, JobFields
  <2> HIDE DEF ran, runs
  <2>6. StageAt(job.request, job.target)' = StageAt(job.request, job.target)
    BY <1>1 DEF StageAt
  <2>7. ASSUME job.phase = "shooting", job.request.native
        PROVE  ChildStage' >= StageAt(job.request, job.target)
    BY <2>4, <2>5, <2>7 DEF CaptureInvariant, StagesReached
  <2>8. Truthful(job.request, job.shown, job.target)'
          = Truthful(job.request, job.shown, job.target)
    BY <1>1 DEF Truthful, ViewAt, StageAt
  <2> QED
    BY <1>1, <2>3, <2>6, <2>7, <2>8 DEF CaptureInvariant, StagesReached
<1>4. /\ Planned(job.request, job.phase, job.target, job.view, Taken(records))'
      /\ Recorded(job.request, records)'
  BY <1>1 DEF CaptureInvariant, Planned, Recorded, Taken, Truthful, ViewAt, StageAt, Targets
<1>5. FilesKept' /\ GateKept'
  BY <1>1 DEF CaptureInvariant, FilesKept, GateKept, Opened, Request, Working
<1> QED
  BY <1>1, <1>2, <1>3, <1>4, <1>5 DEF CaptureInvariant

\* What somebody else writes is known to be theirs, and comes too late to be noticed
\* once the artifacts were verified.
LEMMA StrangerStep ==
  ASSUME CaptureInvariant, StrangerWrites
  PROVE  CaptureInvariant'
<1>1. PICK x \in Names \ {Temporary} :
        /\ files' = [files EXCEPT ![x] = "theirs"]
        /\ strangers' = [made |-> strangers.made \cup (IF CanCreate(x) THEN {x} ELSE {}),
                         late |-> strangers.late \/ job.phase \in {"publishing", "done"},
                         writes |-> strangers.writes + 1]
        /\ UNCHANGED <<job, records, terminal, elapsed, signal>>
  BY DEF StrangerWrites
<1>2. CaptureTypes'
  <2>1. files' \in [Names -> FileStates]
    BY <1>1 DEF CaptureInvariant, CaptureTypes, FileStates
  <2>2. strangers' \in [made : SUBSET Names, late : BOOLEAN, writes : Nat]
    <3>1. /\ strangers.made \cup (IF CanCreate(x) THEN {x} ELSE {}) \in SUBSET Names
          /\ strangers.writes + 1 \in Nat
      BY DEF CaptureInvariant, CaptureTypes
    <3>2. (strangers.late \/ job.phase \in {"publishing", "done"}) \in BOOLEAN
      BY DEF CaptureInvariant, CaptureTypes
    <3> QED
      BY <1>1, <3>1, <3>2
  <2> QED
    BY <1>1, <2>1, <2>2 DEF CaptureInvariant, CaptureTypes
<1>3. /\ Planned(job.request, job.phase, job.target, job.view, Taken(records))'
      /\ Recorded(job.request, records)' /\ StagesReached'
  <2>1. UNCHANGED <<job, records, terminal, elapsed>>
    BY <1>1
  <2>2. Planned(job.request, job.phase, job.target, job.view, Taken(records))'
    BY <2>1 DEF CaptureInvariant, Planned, Taken, ViewAt, Targets
  <2>3. Recorded(job.request, records)'
    BY <2>1 DEF CaptureInvariant, Recorded, Taken, Truthful, ViewAt, StageAt
  <2>4. ChildStage' = ChildStage
    BY <2>1 DEF ChildStage, Request, StageAt
  <2>5. StagesReached'
    BY <2>1, <2>4 DEF CaptureInvariant, StagesReached, Truthful, ViewAt, StageAt
  <2> QED
    BY <2>2, <2>3, <2>5
<1>4. FilesKept'
  <2>1. /\ \A y \in Names : files'[y] = IF y = x THEN "theirs" ELSE files[y]
        /\ strangers.made \subseteq Names
    BY <1>1 DEF CaptureInvariant, CaptureTypes
  <2>2. Temporary \in Names /\ Manifest \in Names /\ Gate \in Names /\ x # Temporary
    BY <1>1 DEF Names, Temporary, Manifest, Gate
  <2>3. \A y \in strangers'.made : files'[y] = "theirs"
    BY <1>1, <2>1 DEF CaptureInvariant, FilesKept
  <2>4. job.phase \in {"publishing", "done"} => strangers'.late
    BY <1>1
  <2> QED
    BY <1>1, <2>1, <2>2, <2>3, <2>4 DEF CaptureInvariant, FilesKept
<1>5. GateKept'
  <2>1. \A y \in Names : files'[y] = IF y = x THEN "theirs" ELSE files[y]
    BY <1>1 DEF CaptureInvariant, CaptureTypes
  <2>2. Gate \in Names
    BY DEF Names, Gate
  <2>3. (Opened' <=> Opened) /\ job'.phase = job.phase
    BY <1>1 DEF Opened, Request, Working
  <2>4. Opened => Gate \notin strangers'.made
    BY <1>1 DEF CaptureInvariant, GateKept, CanCreate
  <2> QED
    BY <2>1, <2>2, <2>3, <2>4 DEF CaptureInvariant, GateKept
<1> QED
  BY <1>1, <1>2, <1>3, <1>4, <1>5 DEF CaptureInvariant

\* The transaction ends short of success.
LEMMA EndStep ==
  ASSUME CaptureInvariant, InterruptNoticed \/ CaptureFails \/ CaptureKilled
  PROVE  CaptureInvariant'
<1> DEFINE part == PartName
<1>1. PICK phase \in {"failed", "killed"} :
        /\ job' = [job EXCEPT !.phase = phase]
        /\ UNCHANGED <<records, strangers, elapsed>>
        /\ terminal' = IF phase = "failed" THEN [terminal EXCEPT !.running = FALSE] ELSE terminal
        /\ \/ /\ phase = "failed"
              /\ files' = [x \in Names |->
                             IF (x = Gate /\ Opened) \/ (x = Temporary /\ files[x] = "ours")
                             THEN "absent" ELSE files[x]]
           \/ phase = "killed" /\ files' = files
           \/ /\ phase = "killed" /\ files[part] = "absent"
              /\ files' = [files EXCEPT ![part] = "part"]
        /\ signal' = signal /\ Working
  BY DEF InterruptNoticed, CaptureFails, CaptureKilled, CleanedUp, Goto, Working, CanCreate
<1>2. phase \in CapturePhases
  BY DEF CapturePhases
<1>3. /\ job'.request = job.request /\ job'.phase = phase /\ job' \in Jobs
      /\ job.phase # "off" /\ job.phase # "done"
  BY <1>1, <1>2, PhaseMoves DEF Working
<1>4. part \notin {Gate, Temporary, Manifest}
  <2>1. Len(records) \in Nat
    BY DEF CaptureInvariant, CaptureTypes
  <2>2. FrameIndex # 0
    BY <2>1 DEF FrameIndex
  <2> QED
    BY <2>2 DEF PartName, Gate, Temporary, Manifest
<1> HIDE DEF part
<1>5. /\ Gate \in Names /\ Temporary \in Names /\ Manifest \in Names
      /\ Gate # Temporary /\ Manifest # Gate /\ Manifest # Temporary
  BY DEF Names, Gate, Temporary, Manifest
<1>6. CaptureTypes'
  <2>1. files' \in [Names -> FileStates]
    BY <1>1 DEF CaptureInvariant, CaptureTypes, FileStates
  <2>2. terminal' \in Terminals
    BY <1>1 DEF CaptureInvariant, CaptureTypes, Terminals
  <2> QED
    BY <1>1, <1>3, <2>1, <2>2 DEF CaptureInvariant, CaptureTypes
<1>7. Planned(job.request, job.phase, job.target, job.view, Taken(records))'
  BY <1>1, <1>3 DEF Planned, Ahead, Reached, Framing, Closing
<1>8. Recorded(job.request, records)'
  BY <1>1, <1>3 DEF CaptureInvariant, Recorded, Taken, Truthful, ViewAt, StageAt
<1>9. StagesReached'
  BY <1>1, <1>3 DEF CaptureInvariant, StagesReached, CaptureTypes, Terminals
<1>10. FilesKept'
  <2>1. /\ files \in [Names -> FileStates] /\ strangers.made \subseteq Names
        /\ files[Manifest] # "ours" /\ files[Temporary] \in {"absent", "ours"}
        /\ \A x \in strangers.made : files[x] = "theirs" /\ ~(x = Gate /\ Opened)
        /\ files[Gate] = "ours" => Opened
    BY <1>1, <1>3 DEF CaptureInvariant, CaptureTypes, FilesKept, GateKept, Working
  <2>2. CASE phase = "failed"
    <3>1. /\ \A x \in Names \ {Gate, Temporary} : files'[x] = files[x]
          /\ files'[Gate] = IF Opened THEN "absent" ELSE files[Gate]
          /\ files'[Temporary] = IF files[Temporary] = "ours" THEN "absent" ELSE files[Temporary]
      BY <1>1, <1>5, <2>2
    <3>2. \A x \in strangers.made : files'[x] = "theirs"
      BY <2>1, <3>1
    <3>3. terminal'.running = FALSE
      BY <1>1, <2>2 DEF CaptureInvariant, CaptureTypes, Terminals
    <3> QED
      BY <1>1, <1>3, <1>5, <2>1, <2>2, <3>1, <3>2, <3>3 DEF FilesKept
  <2>3. CASE phase = "killed"
    <3>1. \A x \in Names : \/ files'[x] = files[x]
                           \/ files[x] = "absent" /\ files'[x] = "part" /\ x = part
      BY <1>1, <2>1, <2>3
    <3>2. \A x \in strangers.made : files'[x] = "theirs"
      BY <2>1, <3>1
    <3> QED
      BY <1>1, <1>3, <1>4, <1>5, <2>1, <2>3, <3>1, <3>2 DEF FilesKept
  <2> QED
    BY <2>2, <2>3
<1>11. GateKept'
  <2>1. ~Opened'
    BY <1>1, <1>3 DEF Opened, Working
  <2>2. files'[Gate] = "ours" => phase = "killed"
    <3>1. CASE phase = "failed"
      <4>1. files'[Gate] = IF Opened THEN "absent" ELSE files[Gate]
        BY <1>1, <1>5, <3>1
      <4> QED
        BY <1>1, <4>1 DEF CaptureInvariant, GateKept, Working
    <3> QED
      BY <3>1
  <2> QED
    BY <1>3, <2>1, <2>2 DEF GateKept
<1> QED
  BY <1>1, <1>3, <1>6, <1>7, <1>8, <1>9, <1>10, <1>11 DEF CaptureInvariant

LEMMA StagesStay ==
  ASSUME CaptureInvariant, terminal'.since = terminal.since, elapsed' = elapsed,
         job'.phase \notin {"shooting", "writing", "reading"}
  PROVE  StagesReached'
BY DEF CaptureInvariant, StagesReached

LEMMA RecordsStay ==
  ASSUME CaptureInvariant, job'.request = job.request, records' = records
  PROVE  Recorded(job.request, records)'
BY DEF CaptureInvariant, Recorded, Taken, Truthful, ViewAt, StageAt

LEMMA StartStep ==
  ASSUME CaptureInvariant, StartCapture
  PROVE  CaptureInvariant'
<1>1. PICK r \in CaptureRequests :
        /\ r.frames # {}
        /\ job' = [job EXCEPT !.request = r,
                              !.phase = IF r.native THEN "starting" ELSE "waiting",
                              !.target = Min(Targets(r)),
                              !.start = elapsed]
  BY DEF StartCapture, Plausible
<1>2. UNCHANGED <<records, files, strangers, terminal, elapsed, signal>> /\ job.phase = "off"
  BY DEF StartCapture
<1>3. r \in Requests /\ elapsed \in Nat
  BY CaptureAssumption DEF CaptureAssumption, Requests, CaptureInvariant, CaptureTypes
<1>4. /\ Min(Targets(r)) \in Nat /\ Min(Targets(r)) \in Targets(r)
      /\ Before(r.frames, Min(Targets(r))) = {}
      /\ Before(r.keys, Min(Targets(r))) = {}
  BY <1>1, <1>3, FirstTime
<1> DEFINE first == Min(Targets(r))
<1> HIDE DEF first
<1>5. PICK phase \in {"starting", "waiting"} :
        /\ job' = [request |-> r, phase |-> phase, target |-> first, start |-> elapsed,
                   view |-> job.view, shown |-> job.shown, part |-> job.part]
        /\ phase = "starting" <=> r.native
  BY <1>1, JobFields DEF first
<1>6. job' \in Jobs
  BY <1>3, <1>4, <1>5, JobFields DEF Jobs, CapturePhases, Ahead, first
<1>7. records = <<>> /\ job.view = 0 /\ Taken(records) = {}
  <2>1. records = <<>> /\ job.view = 0
    BY <1>2 DEF CaptureInvariant
  <2>2. DOMAIN records = {}
    BY <2>1
  <2> QED
    BY <2>1, <2>2 DEF Taken
<1>8. CaptureTypes'
  BY <1>2, <1>5, <1>6 DEF CaptureInvariant, CaptureTypes
<1>9. Planned(job.request, job.phase, job.target, job.view, Taken(records))'
  <2>1. Cardinality({}) % 2 = 0
    <3>1. Cardinality({}) = 0
      BY FS_EmptySet
    <3> QED
      BY <3>1
  <2>2. Planned(r, phase, first, 0, {})
    BY <1>4, <1>5, <2>1 DEF Planned, Ahead, Reached, Framing, Closing, first
  <2> QED
    BY <1>2, <1>5, <1>7, <2>2 DEF Planned, Taken, Targets, ViewAt
<1>10. Recorded(job.request, records)'
  <2>1. DOMAIN records' = {} /\ Len(records') = 0
    BY <1>2, <1>7
  <2>2. Cardinality(Taken(records')) = 0
    BY <1>2, <1>7, FS_EmptySet
  <2> QED
    BY <2>1, <2>2 DEF Recorded
<1>11. StagesReached' /\ FilesKept'
  BY <1>2, <1>5, StagesStay, FilesStay
<1>12. GateKept'
  <2>1. ~Opened
    BY <1>2 DEF Opened, Working
  <2>2. ~Opened'
    BY <1>5 DEF Opened, Request
  <2> QED
    BY <1>2, <2>1, <2>2, GateStays
<1> QED
  BY <1>5, <1>8, <1>9, <1>10, <1>11, <1>12 DEF CaptureInvariant

\* The native lane starts its server and opens the gate.
LEMMA ServerStep ==
  ASSUME CaptureInvariant, StartServer \/ ServerReady
  PROVE  CaptureInvariant'
<1>1. CASE StartServer
  <2>1. /\ job' = [job EXCEPT !.phase = "ready"] /\ job.phase = "starting"
        /\ terminal' = [terminal EXCEPT !.running = TRUE]
        /\ UNCHANGED <<records, files, strangers, elapsed, signal>>
    BY <1>1 DEF StartServer, Goto
  <2>2. /\ job'.request = job.request /\ job'.phase = "ready" /\ job'.target = job.target
        /\ job'.view = job.view /\ job' \in Jobs
    BY <2>1, PhaseMoves DEF CapturePhases, Ahead
  <2>3. terminal' \in Terminals /\ terminal'.since = terminal.since
    BY <2>1 DEF CaptureInvariant, CaptureTypes, Terminals
  <2>4. CaptureTypes'
    BY <2>1, <2>2, <2>3 DEF CaptureInvariant, CaptureTypes
  <2>5. Planned(job.request, job.phase, job.target, job.view, Taken(records))'
    BY <2>1, <2>2 DEF CaptureInvariant, Planned, Ahead, Reached, Framing, Closing, Taken, Targets
  <2>6. GateKept'
    <3>1. ~Opened /\ ~Opened'
      BY <2>1, <2>2 DEF Opened
    <3> QED
      BY <2>1, <3>1, GateStays
  <2> QED
    BY <2>1, <2>2, <2>3, <2>4, <2>5, <2>6, RecordsStay, StagesStay, FilesStay
    DEF CaptureInvariant
<1>2. CASE ServerReady
  <2>1. /\ job' = [job EXCEPT !.phase = "waiting", !.start = elapsed] /\ job.phase = "ready"
        /\ \/ files' = files /\ ~job.request.timed
           \/ /\ CanCreate(Gate) /\ job.request.timed
              /\ files' = [files EXCEPT ![Gate] = "ours"]
        /\ UNCHANGED <<records, strangers, terminal, elapsed, signal>>
    BY <1>2 DEF ServerReady, Request
  <2>2. /\ job'.request = job.request /\ job'.phase = "waiting" /\ job'.target = job.target
        /\ job'.view = job.view /\ job' \in Jobs
    BY <2>1, JobFields DEF Jobs, CapturePhases, Ahead, CaptureInvariant, CaptureTypes
  <2>3. CaptureTypes'
    BY <2>1, <2>2 DEF CaptureInvariant, CaptureTypes, FileStates
  <2>4. Planned(job.request, job.phase, job.target, job.view, Taken(records))'
    BY <2>1, <2>2 DEF CaptureInvariant, Planned, Ahead, Reached, Framing, Closing, Taken, Targets
  <2>5. FilesKept'
    BY <2>1, <2>2 DEF CaptureInvariant, CaptureTypes, FilesKept, CanCreate, Names, Gate,
                      Temporary, Manifest
  <2>6. GateKept'
    <3>1. job.request.native
      BY <2>1 DEF CaptureInvariant, Planned
    <3>2. CASE files' = files /\ ~job.request.timed
      <4>1. ~Opened /\ ~Opened'
        BY <2>2, <3>2 DEF Opened, Request
      <4> QED
        BY <2>1, <3>2, <4>1, GateStays
    <3>3. CASE /\ CanCreate(Gate) /\ job.request.timed
               /\ files' = [files EXCEPT ![Gate] = "ours"]
      <4>1. Gate \in Names /\ Gate \notin strangers.made
        BY <3>3 DEF CaptureInvariant, FilesKept, CanCreate, Names, Gate
      <4>2. files'[Gate] = "ours"
        BY <3>3, <4>1 DEF CaptureInvariant, CaptureTypes
      <4>3. Opened'
        BY <2>2, <3>1, <3>3 DEF Opened, Request, Working
      <4> QED
        BY <2>1, <4>1, <4>2, <4>3 DEF GateKept
    <3> QED
      BY <2>1, <3>2, <3>3
  <2> QED
    BY <2>1, <2>2, <2>3, <2>4, <2>5, <2>6, RecordsStay, StagesStay DEF CaptureInvariant
<1> QED
  BY <1>1, <1>2

\* After a target: what was taken and shown is up to its time.
LEMMA TargetDone ==
  ASSUME CaptureInvariant, job.phase # "off",
         NEW taken, taken = UpTo(job.request.frames, job.target),
         NEW view \in {0, 1}, view = ViewAt(job.request, job.target),
         \/ Later = {} /\ job' = [job EXCEPT !.view = view, !.phase = "manifest"]
         \/ Later # {} /\ job' = [job EXCEPT !.view = view, !.phase = "waiting",
                                             !.target = Min(Later)]
  PROVE  /\ job' \in Jobs /\ job'.request = job.request /\ job'.phase \in {"manifest", "waiting"}
         /\ Planned(job'.request, job'.phase, job'.target, job'.view, taken)
<1>1. Later = {t \in Targets(job.request) : t > job.target}
  BY DEF Later, Request, Target
<1>2. /\ Later = {} => Planned(job.request, "manifest", job.target, view, taken)
      /\ Later # {} => Min(Later) \in Nat /\ Planned(job.request, "waiting", Min(Later), view, taken)
  BY <1>1, JobFields, PlanGoesOn
<1> DEFINE next == Min(Later)
<1> HIDE DEF next
<1>3. CASE Later = {}
  <2>1. job' = [request |-> job.request, phase |-> "manifest", target |-> job.target,
                start |-> job.start, view |-> view, shown |-> job.shown, part |-> job.part]
    BY <1>3, JobFields
  <2> QED
    BY <1>2, <1>3, <2>1, JobFields DEF Jobs, CapturePhases, Closing
<1>4. CASE Later # {}
  <2>1. job' = [request |-> job.request, phase |-> "waiting", target |-> next,
                start |-> job.start, view |-> view, shown |-> job.shown, part |-> job.part]
    BY <1>4, JobFields DEF next
  <2>2. next \in Nat /\ Planned(job.request, "waiting", next, view, taken)
    BY <1>2, <1>4 DEF next
  <2> QED
    BY <2>1, <2>2, JobFields DEF Jobs, CapturePhases, Ahead
<1> QED
  BY <1>3, <1>4

\* Without a frame at the target, what was taken before it was taken up to it.
LEMMA NoFrameHere ==
  ASSUME NEW r \in Requests, NEW time, time \notin r.frames, time \in Nat
  PROVE  Before(r.frames, time) = UpTo(r.frames, time)
BY DEF Requests, Before, UpTo

\* A native view of a timed scene is waited for; any other shows its stage at once.
LEMMA ToBeShot ==
  ASSUME CaptureInvariant, terminal'.since = terminal.since, elapsed' = elapsed,
         job.phase # "off", job'.request = job.request, job'.target = job.target,
         job'.phase \in {"staging", "shooting"},
         \/ job'.phase = FramePhase
         \/ ChildStage = StageAt(job.request, job.target)
  PROVE  StagesReached'
<1>1. StageAt(job.request, job.target) \in Nat
  BY JobFields, StagesGoOn
<1>2. ASSUME ~job.request.timed
      PROVE  \A time : StageAt(job.request, time) = StageAt(job.request, job.target)
  BY <1>2 DEF StageAt
<1>3. job'.phase = "shooting" /\ job.request.native => ChildStage = StageAt(job.request, job.target)
  BY <1>2 DEF FramePhase, Request, ChildStage
<1>4. ChildStage' = ChildStage /\ StageAt(job.request, job.target)' = StageAt(job.request, job.target)
  BY DEF ChildStage, Request, StageAt
<1>5. terminal.since \in Nat => terminal.since <= elapsed
  BY DEF CaptureInvariant, StagesReached
<1>6. ASSUME job'.phase = "shooting", job.request.native
      PROVE  ChildStage' >= StageAt(job.request, job.target)
  BY <1>1, <1>3, <1>4, <1>6
<1> QED
  BY <1>4, <1>5, <1>6 DEF StagesReached

LEMMA ReachStep ==
  ASSUME CaptureInvariant, ReachTarget
  PROVE  CaptureInvariant'
<1> DEFINE r == job.request
           view == IF job.target \in r.keys THEN 1 - job.view ELSE job.view
<1>1. /\ job.phase = "waiting"
      /\ UNCHANGED <<records, files, strangers, elapsed, signal>>
      /\ terminal' = terminal \/ terminal' = [terminal EXCEPT !.keys = @ + 1]
      /\ \/ job' = [job EXCEPT !.view = view, !.phase = "settling"]
         \/ job.target \in r.frames /\ job' = [job EXCEPT !.view = view, !.phase = FramePhase]
         \/ /\ job.target \notin r.frames
            /\ \/ Later = {} /\ job' = [job EXCEPT !.view = view, !.phase = "manifest"]
               \/ Later # {} /\ job' = [job EXCEPT !.view = view, !.target = Min(Later)]
  BY DEF ReachTarget, Request, Target
<1>2. /\ r \in Requests /\ IsFiniteSet(r.keys) /\ job.target \in Nat /\ job.phase # "off"
      /\ job.target \in Targets(r) /\ Taken(records) = Before(r.frames, job.target)
      /\ job.view = Cardinality(Before(r.keys, job.target)) % 2
  BY <1>1, JobFields DEF CaptureInvariant, Planned, Ahead
<1>3. view \in {0, 1} /\ view = ViewAt(r, job.target)
  BY <1>2, ViewOfKeys
<1>4. terminal' \in Terminals /\ terminal'.since = terminal.since
  <2>1. terminal \in Terminals
    BY DEF CaptureInvariant, CaptureTypes
  <2>2. terminal.keys + 1 \in Nat
    BY <2>1 DEF Terminals
  <2> QED
    BY <1>1, <2>1, <2>2 DEF Terminals
<1> HIDE DEF view
<1>5. CASE \/ job' = [job EXCEPT !.view = view, !.phase = "settling"]
           \/ job.target \in r.frames /\ job' = [job EXCEPT !.view = view, !.phase = FramePhase]
  <2>1. PICK phase \in Reached \ {"writing", "reading"} :
          /\ job' = [job EXCEPT !.view = view, !.phase = phase]
          /\ phase = "settling" \/ (phase = FramePhase /\ job.target \in r.frames)
    BY <1>5 DEF Reached, Framing, FramePhase
  <2>2. job' = [request |-> job.request, phase |-> phase, target |-> job.target,
                start |-> job.start, view |-> view, shown |-> job.shown, part |-> job.part]
    BY <2>1, JobFields
  <2>3. phase \in CapturePhases /\ job' \in Jobs
    BY <1>3, <2>2, JobFields DEF Jobs, CapturePhases, Reached, Framing
  <2>4. CaptureTypes'
    BY <1>1, <1>4, <2>2, <2>3 DEF CaptureInvariant, CaptureTypes
  <2>5. Planned(r, phase, job.target, view, Taken(records))
    BY <1>2, <1>3, <2>1 DEF Planned, Ahead, Reached, Framing, Closing
  <2>6. Planned(job.request, job.phase, job.target, job.view, Taken(records))'
    BY <1>1, <2>2, <2>5 DEF Planned, Taken, Targets, ViewAt
  <2>7. StagesReached'
    BY <1>1, <1>2, <1>4, <2>1, <2>2, ToBeShot, StagesStay DEF Reached, Framing
  <2>8. FilesKept'
    BY <1>1, <2>1, <2>2, FilesStay DEF Reached, Framing
  <2>9. Recorded(job.request, records)'
    BY <1>1, <2>2, RecordsStay
  <2>10. job'.phase # "off"
    BY <2>1, <2>2 DEF Reached, Framing
  <2>11. GateKept'
    BY <1>1, <2>1, <2>2, GoesOnOpened, GateStays DEF Reached, Framing
  <2> QED
    BY <2>4, <2>6, <2>7, <2>8, <2>9, <2>10, <2>11 DEF CaptureInvariant
<1>6. CASE /\ job.target \notin r.frames
           /\ \/ Later = {} /\ job' = [job EXCEPT !.view = view, !.phase = "manifest"]
              \/ Later # {} /\ job' = [job EXCEPT !.view = view, !.target = Min(Later)]
  <2>1. Taken(records) = UpTo(r.frames, job.target)
    BY <1>2, <1>6, NoFrameHere
  <2>2. \/ Later = {} /\ job' = [job EXCEPT !.view = view, !.phase = "manifest"]
        \/ Later # {} /\ job' = [job EXCEPT !.view = view, !.phase = "waiting",
                                            !.target = Min(Later)]
    <3> DEFINE next == Min(Later)
    <3> HIDE DEF next
    <3>1. [job EXCEPT !.view = view, !.target = next]
            = [job EXCEPT !.view = view, !.phase = "waiting", !.target = next]
      BY <1>1, JobFields
    <3> QED
      BY <1>6, <3>1 DEF next
  <2>3. /\ job' \in Jobs /\ job'.request = r /\ job'.phase \in {"manifest", "waiting"}
        /\ Planned(job'.request, job'.phase, job'.target, job'.view, Taken(records))
    BY <1>2, <1>3, <2>1, <2>2, TargetDone
  <2>4. CaptureTypes'
    BY <1>1, <1>4, <2>3 DEF CaptureInvariant, CaptureTypes
  <2>5. Planned(job.request, job.phase, job.target, job.view, Taken(records))'
    BY <1>1, <2>3 DEF Planned, Taken, Targets, ViewAt
  <2>6. StagesReached' /\ FilesKept' /\ Recorded(job.request, records)'
    BY <1>1, <1>4, <2>3, StagesStay, FilesStay, RecordsStay
  <2>7. GateKept'
    BY <1>1, <2>3, GoesOnOpened, GateStays DEF Closing
  <2> QED
    BY <2>3, <2>4, <2>5, <2>6, <2>7 DEF CaptureInvariant
<1> QED
  BY <1>1, <1>5, <1>6

\* A key was handled, or a stage was waited for.
LEMMA SettleStep ==
  ASSUME CaptureInvariant, KeySettled \/ StageSeen
  PROVE  CaptureInvariant'
<1> DEFINE r == job.request
<1>1. /\ UNCHANGED <<records, files, strangers, terminal, elapsed, signal>>
      /\ job.phase \in {"settling", "staging"}
      /\ \/ /\ job.target \in r.frames
            /\ \/ job' = [job EXCEPT !.phase = FramePhase]
               \/ /\ job' = [job EXCEPT !.phase = "shooting"]
                  /\ ChildStage = StageAt(r, job.target)
         \/ job.phase = "settling" /\ job.target \notin r.frames /\ NextTarget
  BY DEF KeySettled, StageSeen, Goto, Request, Target, CaptureInvariant, Planned, Framing
<1>2. /\ job.target \in Targets(r) /\ Taken(records) = Before(r.frames, job.target)
      /\ job.view = ViewAt(r, job.target) /\ job.view \in {0, 1} /\ job.target \in Nat
      /\ job.phase # "off" /\ job.phase # "done" /\ r \in Requests
  BY <1>1, JobFields DEF CaptureInvariant, Planned, Reached, Framing
<1>3. CASE /\ job.target \in r.frames
           /\ \/ job' = [job EXCEPT !.phase = FramePhase]
              \/ /\ job' = [job EXCEPT !.phase = "shooting"]
                 /\ ChildStage = StageAt(r, job.target)
  <2>1. PICK phase \in {"staging", "shooting"} :
          /\ job' = [job EXCEPT !.phase = phase]
          /\ phase = FramePhase \/ ChildStage = StageAt(r, job.target)
    BY <1>3 DEF FramePhase
  <2>2. phase \in CapturePhases
    BY DEF CapturePhases, Reached, Framing
  <2>3. /\ job'.request = r /\ job'.phase = phase /\ job'.target = job.target
        /\ job'.view = job.view /\ job' \in Jobs
    BY <2>1, <2>2, PhaseMoves
  <2>4. CaptureTypes'
    BY <1>1, <1>2, <2>3 DEF CaptureInvariant, CaptureTypes
  <2>5. Planned(r, phase, job.target, job.view, Taken(records))
    BY <1>2, <1>3 DEF Planned, Ahead, Reached, Framing, Closing
  <2>6. Planned(job.request, job.phase, job.target, job.view, Taken(records))'
    BY <1>1, <2>3, <2>5 DEF Planned, Taken, Targets, ViewAt
  <2>7. StagesReached'
    BY <1>1, <1>2, <2>1, <2>3, ToBeShot
  <2>8. FilesKept' /\ Recorded(job.request, records)'
    BY <1>1, <1>2, <2>3, FilesStay, RecordsStay
  <2>9. GateKept'
    BY <1>1, <2>3, GoesOnOpened, GateStays DEF Reached, Framing
  <2> QED
    BY <2>3, <2>4, <2>6, <2>7, <2>8, <2>9 DEF CaptureInvariant
<1>4. CASE job.phase = "settling" /\ job.target \notin r.frames /\ NextTarget
  <2>1. Taken(records) = UpTo(r.frames, job.target)
    BY <1>2, <1>4, NoFrameHere
  <2>2. \/ Later = {} /\ job' = [job EXCEPT !.view = job.view, !.phase = "manifest"]
        \/ Later # {} /\ job' = [job EXCEPT !.view = job.view, !.phase = "waiting",
                                            !.target = Min(Later)]
    <3> DEFINE next == Min(Later)
    <3> HIDE DEF next
    <3>1. /\ [job EXCEPT !.phase = "waiting", !.target = next]
               = [job EXCEPT !.view = job.view, !.phase = "waiting", !.target = next]
          /\ [job EXCEPT !.phase = "manifest"]
               = [job EXCEPT !.view = job.view, !.phase = "manifest"]
      BY JobFields
    <3> QED
      BY <1>4, <3>1 DEF next, NextTarget
  <2>3. /\ job' \in Jobs /\ job'.request = r /\ job'.phase \in {"manifest", "waiting"}
        /\ Planned(job'.request, job'.phase, job'.target, job'.view, Taken(records))
    BY <1>2, <2>1, <2>2, TargetDone
  <2>4. CaptureTypes'
    BY <1>1, <1>2, <2>3 DEF CaptureInvariant, CaptureTypes
  <2>5. Planned(job.request, job.phase, job.target, job.view, Taken(records))'
    BY <1>1, <2>3 DEF Planned, Taken, Targets, ViewAt
  <2>6. StagesReached' /\ FilesKept' /\ Recorded(job.request, records)'
    BY <1>1, <1>2, <2>3, StagesStay, FilesStay, RecordsStay
  <2>7. GateKept'
    BY <1>1, <2>3, GoesOnOpened, GateStays DEF Closing, Reached, Framing
  <2> QED
    BY <2>3, <2>4, <2>5, <2>6, <2>7 DEF CaptureInvariant
<1> QED
  BY <1>1, <1>3, <1>4

\* A frame is taken of a view and a stage that its time asks for.
LEMMA ShootStep ==
  ASSUME CaptureInvariant, Shoot
  PROVE  CaptureInvariant'
<1> DEFINE r == job.request
           shown == IF r.native THEN [stage |-> ChildStage, view |-> terminal.view]
                    ELSE [stage |-> StageAt(r, job.target), view |-> job.view]
<1>1. /\ job.phase = "shooting" /\ shown.view = job.view
      /\ job' = [job EXCEPT !.phase = "writing", !.shown = shown, !.part = 1]
      /\ UNCHANGED <<records, files, strangers, terminal, elapsed, signal>>
  BY DEF Shoot, Request, Target
<1>2. /\ job.target \in Targets(r) /\ Taken(records) = Before(r.frames, job.target)
      /\ job.view = ViewAt(r, job.target) /\ job.target \in r.frames
      /\ job.view \in {0, 1} /\ job.target \in Nat /\ r \in Requests
  BY <1>1, JobFields DEF CaptureInvariant, Planned, Reached, Framing
<1>3. /\ StageAt(r, job.target) \in Nat /\ ChildStage \in Nat
      /\ r.native => ChildStage >= StageAt(r, job.target)
      /\ terminal.view \in {0, 1}
  <2> DEFINE ran == IF terminal.since = NONE THEN 0 ELSE elapsed - terminal.since
  <2>1. ran \in Nat
    BY DEF CaptureInvariant, CaptureTypes, Terminals, StagesReached
  <2>2. ChildStage = StageAt(r, ran)
    BY DEF ChildStage, Request
  <2> HIDE DEF ran
  <2>3. StageAt(r, job.target) \in Nat /\ ChildStage \in Nat
    BY <1>2, <2>1, <2>2, StagesGoOn
  <2> QED
    BY <1>1, <2>3 DEF CaptureInvariant, CaptureTypes, Terminals, StagesReached
<1>4. shown \in Shown /\ Truthful(r, shown, job.target)
  BY <1>1, <1>2, <1>3 DEF Shown, Truthful
<1> HIDE DEF shown
<1>5. job' = [request |-> job.request, phase |-> "writing", target |-> job.target,
              start |-> job.start, view |-> job.view, shown |-> shown, part |-> 1]
  BY <1>1, JobFields
<1>6. job' \in Jobs
  BY <1>4, <1>5, JobFields DEF Jobs, CapturePhases, Reached, Framing
<1>7. CaptureTypes'
  BY <1>1, <1>5, <1>6 DEF CaptureInvariant, CaptureTypes
<1>8. Planned(job.request, job.phase, job.target, job.view, Taken(records))'
  <2>1. Planned(r, "writing", job.target, job.view, Taken(records))
    BY <1>2 DEF Planned, Ahead, Reached, Framing, Closing
  <2> QED
    BY <1>1, <1>5, <2>1 DEF Planned, Taken, Targets, ViewAt
<1>9. StagesReached'
  <2>1. Truthful(job.request, job.shown, job.target)'
    BY <1>4, <1>5 DEF Truthful, StageAt, ViewAt
  <2> QED
    BY <1>1, <1>4, <1>5, <2>1 DEF CaptureInvariant, StagesReached
<1>10. FilesKept' /\ Recorded(job.request, records)'
  BY <1>1, <1>5, FilesStay, RecordsStay
<1>11. GateKept'
  BY <1>1, <1>5, GoesOnOpened, GateStays DEF Reached, Framing
<1> QED
  BY <1>5, <1>7, <1>8, <1>9, <1>10, <1>11 DEF CaptureInvariant

\* The next frame has a name.
LEMMA FrameHasName ==
  ASSUME CaptureInvariant, job.phase \in {"writing", "reading"}, NEW p \in PartNames
  PROVE  <<FrameIndex, p>> \in Names
<1> DEFINE r == job.request
           T == Taken(records)
<1>1. /\ job.target \in r.frames /\ T = Before(r.frames, job.target)
      /\ Len(records) = Cardinality(T)
  BY DEF CaptureInvariant, Planned, Reached, Framing, Recorded
<1>2. /\ IsFiniteSet(r.frames) /\ Cardinality(r.frames) <= MaxFrames
      /\ r.frames \subseteq Nat /\ MaxFrames \in Nat
  BY JobFields, CaptureAssumption DEF Requests, CaptureAssumption
<1>3. T \subseteq r.frames /\ job.target \notin T /\ T \cup {job.target} \subseteq r.frames
  BY <1>1, <1>2 DEF Before
<1> HIDE DEF T
<1>4. IsFiniteSet(T) /\ Cardinality(T) \in Nat /\ Cardinality(r.frames) \in Nat
  BY <1>2, <1>3, FS_Subset, FS_CardinalityType
<1>5. Cardinality(T \cup {job.target}) = Cardinality(T) + 1
  BY <1>3, <1>4, FS_AddElement
<1>6. Cardinality(T \cup {job.target}) <= Cardinality(r.frames)
  BY <1>2, <1>3, FS_Subset
<1>7. FrameIndex \in 1 .. MaxFrames
  BY <1>1, <1>2, <1>4, <1>5, <1>6 DEF FrameIndex
<1> QED
  BY <1>7 DEF Names, Artifacts, PartNames

LEMMA PartNumbers ==
  ASSUME NEW native
  PROVE  /\ \A i \in 1 .. Len(Parts(native)) : Parts(native)[i] \in PartNames
         /\ ToSet(Parts(native)) \subseteq PartNames
<1>1. \/ Parts(native) = <<"text", "ansi", "html">>
      \/ Parts(native) = <<"text", "svg">>
  BY DEF Parts
<1>2. \A x \in ToSet(Parts(native)) : x \in PartNames
  BY <1>1 DEF ToSet, PartNames
<1> QED
  BY <1>1, <1>2 DEF PartNames

LEMMA WriteStep ==
  ASSUME CaptureInvariant, WritePart
  PROVE  CaptureInvariant'
<1> DEFINE part == PartName
<1>1. /\ job.phase = "writing" /\ files[part] = "absent"
      /\ files' = [files EXCEPT ![part] = "ours"]
      /\ UNCHANGED <<records, strangers, terminal, elapsed, signal>>
      /\ \/ job' = [job EXCEPT !.phase = "reading"]
         \/ job' = [job EXCEPT !.part = @ + 1]
  BY DEF WritePart, CanCreate, Request
<1>2. part \notin {Gate, Temporary, Manifest}
  <2>1. Len(records) \in Nat
    BY DEF CaptureInvariant, CaptureTypes
  <2>2. FrameIndex # 0
    BY <2>1 DEF FrameIndex
  <2> QED
    BY <2>2 DEF PartName, Gate, Temporary, Manifest
<1> HIDE DEF part
<1>3. PICK phase \in {"writing", "reading"}, number \in Nat :
        job' = [request |-> job.request, phase |-> phase, target |-> job.target,
                start |-> job.start, view |-> job.view, shown |-> job.shown, part |-> number]
  <2>1. job.part + 1 \in Nat /\ job.part \in Nat
    BY JobFields
  <2> QED
    BY <1>1, <2>1, JobFields
<1>4. job' \in Jobs
  BY <1>3, JobFields DEF Jobs, CapturePhases, Reached, Framing
<1>5. CaptureTypes'
  BY <1>1, <1>3, <1>4 DEF CaptureInvariant, CaptureTypes, FileStates
<1>6. Planned(job.request, job.phase, job.target, job.view, Taken(records))'
  <2>1. Planned(job.request, phase, job.target, job.view, Taken(records))
    BY <1>1 DEF CaptureInvariant, Planned, Ahead, Reached, Framing, Closing
  <2> QED
    BY <1>1, <1>3, <2>1 DEF Planned, Taken, Targets, ViewAt
<1>7. StagesReached'
  <2>1. Truthful(job.request, job.shown, job.target)'
    BY <1>1, <1>3 DEF CaptureInvariant, StagesReached, Truthful, StageAt, ViewAt
  <2> QED
    BY <1>1, <1>3, <2>1 DEF CaptureInvariant, StagesReached
<1>8. FilesKept'
  <2>1. Manifest \in Names /\ Temporary \in Names /\ Gate \in Names
    BY DEF Names, Manifest, Temporary, Gate
  <2>2. \A x \in Names : x # part => files'[x] = files[x]
    BY <1>1 DEF CaptureInvariant, CaptureTypes
  <2>3. \A x \in strangers.made : x \in Names /\ files[x] = "theirs" /\ x # part
    BY <1>1 DEF CaptureInvariant, CaptureTypes, FilesKept
  <2> QED
    BY <1>1, <1>2, <1>3, <2>1, <2>2, <2>3 DEF CaptureInvariant, FilesKept
<1>9. Recorded(job.request, records)'
  BY <1>1, <1>3, RecordsStay
<1>10. GateKept'
  <2>1. files'[Gate] = files[Gate]
    BY <1>1, <1>2 DEF CaptureInvariant, CaptureTypes, Names, Gate
  <2> QED
    BY <1>1, <1>3, <2>1, GoesOnOpened, GateStays DEF Reached, Framing
<1> QED
  BY <1>3, <1>5, <1>6, <1>7, <1>8, <1>9, <1>10 DEF CaptureInvariant

\* The frame of the target joins those before it.
LEMMA ReadStep ==
  ASSUME CaptureInvariant, ReadBack
  PROVE  CaptureInvariant'
<1> DEFINE r == job.request
           parts == ToSet(Parts(r.native))
           frame == [at |-> job.target, shown |-> job.shown, view |-> job.view,
                     digests |-> [p \in parts |-> files[<<FrameIndex, p>>]]]
<1>1. /\ job.phase = "reading" /\ records' = Append(records, frame) /\ NextTarget
      /\ UNCHANGED <<files, strangers, terminal, elapsed, signal>>
  BY DEF ReadBack, Request, Target
<1>2. /\ job.target \in Targets(r) /\ Taken(records) = Before(r.frames, job.target)
      /\ job.view = ViewAt(r, job.target) /\ job.target \in r.frames
      /\ job.view \in {0, 1} /\ job.target \in Nat /\ r \in Requests
      /\ IsFiniteSet(r.frames)
      /\ job.shown \in Shown /\ Truthful(r, job.shown, job.target)
  BY <1>1, JobFields DEF CaptureInvariant, Planned, Reached, Framing, StagesReached
<1>3. frame \in Frames
  <2>1. parts \subseteq PartNames
    BY PartNumbers
  <2>2. \A p \in parts : files[<<FrameIndex, p>>] \in FileStates
    BY <1>1, <2>1, FrameHasName DEF CaptureInvariant, CaptureTypes
  <2> DEFINE D == [p \in parts |-> files[<<FrameIndex, p>>]]
  <2>3. D \in [parts -> FileStates]
    BY <2>2
  <2> HIDE DEF D, parts
  <2>4. D \in UNION {[ps -> FileStates] : ps \in SUBSET PartNames}
    BY <2>1, <2>3
  <2> QED
    BY <1>2, <2>4 DEF Frames, D
<1>4. frame.at = job.target /\ frame.shown = job.shown
  OBVIOUS
<1> HIDE DEF frame
<1>5. /\ records \in Seq(Frames) /\ records' \in Seq(Frames)
      /\ Len(records') = Len(records) + 1 /\ Len(records) \in Nat
      /\ DOMAIN records = 1 .. Len(records) /\ DOMAIN records' = 1 .. Len(records) + 1
      /\ \A i \in 1 .. Len(records) : records'[i] = records[i]
      /\ records'[Len(records) + 1] = frame
  BY <1>1, <1>3 DEF CaptureInvariant, CaptureTypes
<1>6. Taken(records') = Taken(records) \cup {job.target}
  <2>1. \A i \in DOMAIN records' : i \in DOMAIN records \/ i = Len(records) + 1
    BY <1>5
  <2>2. \A t \in Taken(records') : t \in Taken(records) \cup {job.target}
    BY <1>4, <1>5, <2>1 DEF Taken
  <2>3. \A t \in Taken(records) : t \in Taken(records')
    BY <1>5 DEF Taken
  <2>4. Len(records) + 1 \in DOMAIN records'
    BY <1>5
  <2>5. job.target \in Taken(records')
    BY <1>4, <1>5, <2>4 DEF Taken
  <2> QED
    BY <2>2, <2>3, <2>5
<1>7. Taken(records') = UpTo(r.frames, job.target)
  BY <1>2, <1>6 DEF Before, UpTo, Requests
<1>8. /\ job' \in Jobs /\ job'.request = r /\ job'.phase \in {"manifest", "waiting"}
      /\ Planned(job'.request, job'.phase, job'.target, job'.view, Taken(records'))
  <2>1. \/ Later = {} /\ job' = [job EXCEPT !.view = job.view, !.phase = "manifest"]
        \/ Later # {} /\ job' = [job EXCEPT !.view = job.view, !.phase = "waiting",
                                            !.target = Min(Later)]
    <3> DEFINE next == Min(Later)
    <3> HIDE DEF next
    <3>1. /\ [job EXCEPT !.phase = "waiting", !.target = next]
               = [job EXCEPT !.view = job.view, !.phase = "waiting", !.target = next]
          /\ [job EXCEPT !.phase = "manifest"]
               = [job EXCEPT !.view = job.view, !.phase = "manifest"]
      BY JobFields
    <3> QED
      BY <1>1, <3>1 DEF next, NextTarget
  <2> QED
    BY <1>1, <1>2, <1>7, <2>1, TargetDone
<1>9. CaptureTypes'
  BY <1>1, <1>2, <1>5, <1>8, JobFields DEF CaptureInvariant, CaptureTypes
<1>10. Recorded(job.request, records)'
  <2>1. \A i \in DOMAIN records : records[i].at \in Nat /\ records[i].at < job.target
    BY <1>2 DEF Taken, Before, Requests
  <2>2. ASSUME NEW i \in DOMAIN records', NEW j \in DOMAIN records', i < j
        PROVE  records'[i].at < records'[j].at
    <3>1. i \in DOMAIN records /\ (j \in DOMAIN records \/ j = Len(records) + 1)
      BY <1>5, <2>2
    <3> QED
      BY <1>4, <1>5, <2>1, <2>2, <3>1 DEF CaptureInvariant, Recorded
  <2>3. ASSUME NEW i \in DOMAIN records'
        PROVE  Truthful(r, records'[i].shown, records'[i].at)
    <3>1. i \in DOMAIN records \/ i = Len(records) + 1
      BY <1>5
    <3> QED
      BY <1>2, <1>4, <1>5, <3>1 DEF CaptureInvariant, Recorded
  <2>4. Len(records') = Cardinality(Taken(records'))
    <3> DEFINE T == Taken(records)
    <3>1. T \subseteq r.frames /\ job.target \notin T
      BY <1>2 DEF Before, Requests
    <3> HIDE DEF T
    <3>2. IsFiniteSet(T)
      BY <1>2, <3>1, FS_Subset
    <3>3. Cardinality(T \cup {job.target}) = Cardinality(T) + 1
      BY <3>1, <3>2, FS_AddElement
    <3> QED
      BY <1>5, <1>6, <3>3 DEF CaptureInvariant, Recorded, T
  <2> QED
    BY <1>8, <2>2, <2>3, <2>4 DEF Recorded, Truthful, ViewAt, StageAt, Taken
<1>11. StagesReached' /\ FilesKept'
  BY <1>1, <1>8, StagesStay, FilesStay
<1>12. GateKept'
  BY <1>1, <1>8, GoesOnOpened, GateStays DEF Reached, Framing, Closing
<1> QED
  BY <1>8, <1>9, <1>10, <1>11, <1>12 DEF CaptureInvariant, Taken

\* The manifest is published when every artifact was found as it was digested.
LEMMA ManifestStep ==
  ASSUME CaptureInvariant, WriteTemporary \/ VerifyArtifacts \/ PublishManifest
  PROVE  CaptureInvariant'
<1> DEFINE r == job.request
<1>1. PICK phase \in {"verifying", "publishing", "done"} :
        /\ job' = [job EXCEPT !.phase = phase]
        /\ UNCHANGED <<records, strangers, elapsed, signal>>
        /\ job.phase \in {"manifest", "verifying", "publishing"}
        /\ terminal' = IF phase = "done" THEN [terminal EXCEPT !.running = FALSE] ELSE terminal
        /\ \/ phase = "verifying" /\ files' = [files EXCEPT ![Temporary] = "ours"]
           \/ phase = "publishing" /\ files' = files /\ Unchanged
           \/ /\ phase = "done" /\ job.phase = "publishing" /\ files[Manifest] = "absent"
              /\ files' = [x \in Names |->
                             IF \/ x = Gate /\ Opened
                                \/ x = Temporary /\ [files EXCEPT ![Manifest] = "ours"][x] = "ours"
                             THEN "absent" ELSE [files EXCEPT ![Manifest] = "ours"][x]]
  BY DEF WriteTemporary, VerifyArtifacts, PublishManifest, CleanedUp, Goto, CanCreate
<1>2. phase \in CapturePhases
  BY DEF CapturePhases, Closing
<1>3. /\ job'.request = r /\ job'.phase = phase /\ job'.target = job.target
      /\ job'.view = job.view /\ job' \in Jobs
  BY <1>1, <1>2, PhaseMoves
<1>4. /\ Gate \in Names /\ Temporary \in Names /\ Manifest \in Names
      /\ Gate # Temporary /\ Manifest # Gate /\ Manifest # Temporary
      /\ \A i \in Nat \ {0} : \A p : <<i, p>> \notin {Gate, Temporary, Manifest}
  BY DEF Names, Gate, Temporary, Manifest
<1>5. /\ files \in [Names -> FileStates] /\ strangers.made \subseteq Names
      /\ files[Manifest] # "ours" /\ files[Temporary] \in {"absent", "ours"}
      /\ \A x \in strangers.made : files[x] = "theirs" /\ ~(x = Gate /\ Opened)
      /\ files[Gate] = "ours" => Opened
  BY <1>1 DEF CaptureInvariant, CaptureTypes, FilesKept, GateKept
<1>6. /\ files' \in [Names -> FileStates]
      /\ \A x \in Names \ {Gate, Temporary, Manifest} : files'[x] = files[x]
      /\ \A x \in strangers.made : files'[x] = "theirs"
      /\ phase # "done" => files'[Manifest] = files[Manifest] /\ files'[Gate] = files[Gate]
      /\ files'[Temporary] \in {"absent", "ours"}
      /\ phase = "done" => files'[Gate] # "ours" /\ files'[Temporary] = "absent"
  <2>1. CASE phase = "verifying" /\ files' = [files EXCEPT ![Temporary] = "ours"]
    BY <1>4, <1>5, <2>1 DEF FileStates
  <2>2. CASE phase = "publishing" /\ files' = files
    BY <1>4, <1>5, <2>2
  <2>3. CASE phase = "done"
    <3> DEFINE made == [files EXCEPT ![Manifest] = "ours"]
    <3>1. /\ made \in [Names -> FileStates] /\ made[Manifest] = "ours"
          /\ \A x \in Names : x # Manifest => made[x] = files[x]
      BY <1>4, <1>5 DEF FileStates
    <3>2. files' = [x \in Names |->
                      IF (x = Gate /\ Opened) \/ (x = Temporary /\ made[x] = "ours")
                      THEN "absent" ELSE made[x]]
      BY <1>1, <2>3
    <3>3. files[Manifest] = "absent"
      BY <1>1, <2>3
    <3> HIDE DEF made
    <3>4. \A x \in Names :
            files'[x] = IF (x = Gate /\ Opened) \/ (x = Temporary /\ made[x] = "ours")
                        THEN "absent" ELSE made[x]
      BY <3>2
    <3>5. files' \in [Names -> FileStates]
      BY <3>1, <3>2 DEF FileStates
    <3> QED
      BY <1>4, <1>5, <2>3, <3>1, <3>3, <3>4, <3>5
  <2> QED
    BY <1>1, <2>1, <2>2, <2>3
<1>7. CaptureTypes'
  <2>1. terminal' \in Terminals
    BY <1>1 DEF CaptureInvariant, CaptureTypes, Terminals
  <2> QED
    BY <1>1, <1>3, <1>6, <2>1 DEF CaptureInvariant, CaptureTypes
<1>8. Planned(job.request, job.phase, job.target, job.view, Taken(records))'
  <2>1. Planned(r, phase, job.target, job.view, Taken(records))
    BY <1>1 DEF CaptureInvariant, Planned, Ahead, Reached, Framing, Closing
  <2> QED
    BY <1>1, <1>3, <2>1 DEF Planned, Taken, Targets, ViewAt
<1>9. StagesReached' /\ Recorded(job.request, records)'
  BY <1>1, <1>3, StagesStay, RecordsStay DEF CaptureInvariant, CaptureTypes, Terminals
<1>10. FilesKept'
  <2>1. \A x \in strangers.made : files'[x] = "theirs"
    BY <1>5, <1>6
  <2>2. phase = "done" => ~terminal'.running
    BY <1>1 DEF CaptureInvariant, CaptureTypes, Terminals
  <2>3. ASSUME phase \in {"publishing", "done"}, ~strangers.late,
               NEW i \in DOMAIN records, NEW p \in DOMAIN records[i].digests
        PROVE  files'[<<i, p>>] = records[i].digests[p]
    <3>1. files[<<i, p>>] = records[i].digests[p]
      BY <1>1, <2>3 DEF CaptureInvariant, FilesKept, Unchanged
    <3>2. <<i, p>> \in Names \ {Gate, Temporary, Manifest}
      <4>1. i \in Nat \ {0} /\ i <= Len(records) /\ p \in PartNames
        <5>1. records[i] \in Frames /\ i \in Nat \ {0} /\ i <= Len(records)
          BY <2>3 DEF CaptureInvariant, CaptureTypes
        <5>2. records[i].digests \in UNION {[parts -> FileStates] : parts \in SUBSET PartNames}
          BY <5>1 DEF Frames
        <5>3. PICK parts \in SUBSET PartNames : records[i].digests \in [parts -> FileStates]
          BY <5>2
        <5>4. p \in parts
          BY <2>3, <5>3
        <5> QED
          BY <5>1, <5>3, <5>4
      <4>2. Len(records) <= MaxFrames
        <5>1. Taken(records) = r.frames
          BY <1>1 DEF CaptureInvariant, Planned, Closing
        <5> QED
          BY <1>1, <5>1, JobFields DEF CaptureInvariant, Recorded
      <4>3. i \in 1 .. MaxFrames
        BY <4>1, <4>2, CaptureAssumption DEF CaptureInvariant, CaptureTypes, CaptureAssumption
      <4>4. <<i, p>> \in Names
        BY <4>1, <4>3 DEF Names, Artifacts, PartNames
      <4> QED
        BY <1>4, <4>1, <4>4
    <3> QED
      BY <1>6, <3>1, <3>2
  <2>4. files'[Manifest] = "ours" => phase = "done"
    BY <1>5, <1>6
  <2> QED
    BY <1>1, <1>3, <1>6, <2>1, <2>2, <2>3, <2>4 DEF FilesKept
<1>11. GateKept'
  <2>1. CASE phase = "done"
    BY <1>3, <1>6, <2>1 DEF GateKept, Opened, Working
  <2>2. CASE phase # "done"
    BY <1>1, <1>3, <1>6, <2>2, GoesOnOpened, GateStays DEF Closing
  <2> QED
    BY <2>1, <2>2
<1> QED
  BY <1>1, <1>3, <1>7, <1>8, <1>9, <1>10, <1>11 DEF CaptureInvariant

LEMMA CaptureStep ==
  ASSUME CaptureInvariant, [CaptureNext]_captureVars
  PROVE  CaptureInvariant'
<1>1. CASE UNCHANGED captureVars
  <2>1. UNCHANGED <<job, records, files, strangers, terminal, elapsed, signal>>
    BY <1>1 DEF captureVars
  <2>2. CaptureTypes' /\ FilesKept' /\ GateKept' /\ Recorded(job.request, records)'
    BY <2>1, RecordsStay DEF CaptureInvariant, CaptureTypes, FilesKept, GateKept, Opened,
                             Request, Working
  <2>3. Planned(job.request, job.phase, job.target, job.view, Taken(records))'
    BY <2>1 DEF CaptureInvariant, Planned, Taken, ViewAt, Targets
  <2>4. ChildStage' = ChildStage
    BY <2>1 DEF ChildStage, Request, StageAt
  <2>5. StagesReached'
    BY <2>1, <2>4 DEF CaptureInvariant, StagesReached, Truthful, ViewAt, StageAt
  <2> QED
    BY <2>1, <2>2, <2>3, <2>5 DEF CaptureInvariant
<1>2. CASE CaptureNext
  BY <1>2, StartStep, ServerStep, ChildStep, SettleStep, EndStep, ReachStep, ShootStep,
     WriteStep, ReadStep, ManifestStep, StrangerStep DEF CaptureNext
<1> QED
  BY <1>1, <1>2

LEMMA CaptureInvariantSuffices == CaptureInvariant => CaptureIsWhole
<1> SUFFICES ASSUME CaptureInvariant PROVE CaptureIsWhole
  OBVIOUS
<1>1. ASSUME files[Manifest] = "ours"
      PROVE  /\ Taken(records) = Request.frames
             /\ \A i, j \in DOMAIN records : i < j => records[i].at < records[j].at
             /\ \A i \in DOMAIN records : Truthful(Request, records[i].shown, records[i].at)
             /\ \A i \in DOMAIN records : \A p \in DOMAIN records[i].digests :
                  strangers.late \/ files[<<i, p>>] = records[i].digests[p]
  BY <1>1 DEF CaptureInvariant, FilesKept, Planned, Closing, Recorded, Request
<1>2. /\ \A x \in strangers.made : files[x] = "theirs"
      /\ job.phase = "failed" => files[Manifest] # "ours"
      /\ job.phase \in {"done", "failed"} =>
           ~terminal.running /\ files[Gate] # "ours" /\ files[Temporary] = "absent"
  BY DEF CaptureInvariant, FilesKept
<1> QED
  BY <1>1, <1>2 DEF CaptureIsWhole, Taken, Truthful
=============================================================================
