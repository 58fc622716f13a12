------------------------------- MODULE History -------------------------------
(***************************************************************************)
(* The path history of a live overview (history.rs, HistorySession): a     *)
(* log of records on disk, the process that reads it when it starts and    *)
(* adds to it once per path generation, and crashes at any point.          *)
(*                                                                         *)
(* What precedes the history is LiveApp: an update is applied first and,   *)
(* if it was admitted, shown to the session (main.rs,                      *)
(* apply_monitor_update).  The monitor is reduced to what Session shows of *)
(* it: links arrive in order, one generation per fingerprint, and results  *)
(* of workers arrive any time later, tagged with the generation of their   *)
(* launch but read from whatever network the host was on by then.          *)
(*                                                                         *)
(* A second process that uses the same log is reduced to what it does to   *)
(* the file.  Netbraid's append is taken to add one record at the end of a *)
(* log it can parse and to refuse any other.                               *)
(***************************************************************************)
EXTENDS LiveApp, HostPath

CONSTANTS
  ThisHost,       \* the observer of this host's records
  WifiInterfaces, \* the interfaces whose link_type is "wifi"
  RouterOf,       \* the link address of the gateway of every network
  OsLinks,        \* the networks the host can be on
  InitialFiles,   \* the logs a first process may find
  MaxLives,       \* bound: processes of this host, one after the other
  MaxGeneration,  \* bound: path generations of one process
  MaxTime,        \* bound: the clock readings in use
  MaxRecords      \* bound: complete records in the log

ASSUME HostAssumption ==
  /\ ThisHost \in Observers
  /\ OsLinks \subseteq Link
  /\ RouterOf \in [OsLinks -> Macs]

ASSUME CountsAssumption ==
  /\ MaxLives \in Nat
  /\ MaxGeneration \in Nat
  /\ MaxTime \in Nat
  /\ MaxRecords \in Nat

ASSUME NoneIsNoNumber == NONE \notin Nat

VARIABLES
  file,      \* the log: its complete records and what state it is in
  lives,     \* processes started so far; the last one's number is its pid
  running,   \* whether the last one still runs
  session,   \* its HistorySession
  app,       \* its App
  neighbor,  \* an entry in App.peers, the one for the gateway if there is one
  context    \* App.history_context, its kind

vars == <<file, lives, running, session, app, neighbor, context>>

\* "torn": an unterminated fragment follows the records.  "malformed": some
\* line is not a record.
FileStates == {"absent", "good", "torn", "malformed"}

File == [state : FileStates, records : Seq(Observation)]

\* What a first process finds was written by others, pid 0.
ASSUME InitialFilesAssumption ==
  \A f \in InitialFiles :
    /\ f \in File
    /\ \A i \in DOMAIN f.records : f.records[i].pid = 0

HistorySession ==
  [records             : Seq(Observation),
   recorded_generation : Nat \cup {NONE},
   writable            : BOOLEAN,
   recovered_tail      : BOOLEAN]

NoSession ==
  [records |-> <<>>, recorded_generation |-> NONE, writable |-> FALSE,
   recovered_tail |-> FALSE]

\* HistoryContextKind.
Assessments ==
  {"FirstObservation", "Recurring", "Compatible", "Changed", "Returned"}

Contexts ==
  {"Configured", "Loaded", "Unavailable", "AppendFailed"} \cup Assessments

\* An entry of the neighbour cache; conflict is binding_conflict.
Neighbor ==
  [address : Gateways, interface : Interfaces, mac : Macs, conflict : BOOLEAN]

Times == 1 .. MaxTime

-----------------------------------------------------------------------------
\* HistorySession::open, and the context it shows until the first assessment.
Open(f) ==
  [records |-> IF f.state = "malformed" THEN <<>> ELSE Replay(f.records),
   recorded_generation |-> NONE,
   writable            |-> f.state \in {"absent", "good"},
   recovered_tail      |-> f.state = "torn"]

InitialContext(f) ==
  CASE f.state = "absent"              -> "Configured"
    [] f.state = "good"                -> "Loaded"
    [] f.state \in {"torn", "malformed"} -> "Unavailable"

\* append_jsonl: the file with one more record.
AppendJsonl(f, record) ==
  [state |-> "good", records |-> Append(f.records, record)]

Appendable(f) == f.state \in {"absent", "good"}

\* What an append that does not finish may leave, besides the log as it was
\* and the log with its record: the file it created, or a fragment.
Touched(f) == [state |-> "good", records |-> f.records]
Torn(f) == [state |-> "torn", records |-> f.records]
Unfinished(f, record) == {Touched(f), Torn(f), AppendJsonl(f, record)}

\* Fault: any entry on the interface will do.
NextHopLinkAddress_AnyAddress(link, entry) ==
  IF /\ link.gateway # NONE
     /\ entry # NONE
     /\ entry.interface = link.interface
     /\ ~entry.conflict
  THEN entry.mac
  ELSE NONE

\* The link address under which the neighbour cache knows the next hop.
NextHopLinkAddress(link, entry) ==
  IF /\ link.gateway # NONE
     /\ entry # NONE
     /\ entry.address = link.gateway
     /\ entry.interface = link.interface
     /\ ~entry.conflict
  THEN entry.mac
  ELSE NONE

\* Fault: a record carries the number of the generation recorded before.
Observed_Previous(a, entry, time) ==
  [observer   |-> ThisHost,
   time       |-> time,
   pid        |-> lives,
   generation |-> session.recorded_generation,
   path       |-> [interface |-> a.link.interface,
                   ssid      |-> a.ssid,
                   gateway   |-> a.link.gateway,
                   mac       |-> NextHopLinkAddress(a.link, entry),
                   resolvers |-> a.link.resolvers]]

\* observation_from_app
Observed(a, entry, time) ==
  [observer   |-> ThisHost,
   time       |-> time,
   pid        |-> lives,
   generation |-> a.path_generation,
   path       |-> [interface |-> a.link.interface,
                   ssid      |-> a.ssid,
                   gateway   |-> a.link.gateway,
                   mac       |-> NextHopLinkAddress(a.link, entry),
                   resolvers |-> a.link.resolvers]]

\* Fault: only a neighbour snapshot completes a context.
ContextComplete_PeersLast(u, a) ==
  /\ u.type = "Collected" /\ u.slot = "Peers"
  /\ u.generation = a.path_generation
  /\ a.link.interface \in WifiInterfaces => a.evidence["Wifi"] # NONE

\* update_completes_context
ContextComplete(u, a) ==
  /\ u.generation = a.path_generation
  /\ a.link.interface \in WifiInterfaces => a.evidence["Wifi"] # NONE
  /\ a.evidence["Peers"] # NONE

\* Fault: a complete context is assessed again by every update.
Assesses_Again(u, a) ==
  /\ ContextComplete(u, a)
  /\ a.link.interface # NONE
  /\ session.writable \/ session.recovered_tail

\* The early returns of observe_update.
Assesses(u, a) ==
  /\ session.recorded_generation # a.path_generation
  /\ ContextComplete(u, a)
  /\ a.link.interface # NONE
  /\ session.writable \/ session.recovered_tail

-----------------------------------------------------------------------------
(***************************************************************************)
(* What the monitor sends.                                                 *)
(***************************************************************************)
Links ==
  {LinkUpdate(app.path_generation, link) : link \in
     {l \in OsLinks : app.link # NONE /\ Fingerprint(l) = Fingerprint(app.link)}}
    \cup
  {LinkUpdate(app.path_generation + 1, link) : link \in
     {l \in OsLinks :
        /\ app.path_generation < MaxGeneration
        /\ app.link # NONE => Fingerprint(l) # Fingerprint(app.link)}}

\* Of the current path, or of the one before.
LaunchedOn ==
  {<<app.path_generation, Fingerprint(app.link)>> : x \in {app.link} \ {NONE}}
    \cup
  {<<d.generation, d.path>> : d \in
     {app.completed_path_dwells[i] : i \in DOMAIN app.completed_path_dwells}}

Collections ==
  {CollectedUpdate(l[1], c, l[2], NONE) : l \in LaunchedOn, c \in Collectors}
    \cup
  {CollectedUpdate(l[1], c, l[2], n) :
     l \in LaunchedOn, c \in Collectors \cap {"Wifi"}, n \in Names}

Updates ==
  Links \cup Collections
    \cup {SettlingUpdate(app.path_generation) : x \in {app.link} \ {NONE}}

\* What a neighbour cache says of the gateway of a network.  Of an address
\* with two answers, a conflict, it holds the one that is not the gateway's.
OfGateways ==
  UNION {{e \in Neighbor :
            /\ e.address = l.gateway
            /\ e.interface = l.interface
            /\ e.conflict <=> e.mac # RouterOf[l]} :
         l \in {l \in OsLinks : l.gateway # NONE}}

\* What it says of machines that are no network's gateway.
OfOthers ==
  {e \in Neighbor :
     /\ \A l \in OsLinks : e.address # l.gateway /\ e.mac # RouterOf[l]
     /\ ~e.conflict}

\* A cache that knows the gateway, that only knows another machine, or neither.
Neighbors == {NONE} \cup OfGateways \cup OfOthers

-----------------------------------------------------------------------------
Init ==
  /\ file \in InitialFiles
  /\ lives = 0
  /\ running = FALSE
  /\ session = NoSession
  /\ app = NewApp("passive")
  /\ neighbor = NONE
  /\ context = NONE

\* The process starts, opens the log and attaches it.
Start ==
  /\ ~running
  /\ running' = TRUE
  /\ lives < MaxLives
  /\ lives' = lives + 1
  /\ session' = Open(file)
  /\ context' = InitialContext(file)
  /\ UNCHANGED <<file, app, neighbor>>

\* App.peers after an update: a new generation forgets them.
NeighborAfter(u, entry) ==
  CASE u.type = "Collected" /\ u.slot = "Peers" -> entry
    [] u.type = "Link" /\ u.generation > app.path_generation -> NONE
    [] OTHER -> neighbor

\* The App's part of an update.
Admit(u, entry) ==
  /\ running
  /\ app' = Apply(app, u)
  /\ neighbor' = IF AcceptsUpdate(app, u) THEN NeighborAfter(u, entry) ELSE neighbor

\* The update is not shown to the session, or the session returns early.
ReceiveOnly(u, entry) ==
  /\ Admit(u, entry)
  /\ ~(AcceptsUpdate(app, u) /\ Assesses(u, app'))
  /\ UNCHANGED <<file, lives, running, session, context>>

\* The session has a complete context to assess.
Complete(u, entry) ==
  /\ Admit(u, entry)
  /\ AcceptsUpdate(app, u)
  /\ Assesses(u, app')

\* The prefix of an interrupted log: compared with, never added to.
AssessPrefix(u, entry) ==
  /\ Complete(u, entry)
  /\ session.recovered_tail
  /\ session' = [session EXCEPT !.recorded_generation = app'.path_generation]
  /\ context' = "Unavailable"
  /\ UNCHANGED <<file, lives, running>>

\* The clock may have been set back since the last record.
Readings == {t \in Times : \A i \in DOMAIN file.records : file.records[i].time # t}

\* Fault: the generation is not marked as recorded.
Record_Unmarked(u, entry) ==
  /\ Complete(u, entry)
  /\ ~session.recovered_tail
  /\ Appendable(file)
  /\ Len(file.records) < MaxRecords
  /\ \E t \in Readings :
       LET record == Observed(app', neighbor', t) IN
       /\ file' = AppendJsonl(file, record)
       /\ session' = [session EXCEPT !.records = Append(@, record)]
       /\ context' = Summarize(session.records, record)
  /\ UNCHANGED <<lives, running>>

Record(u, entry) ==
  /\ Complete(u, entry)
  /\ ~session.recovered_tail
  /\ Appendable(file)
  /\ Len(file.records) < MaxRecords
  /\ \E t \in Readings :
       LET record == Observed(app', neighbor', t) IN
       /\ file' = AppendJsonl(file, record)
       /\ session' = [session EXCEPT
                        !.recorded_generation = app'.path_generation,
                        !.records = Append(@, record)]
       /\ context' = Summarize(session.records, record)
  /\ UNCHANGED <<lives, running>>

\* What an append that fails leaves of a record: of an error only the process
\* knows, and an error may come after some of it was written, or all of it.
Leftovers(a, entry) ==
  {file} \cup
  UNION {Unfinished(file, Observed(a, entry, t)) :
           t \in {t \in Readings : Appendable(file) /\ Len(file.records) < MaxRecords}}

\* Fault: a record is remembered although it could not be written.
RecordFails_Remembered(u, entry) ==
  /\ Complete(u, entry)
  /\ ~session.recovered_tail
  /\ \E t \in Readings :
       session' = [session EXCEPT
                     !.writable = FALSE,
                     !.records = Append(@, Observed(app', neighbor', t))]
  /\ file' \in Leftovers(app', neighbor')
  /\ context' = "AppendFailed"
  /\ UNCHANGED <<lives, running>>

\* The file cannot be written, or not to the end, or someone else tore it
\* meanwhile.
RecordFails(u, entry) ==
  /\ Complete(u, entry)
  /\ ~session.recovered_tail
  /\ file' \in Leftovers(app', neighbor')
  /\ session' = [session EXCEPT !.writable = FALSE]
  /\ context' = "AppendFailed"
  /\ UNCHANGED <<lives, running>>

Receive ==
  \E u \in Updates, entry \in Neighbors :
    /\ entry = NONE \/ (u.type = "Collected" /\ u.slot = "Peers")
    /\ \/ ReceiveOnly(u, entry)
       \/ AssessPrefix(u, entry)
       \/ Record(u, entry)
       \/ RecordFails(u, entry)

\* Nothing of a process is left but the log.
Gone ==
  /\ running' = FALSE
  /\ session' = NoSession
  /\ app' = NewApp("passive")
  /\ neighbor' = NONE
  /\ context' = NONE

\* The process dies while it appends.
DieInAppend(u, entry) ==
  /\ running
  /\ AcceptsUpdate(app, u)
  /\ Assesses(u, Apply(app, u))
  /\ ~session.recovered_tail
  /\ Appendable(file)
  /\ Len(file.records) < MaxRecords
  /\ \E t \in Readings :
       file' \in Unfinished(file, Observed(Apply(app, u), NeighborAfter(u, entry), t))
  /\ Gone
  /\ UNCHANGED lives

\* The process quits, or dies between two updates.
End ==
  /\ running
  /\ Gone
  /\ UNCHANGED <<file, lives>>

\* Another process with the same log records a network of the host, or dies
\* doing so.
OtherWrites ==
  /\ Appendable(file)
  /\ Len(file.records) < MaxRecords
  /\ \E t \in Readings, l \in {l \in OsLinks : l.gateway # NONE} :
       file' \in
         {Torn(file),
          AppendJsonl(file,
            [observer |-> ThisHost, time |-> t, pid |-> 0, generation |-> 1,
             path |-> [interface |-> l.interface, ssid |-> l.ssid,
                       gateway |-> l.gateway, mac |-> RouterOf[l],
                       resolvers |-> l.resolvers]])}
  /\ UNCHANGED <<lives, running, session, app, neighbor, context>>

Next ==
  \/ Start
  \/ Receive
  \/ \E u \in Updates, entry \in Neighbors :
       /\ entry = NONE \/ (u.type = "Collected" /\ u.slot = "Peers")
       /\ DieInAppend(u, entry)
  \/ End
  \/ OtherWrites

Spec == Init /\ [][Next]_vars

-----------------------------------------------------------------------------
(***************************************************************************)
(* Properties.                                                             *)
(***************************************************************************)
Logged == {file.records[i] : i \in DOMAIN file.records}

Remembered == {session.records[i] : i \in DOMAIN session.records}

HistoryTypeOK ==
  /\ file \in [state : FileStates, records : Seq(Observation)]
  /\ lives \in 0 .. MaxLives
  /\ running \in BOOLEAN
  /\ session \in HistorySession
  /\ app \in App
  /\ neighbor \in Neighbor \cup {NONE}
  /\ context \in Contexts \cup {NONE}

\* What the running process compares a context with was really logged, whatever
\* append failed; and as long as none has, everything it logged itself is among it.
MemoryIsLogged ==
  running =>
    /\ Remembered \subseteq Logged
    /\ session.writable => {r \in Logged : r.pid = lives} \subseteq Remembered

\* A process records a path generation at most once: of the parts of a
\* record_id only the time would tell a second record from the first.
OncePerGeneration ==
  \A i, j \in DOMAIN file.records :
    /\ file.records[i].pid > 0
    /\ file.records[i].pid = file.records[j].pid
    /\ file.records[i].generation = file.records[j].generation
    => i = j

\* Why: a process numbers what it logs upwards, along with its path
\* generations, and adds nothing after an append that failed; and pids are not
\* reused.
RecordsNumbered ==
  /\ \A i \in DOMAIN file.records : file.records[i].pid <= lives
  /\ running =>
       /\ \A i \in DOMAIN file.records :
            file.records[i].pid = lives =>
              /\ file.records[i].generation <= app.path_generation
              /\ session.writable =>
                   /\ session.recorded_generation # NONE
                   /\ file.records[i].generation <= session.recorded_generation
       /\ session.recorded_generation # NONE =>
            session.recorded_generation <= app.path_generation

\* As soon as Wi-Fi (if it applies) and neighbours have answered, in whatever
\* order, with links and late answers between, the generation is recorded
\* (or, on an interrupted log, compared): no such path goes unassessed.
CompleteIsRecorded ==
  /\ running
  /\ session.writable \/ session.recovered_tail
  /\ app.link # NONE
  /\ app.link.interface # NONE
  /\ app.evidence["Peers"] # NONE
  /\ app.link.interface \in WifiInterfaces => app.evidence["Wifi"] # NONE
  => session.recorded_generation = app.path_generation

\* A record is identified by the link address of a router that has the gateway's
\* address on the interface of the record, although the cache may have been read
\* on the next network: no other machine's, and none that two answered for.  It
\* need not be the router of the recorded network: another one that gives its
\* gateway the same address can have answered.
AnchorAnswersForGateway ==
  \A r \in Logged :
    r.pid > 0 /\ r.path.mac # NONE =>
      \E l \in OsLinks :
        /\ l.interface = r.path.interface
        /\ l.gateway = r.path.gateway
        /\ r.path.mac = RouterOf[l]

\* The history context on display is about the current path.
HistoryFenced ==
  running /\ context \in Assessments =>
    session.recorded_generation = app.path_generation
=============================================================================
