# Linktop in TLA+

Specifications of linktop: its live session, its path history, the neighbour
table, and the commands that run once; the TLC runs that check them on small
hosts, and TLAPS proofs for any host. Line numbers refer to the source tree
beside this directory.

## 1. The system

Linktop shows which network path a host is using, and what is known about it.
One process; its parts:

| Part | State | Operations | Hard behaviour |
| --- | --- | --- | --- |
| Monitor loop (`net.rs`, `monitor_loop`) | pause, policy, probe epoch, pending flags, last starts, current link, generation, two gap timers | drain controls, observe and number the link, launch workers, interruptible wait | two readings in one turn; holds across turns and pauses; busy slots |
| Workers (`net.rs`, `spawn_*`) | one in-flight flag per kind; generation, link and epoch captured at launch | run, check the epoch, send, free the slot | late answers, epoch moved between check and send |
| App (`model.rs`) | link, generation, probe views, collector snapshots, sample windows, open dwell, 8 completed dwells, 64 events | `apply_at`, `set_paused`, `set_probe_policy`, projections | admission of late updates, what a switch must reset |
| Session (`main.rs`, `run_tui`, `run_plain`, `run_jsonl`) | both channel ends, view, peer selection | receive, keys, quit, dwell deadline | keys change the App now and the monitor later |
| Assessment (`model.rs`) | none | situation, coverage, progress, final projection | precedence of verdicts, unknown vs. unavailable |
| Dwells (`model.rs`) | per peer and per collector accumulators, retained windows | peer snapshots, counter samples, path switch | incomplete snapshots, counter resets, eviction |
| History (`history.rs`) | append-only log, in-memory records, writable flag | open, observe, append, episodes | torn tails, crash between steps, append failure |
| Capsule (`capsule.rs`) | a directory | pack, verify | crash and concurrent change between steps |
| Bounded commands (`process.rs`) | child, two readers, a callback | run, drain, kill | one deadline shared by several waits |
| One-shot reports (`net.rs`, `output.rs`, `main.rs`) | results so far | collect under a deadline, document, text, exit status | partial results, late and dead probes |
| Machine stream (`output.rs`, `main.rs`) | last material state, sequence | observe, checkpoint, final summary | when a line is due, what the summary closes |
| Plain stream (`plain.rs`, `main.rs`) | the state before an update | lines of an update, final summary | what changes between two updates |
| Views (`ui.rs`) | cursor, order of the table | overview, panels, peer table | panels read the App separately and drop lines |
| Measurements (`net.rs`, `metrics.rs`, `speed.rs`) | lines of a host command | ping, iperf3 between pings, nettop | duplicate, late and first lines |
| Command line (`main.rs`) | none | parse, merge, refuse, dispatch | options accepted and not honoured |
| Capture (`capture.rs`) | scene, replay plan, artifacts | replay, manifest, completion | interrupt, kill, foreign files |
| Review, hardware hints, release scripts | — | text, a table, CI | — |

How they interact: `start_monitor` makes two unbounded channels. The operator's
thread owns the App, receives `MonitorUpdate`s and sends `MonitorControl`s. The
monitor thread owns everything about scheduling; it launches worker threads,
which send into the same update channel. They share with the monitor only the
atomic in-flight flags and the probe epoch. History and the output stream
consume admitted updates on the operator's thread.

What makes it correct, by part. Core: evidence never crosses a path switch; one
number stands for one path; probes respect consent; published paths are real;
nothing due is forgotten; every thread ends. History: each complete generation is
recorded once, and what is remembered was logged. Neighbours: presence, counts and
selection say what the sources said. Streams and views: what the operator is told
is what the evidence supports, in every surface alike. Commands: a report is whole
and honest about what it lacks, a command ends, an artifact that claims to be
complete is. The full list of what is hard to test, with the line where each item
bites, is under `hazards` in `PROJECT.json`.

## 2. Modules

| Module | Models | Note |
| --- | --- | --- |
| `LinkPath` | `LinkSnapshot`, `path_fingerprint`, `collect_light_link`, the two `should_hold_*` | pure operators |
| `LiveApp` | `MonitorUpdate`, `App::accepts_update`, `apply_at`, `set_paused`, `set_probe_policy` | pure operators on the App record |
| `Monitor` | `monitor_loop`, `spawn_*`, and the host it reads | one action per step of the loop and of a worker |
| `Session` | `run_tui`, `apply_tui_key`, the channels; the properties | composes the above |
| `PathFence` | what docs/architecture.md calls path-generation fencing | abstract, implemented by `Session` |
| `HostPath` | the records of a history and `summarize` | pure operators; comparison of contexts is Netbraid's |
| `History` | `HistorySession` (open, attach, `observe_update`), the log file, crash and restart, a second writer; the properties | composes `LiveApp` and `HostPath` |
| `Episodes` | `summarize_episodes`, and the report by definition | pure operators |
| `HistoryReport` | what the live process and the offline report say of one log | composes `History` and `Episodes` |
| `Neighbors` | `collect_peer_snapshot_for_link`: sources, merge, path filter, health | pure operators and a collector |
| `PeerDwell` | `PeerDwell`, `apply_peer_snapshot` | pure operators |
| `PeerSurfaces` | the order of the table, attention, page, `peer_change_lines` | pure operators |
| `PeerSession` | the kernel's table, a collector reading it source by source, keys of the peers view; the properties | composes the above |
| `Assessment` | `situation`, `evidence_coverage_for`, `evidence_progress`, `projection`, `final_projection` | pure operators on evidence |
| `LiveStream` | `run_jsonl`, `LiveObservationStream` | what an update does to the evidence, and when a line is printed |
| `PlainStream` | `run_plain`, `format_update_for_mode`, the final summary | over the same evidence and updates |
| `PathWindows` | `PathDwell`, `CompletedPathDwell`, `latest_completed_path_window`, `traffic_shape_candidate_from_dwell` | one collector at a time |
| `Diagnosis` | `overview_diagnosis` and the lines beside it | pure operators: what each sentence asserts |
| `Panels` | the layouts of the overview, header, ledger, panels, compact view | pure operators: which lines a terminal has room for, and what they say |
| `OneShot` | `collect_snapshot`, `collect_passive_snapshot`, `SnapshotReport`, the documents, texts and exit statuses of `snapshot`, `probe`, `link`, `peers`, `readiness` | probes answer, die or are late |
| `Experiment` | `probe_gateway`, `parse_ping_latencies`, `LatencyMetrics`, `speed::run` | ping and iperf3 are external |
| `Workload` | `collect_workload_snapshot`, `parse_nettop_process_traffic`, readiness' idle background | nettop is external |
| `Invocation` | the options of `main.rs`, how they merge, what is refused, what runs | one step per command line |
| `BoundedCommand` | `run_bounded_with` | child, heir of its pipes, callback |
| `Capsule` | `capsule pack`, `capsule verify` | two packers, crashes, a growing log |
| `Capture` | `run`, `run_native`, `ReplayPlan`, scene gate, completion manifest | interrupt, kill, foreign files |
| `Commands` | one command of `main` | composes the command modules (`LiveStream` through `Capture`), see below |
| `Absent`, `Ordering` | the value of what is not there; what a sort gives | shared by them |
| `MCSession`, `MCHistory`, `MCPeers`, `MCCommands` | small hosts, logs, caches and requests | for TLC |
| `LiveAppProofs`, `SessionProofs`, `HistoryProofs`, `PeerProofs`, `MeasurementProofs`, `ArtifactProofs`, `WindowsProofs`, `CommandsProofs` | | theorems and proofs |

### How state and actions correspond to the code

*Evidence is the path it is about.* A peer cache, a counter or a probe result is
represented by the fingerprint of the link its worker was launched on. A
link is a record of small sets; `gateway` stands for the route facts that are read
together (gateway, link type, default addresses), `ssid` for name and
association, `lease` for everything outside the fingerprint. The collectors Wi-Fi,
Peers, Traffic and Workload differ in their slots, cadences and modes, and in
that only Wi-Fi carries a name; what else they measure is not represented, and
every one of their snapshots counts as observed by the open dwell.

*One turn of the loop.* `pc` is `"drain"` (`DrainControl`, one per queued control,
then `Finish`, `SkipPausedRound` or `Observe`), `"dispatch"` (`Dispatch`, all
launches of a turn), `"wait"` (`WaitControl`, `WaitDisconnected`, `WaitElapsed`).
`Observe` is one action although it reads the host up to twice: the host may change
in between (`OsLater`), and the App, the workers and the operator cannot see the
loop's variables meanwhile. `Dispatch` is one action: each launch touches its own slot, and
announcements enter the channel in the order of the code; a result of an earlier
launch of the same turn can enter the channel between them only under the same
generation. The cadences (60 s, 5 s, every 15th or 3rd
tick) are a free choice `due`: any turn may be the one.

*Workers* have two steps, `WorkerRuns` (collect; for a probe also compare the
epoch) and `WorkerSends`, and a third, `WorkerReleases`, that frees the slot.

*Time* is counted in monitor intervals and passes in `WaitElapsed`. A gap timer
is its age, capped at `Grace` because every older gap is treated alike. With the
default interval of one second `PATH_TRANSITION_GRACE` is 3; the runs use 1 or 2.

*Session.* `ReceiveUpdate` is one turn of the receiving loop, `Press*`, `Quit` and
`Drop` are keys. `Drop` is the operator's thread unwinding without `Stop`, as when
a line of plain output cannot be printed.

History variables: `osSeen` (paths the host has had), `outage` (how long the host
has been without a route at every turn of the monitor, paused or not). Nothing
reads them but properties.

*History.* `file` is the log on disk: its complete records and whether it is absent,
good, torn (an unterminated fragment follows) or malformed. `session` is the
`HistorySession` of the running process, `lives` counts processes and stands for the
pid. `Receive` is `apply_monitor_update`: the App applies the update, and if it was
admitted the session sees it. Which of `ReceiveOnly`, `AssessPrefix`, `Record` and
`RecordFails` happens is decided by the early returns of `observe_update`, the
recovered tail, and the outcome of the append. An append that returns an error may have
left the log as it was, an empty file, a fragment or the whole record (`Leftovers`).
`DieInAppend` is a process that does not
return from the append, `End` one that ends anywhere else; both leave only `file`.
`peers.health` is `Queued` exactly as long as `evidence["Peers"]` is empty, and
`wifi_observation_settled` as long as `evidence["Wifi"]` is not. `neighbor` is the
cache's entry for the gateway of one of the host's networks (`OfGateways`) or what it
says of another machine or with a conflict (`OfOthers`).

The monitor is reduced here to what `session_fence` shows of it: links in order,
each generation one path, collectors of this generation or an earlier one answering
at any time. The cache a `Peers` answer carries may be that of any network of the
host, because the host may have moved on before the loop noticed. A second process is
reduced to what it does to the file (`OtherWrites`). Netbraid is external: its append is
taken to refuse a log it cannot parse, its replay to sort by time, its comparison to
be what `history.rs` and its tests rely on. BSSIDs are left out: they are
evidence about an attachment and no part of a context.

*Neighbours.* A neighbour is a key; a row of a source carries what the source prints
for it. `Neighbors` reads the kernel's table source by source, and the table may
change between (`PeerSession`). The fence is `Session`'s: here a path change reaches
the App as one step.

*Evidence* (`Assessment`) is what the projections read of the App: whether a fact is
there, how a probe ended, which results are older than their freshness window, the
outcomes of the last next-hop attempts. Numbers and texts are left out, so that the
verdicts are exact over a small record. `LiveStream` says what each accepted update
makes of it; `PlainStream`, `Diagnosis`, `Panels` and `OneShot` (`AsLive`) speak of
the same record. A result ages in an action of its own (`EvidenceAges`, `PlainAges`):
no update tells a stream that time has passed.

*Sentences.* `Diagnosis` and `Panels` reduce words to what they assert: the probes
said to have failed, to be slow, to have passed; "pending", "sampling",
"unavailable"; which part of the coverage has room. `Panels!Overview` is the set of
lines a terminal of a given size shows, from the constraints of each layout and the
truncation of each panel. Which of the lengths wins in 22 rows, where they cannot all
be met, is decided by the layout library, so the full layouts start at 23.

*Windows* (`PathWindows`). The four collectors of a path share nothing but the path,
so a behaviour follows one of them (`subject`). `Carried` counts what the interface
has carried; the sum in a window is compared with it.

*Measurements.* Ping, iperf3 and nettop are external: they print lines, as a set of
kinds that the parsers tell apart (reply, duplicate, late reply, summary with an
elapsed time; header, rows of a block, a cut block). What the code makes of them is
translated: sequence numbers, first sample per number, nearest-rank percentiles,
loss, the last block of nettop and the sums by program.

*Command lines.* `TypeLine` draws a whole invocation: subcommand or none, options
before and after it, whether the terminal is one, whether the environment is that of
a screenshot child; the result is a refusal or what runs with which policy, bound and
output.

*Commands that run once.* `Commands!command` is the command a process was started
with; it is chosen in `Init`, never changes, and only the actions of its module are
taken. The modules share the vocabulary of evidence and no state, so this is a
disjoint union of state spaces and not an interleaving. They are one run because
each is small and they are asked the same question: is what one invocation reports,
or leaves behind, true of what happened while it ran.

## 3. Runs

| Run | Host and bounds | Shows |
| --- | --- | --- |
| `session_fence` | two networks, 2 switches, Gateway and Peers, queue 2 | `TypeOK`, `FenceInvariant`, `LinksInOrder`, `EvidenceFenced`, `LedgerPure`, `OneGenerationOnePath`, `ImplementsFence` |
| `session_path` | hidden-name Wi-Fi with losses, 3 changes, grace 2, full refresh every 2, link mode | `PublishedPathExisted`, `ShortLossHeld`, `ResolvedNameStays` |
| `session_live` | two networks with losses, 1 change, Https, 2 keys of r p a q drop, fair threads | `PassiveShowsNoProbe`, `ConsentAgrees`, `Converges`, `OffSwitchWorks`, `RefreshServed`, `QuitStops` |
| `session_stale_gap` | as `session_path`, 2 pause keys | finding: `ShortLossHeld` fails |
| `session_tunnel_mix` | a tunnel with and without corroborated underlay | finding: `PublishedPathExisted` fails |
| `history_log` | two Wi-Fi networks with one gateway address, and none; a log that is new, good, torn or malformed; 2 processes, 2 generations, 2 records | `HistoryTypeOK`, `MemoryIsLogged`, `OncePerGeneration`, `RecordsNumbered`, `CompleteIsRecorded`, `AnchorAnswersForGateway` |
| `history_report` | Wi-Fi and cable; a log shared with another host; 3 generations, 5 records, any clock | `EpisodesAgree`, `SurfacesAgree` |
| `history_stale_context` | as `history_log` | finding: `HistoryFenced` fails |
| `neighbours` | two sources printing overlapping parts of a table that changes, a switch to a tunnel over the same network, cursor keys | `CachedAgrees`, `ChangeIsReal`, `PlainAgrees`, `SelectionKept`, `MovesFromHighlight` |
| `commands` | every command, below | `FinalCloses`, `VerdictsSupported`, `PlainTells`, `DiagnosisBacked`, `WindowsRemember`, `VerdictsAgree`, `CommandReturns`, `MeasurementsHonest`, `InvocationHonoured`, `CapsuleWhole`, `CaptureIsWhole` |
| `command_deadline` | as `commands`, fewer updates | finding: `ReturnsInTime` fails |
| `capture_interrupted` | as `commands`, fewer updates | finding: `InterruptedHasNoManifest` fails |

Bounds. `MaxOsChanges` bounds the host, `MaxKeys` the operator, `MaxQueue` the
updates that may be waiting when the loop sends (the code's channel has no bound;
workers are never held up, so the queue reaches `MaxQueue` plus the slots).
Two switches are enough for a worker of generation 1 to answer in generation 3,
back on the first network, and to fill (`MaxDwells` = 2) the ledger; two keys for the
policy to go off and on again; three host changes for two losses with a return
in between. `MaxSamples` is 2. No run needs symmetry. The sets of slots differ
by run because slots are independent: one probe and one collector already meet
in the queue in every order. `CHECK_DEADLOCK FALSE`: a session whose monitor has
stopped and whose operator is gone has no step left.

For the history: two processes are enough for one to find whatever another left
behind, two generations for a record to be due again after a switch and for a late
answer of the first. The report needs three generations, to return to a network, and
records of both hosts before and between them; `MaxTime` leaves a reading free
before, between and after the records found, so that a clock set back puts a new
record anywhere. Readings are distinct: with equal times Netbraid breaks the tie.
`history_log` has the hard pair of networks: same interface, same gateway address,
different routers (`Twin`). A third router belongs to another machine.
`CHECK_DEADLOCK FALSE`: after the last process there is no step left.

For the neighbours: two keys, one with an address of each family, so that one source
prints both and the other one of them; two changes of the table, before, between and
after the commands of a reading; a third reading for a peer to leave and return; one
path switch over the same network, where only the route's gateway differs; one key
of the operator at any point between two frames; and two changes that are no longer recent, so that the order
changes and changes back between placing the selection, drawing and the key. 5.3 million states.

For the commands (2.1 million states together; the number is of the command alone):

| Command | Bounds | States |
| --- | --- | --- |
| `stream` | three links, 3 updates from a new session or 2 more from an overview measured and told once, 2 generations | 61k |
| `plain` | three links, 3 updates from either | 152k |
| `windows` | 4 paths of which 2 are retained, 3 counter readings, 4 updates, two loads that point opposite ways | 1.1M |
| `probe` | four links, every result of the three probes of the path, four neighbour caches (complete, partial, none, conflicting bindings), deadline 2 | 338k |
| `host` | timeout 3, grace 1, 2 chunks, a callback joined for up to `MaxJoin` 2 | 24k |
| `ping`, `speed` | 3 attempts, one duplicate, latencies below and above the limits | 39k |
| `readiness` | 3 samples of three processes in two programs | 81k |
| `line` | every subcommand, options before and after it | 85k |
| `capsule` | 2 packers, 2 records and one that is appended | 37k |
| `screenshot` | both lanes, two frames (`MaxFrames` 2), one key, a stranger's file, 4 ticks | 117k |

Two updates after an overview has measured everything are enough for a
result to be replaced, to age and to be followed by another path; from a new session
the run reaches every verdict but those that need all probes, which `Underway`
supplies. `MaxPaths` exceeds `MaxWindows` by two, so that a window is evicted and the
next path opened. `MinSamples` 2 of `Window` 3 leaves room for an attempt that is no
longer assessed. A stream may end at any time, so the surfaces are evaluated where a
bounded one has ended; that visits all evidence. A public address that is not learnt is a
probe that dies or is late. `CHECK_DEADLOCK FALSE`: a command ends.

Fairness (`Session!Fairness`): weak fairness of the monitor's loop, of receiving,
and of each worker. The loop never blocks for ever (`recv_timeout`, commands with
deadlines), workers run under deadlines, and the operator's thread polls at
least every 100 ms. Nothing is assumed of the host or the operator, so `Converges`
and `OffSwitchWorks` say what holds once these leave the session alone. `Commands` states
no fairness: its properties are invariants. Of a host command `CommandReturns` bounds the
clock at the end of the drains, and says that from then on it waits for its callback only.
Nothing bounds the callback: process.rs:45-47 joins it without a limit, so no property
claims that a command with a callback returns.

### What the properties of the commands say

`FinalCloses`: the summary of a bounded stream says what its lines said last, save
what aged, and closes what they left open; nothing material was withheld.
`VerdictsSupported`: situation, coverage and progress are computed by separate code and
support each other. `PlainTells`: a reader of the plain lines knows the current
conclusions, although each line compares only with the moment before its update.
`DiagnosisBacked`: every sentence of the overview is borne out by the evidence
(`Backed`), the lines of different panels agree (`LinesAgree`), and on no size of
terminal the session looks better than it is (`ScreensTell`). `WindowsRemember`: what a
retained window claims of its path is what was carried, read and seen on it.
`VerdictsAgree`: a one-shot report says what a live session would of the same
evidence, with the named exceptions; document, text and exit status say one thing.
`CommandReturns`: child and drains end within their budgets, only the callback can hold the
command after that, and what is missing was not there at the deadline.
`MeasurementsHonest`: received, lost and percentiles are those of the echoes (of the
answers at least half are no more than the median and half no less, and above the 95th
percentile is no more than one in twenty, or part of twenty), an experiment's report
brackets a transfer that ended (`LatencyHonest`), and traffic, or an idle background, is
that of the programs in the second that was sampled (`TrafficAttributed`). `InvocationHonoured`: no option is accepted and ignored, probes
run only when asked for, and what ends by itself was bounded or is a report.
`CapsuleWhole`, `CaptureIsWhole`: what claims to be complete is, at every crash; what
docs/visual-qa.md adds of interrupts does not hold (`capture_interrupted`), and what it adds of
stages only in part (below).

`RefreshServed` (`session_live`) is about the launch and not about the flag: a request
that meets a busy slot is still there when the slot is free, and one whose slot is free gets
a worker of the current generation, unless the view changes, the operator pauses or the
session ends first.

### What the five findings show

`session_stale_gap`: the route is lost in one turn (held), the operator pauses, the
route returns, is lost again, the operator resumes. Paused turns observe nothing, so the
start of the first gap is still set: the first turn takes the second loss for a
sustained one and opens a disconnected generation. docs/architecture.md:43
promises a grace state for a short loss.

`session_tunnel_mix`: a tunnel keeps its name but returns with another next hop while
nothing corroborates its underlay. The underlay hold copies underlay and
network name of the previous path into the reading, so the new generation combines the
new next hop with the old underlay. DECISIONS.md:34 promises that
generations do not combine paths.

`history_stale_context`: a network is assessed, the host moves on (or loses its
route for good), and the App opens a new generation. It resets every piece of
evidence but `history_context`. Until Wi-Fi and neighbours of the new path have
answered the projection of the new generation says `recurring` or `returned` of the
old one, and the TUI prints it with the age of the new change (`ui.rs:694-709`).
DECISIONS.md:36 promises that evidence is not combined after a switch.

`command_deadline`: a child exits early while another process holds both its pipes.
The time left is computed once, and each drain may use all of it: the caller waits
twice. CHANGELOG.md:31 promises one deadline. `CommandReturns` states the budgets
the drains do keep.

`capture_interrupted`: the flag of SIGINT and SIGTERM is read while the native lane waits.
An interrupt after the last wait, while the last frame is shot, written and verified, is
not seen, and the manifest is published. docs/visual-qa.md:58 promises that an interrupted
run has none.

### Further disagreements

These also contradict a document. The models have them, and the properties are stated
so that they do not claim otherwise; no run of their own repeats them.

- A neighbour worker launched in generation 1 may read the cache after the host has moved
  to a network whose gateway has the same address, and before the loop has noticed. Its
  answer carries generation 1, is admitted, and completes the context: the record of the
  first network names the router of the second, and is compared with later ones under
  that name (history.rs:536). DECISIONS.md:36-38 says that evidence of two networks is not
  combined. `AnchorAnswersForGateway` states what does hold: the address is that of a router
  that has this gateway address on this interface.
- The stage of a scene is awaited on one reading of the pane (capture.rs:994), and the frame
  is the next one (capture.rs:1017), of which only view and policy are checked: a scene that
  moves on in between is listed under a time it was not planned for. docs/visual-qa.md:44
  says that the generation is verified before a frame is accepted. `CaptureIsWhole` asks
  for a stage that was reached.
- A passive bounded run that ends before its link settles closes the path status, a claim
  of probes that never ran, as unavailable (model.rs:2768). README.md:14 says that it remains
  `UNTESTED`. `FinalCloses` has the code's rule.

### Observed, and not counted as findings

No document speaks against these; they are exceptions that properties name, or
simplifications that a reader of the code may want to know.

- `run_plain` prints the evidence lines of late updates that the App refuses
  (main.rs:1424); the fence protects the App and its projections.
- Plain output never says that a result went stale, and can miss a change of
  situation or coverage through it (`said.aged` in `PlainStream`). `run_jsonl` says it
  with the next update or checkpoint.
- Slow HTTPS is told with "gateway and DNS passed" where they were unavailable
  (ui.rs:629-631).
- Three panels say "source pending" of a neighbour cache whose reading failed
  (ui.rs:250, 277, 1836); the scope panel and the coverage line say otherwise. The link
  header says OBSERVED of a route that is settling. Below 90 columns an evidence gap is
  "partial" while the coverage is still collecting (ui.rs:3142).
- The passive branch of `render_latency` is not reachable from `render_overview`.
- "rate n/2 insufficient" may show n > 2 after counter resets. Rates divide by the time
  of receipt, so a delayed delivery overstates a peak (model.rs:1931-1943).
- Live `peers` coverage is complete where a source failed, the one-shot says partial
  (model.rs:2778, 3624); `link` is partial without resolvers or underlay, the live
  link view complete.
- The parts of a one-shot report are read one after another with no generation:
  a host that switches meanwhile is reported in parts.
- `completed_probes` counts the stand-ins of probes that never answered: "completed
  4/4" is always printed (model.rs:3540, main.rs:853).
- Readiness' own probes are traffic that nettop sees; an unhealthy sample hides traffic
  another one saw. Rows of programs with a comma in their name are dropped
  (net.rs:600-606).
- A read that is cut off while the command succeeds counts as complete
  (process.rs:34-36), so neighbours can be taken for absent (peers.rs:121-135). A drain
  takes queued chunks past its deadline; a failing `wait_timeout` leaves the child.
- A plain line says "neighbor +" of a cached peer after a partial reading
  (plain.rs:764).
- "log left unchanged" (history.rs:368) is printed after any failing append, also where
  what failed came after bytes were written.
- The scene gate removes whatever is at its path once it was opened, also a file that
  somebody else has put there since (capture.rs:1412-1418).
- `--interval` is ignored for observations taken once.

## 4. Proofs

Proved by TLAPS for all constants that satisfy the named assumptions (`NONE` is no
link, fingerprint, name, record or episode; bounds are natural numbers; slots, modes and keys are
those of the code) — any host, any queue bound, any number of changes and keys.
Of the properties of the passing runs only those under "Model-checked only" have no theorem.

| Theorem (`SessionProofs`) | Says |
| --- | --- |
| `FenceInductive` | `TypeOK /\ FenceInvariant` is inductive |
| `TypeCorrect` | `Spec => []TypeOK` |
| `EvidenceNeverCrosses` | `Spec => []EvidenceFenced` |
| `GenerationsHaveOnePath` | `Spec => OneGenerationOnePath` |
| `SessionImplementsFence` | `Spec => ImplementsFence` |
| `PassiveIsPassive` | `Spec => []PassiveShowsNoProbe` |
| `LinksTravelInOrder` | `Spec => []LinksInOrder` |
| `LedgerIsPure` | `Spec => []LedgerPure`, along `LinksInOrder` |
| `PublishesWhatExisted` | `NoUnderlays => (Spec => []PublishedPathExisted)` |
| `ShortLossIsHeld` | `NeverPaused => (Spec => []ShortLossHeld)` |
| `ResolvedNamesStay` | `Spec => ResolvedNameStays` |
| `ConsentIsKept` | `Spec => []ConsentAgrees` |

`EvidenceFenced` is not inductive: it says nothing of what is still in a worker or
in the queue. The strengthening collects every pair (generation, path) in use,
in the monitor, the workers, the queue and the App (`Tags`), and says that equal
generations have equal paths and no generation is ahead of the monitor
(`TagsAgree`). The argument is then one lemma for all actions: the tags of a step
are tags of the state before, or the single tag of a path just numbered with
`generation + 1`, which nobody holds. For each action the proof shows only where its tags
come from. `EvidenceFenced` follows because the App's link and evidence
carry the same generation. The ledger needs more: that the links of all
generations the App has not seen are queued in order (`LinksInOrder`), so that each
`Link` the App admits has its own generation or the next.

Two theorems have a hypothesis, and each hypothesis is what a finding shows to be
needed. `NoUnderlays`: no link of the host is a tunnel over an identified network;
without it a published path may mix two (`session_tunnel_mix`). `NeverPaused`: the
operator has no pause key; with it the loop's timer of the outage stands still while the outage
lasts (`session_stale_gap`). Under `NeverPaused` the timer and the age of the
host's outage are equal while the published path has a route (`LossTimed`), which is the inductive
invariant. For `ConsentAgrees` the proof follows the last control of each kind in
the channel (`LastQueued`): reading the front of the queue changes the answer only if
it is the last of its kind.

| Theorem (`HistoryProofs`) | Says |
| --- | --- |
| `HistoryInductive` | `HistoryInvariant` is inductive |
| `RecordedOnce` | `Spec => []OncePerGeneration` |
| `CompleteContextRecorded` | `Spec => []CompleteIsRecorded` |
| `NumbersGoUp` | `Spec => []RecordsNumbered` |
| `ComparesWithTheLog` | `Spec => []MemoryIsLogged` |
| `HistoryTypeCorrect` | `Spec => []HistoryTypeOK` |
| `AnchorsAnswer` | `Spec => []AnchorAnswersForGateway` |
| `EpisodesAreRuns` | `InitialTimesDiffer => (Spec => []EpisodesAgree)` |
| `SaidAsReported` | `InitialTimesDiffer => (Spec => []SurfacesAgree)` |

`OncePerGeneration` speaks of the log alone and no step sees from the log that a
generation was recorded. `RecordsNumbered` supplies the reason: nothing in the log
has a later pid, the running process has logged nothing beyond
`recorded_generation`, and that is never ahead of the App. A record is only written when
`recorded_generation` differs from the App's generation, so it is a new number;
a restart forgets the field but takes a new pid. After a failing append that may have
left the whole record, the field is behind the log, but the process writes no more: so
`RecordsNumbered` and `MemoryIsLogged` speak of it only while it is `writable`. `CompleteIsRecorded` is
inductive with the types the reducer needs: an update that changes the generation
empties the evidence, any other that is admitted carries the current generation, so
`observe_update` sees it. The proofs assume nothing of the log a first
process finds but that its records are not its own.

What a process remembers after a start is the log sorted by time. The model places each
record by its rank (how many precede it), so the memory is a sequence over the log's records
by a counting argument, without induction over the sort.
`AnchorsAnswer` needs no hypothesis on the networks: a cache entry that is taken has the
gateway's address and interface and no conflict, so it was read of a network with that
gateway (`Answered`). That it is the recorded network cannot be had (§3,
further disagreements): `history_log` has two networks for which it is not.

The report is a loop over the log, and what a loop computes would need an induction. The
well-foundedness of the numbers takes its place: `Follows(R, m, s)` says what the loop has
before the m-th record (`finished` are the episodes of the runs of which a later record
was seen, `active` and `previous` of an observer its latest run and record), `LoopStep` that
one record keeps it, and a least record at which it fails cannot be (`LoopFollows`; that the loop's
recursive function exists is `LoopExists`). The loop counts earlier episodes as it goes; that
the count is the number of earlier runs (`PriorIsEarlier`) needs runs with different
onsets to be different episodes (`OnsetTells`), and that needs different times. So
`InitialTimesDiffer` asks of the logs found first what `Readings` gives every record added:
no two records of one log have one time. `SurfacesAgree` follows by cases
on what was said (`SaidAndReported`): what is on display was summarized against the records before
the last (`Assessed`, the invariant), the last episode is the run of that record (`LastEpisode`),
and a key seen before with another between has an earlier run (`SeenBefore`).

| Theorem (`MeasurementProofs`) | Says |
| --- | --- |
| `BoundedCommandReturns` | `BoundedSpec => []CommandReturns`, for every timeout, grace and amount of output |

`CommandReturns` bounds the clock at the end of the drains; a step can only be
bounded by what it started from, so `CommandInvariant` bounds it in every phase before the join
(`ClockBounded`: the wait by the timeout, the first drain by its deadline, the second
by one more budget, plus the chunks that were taken late), follows the clock through the
join, which nothing bounds but the callback, keeps what the child has done
by then (`ChildFollows`) and why a drain may have ended early (`OutputComplete`).
The rest of the module is what `MeasurementsAreHonest` (below) rests on.

| Theorem (`PeerProofs`) | Says |
| --- | --- |
| `LedgerTellsTheSame` | `Spec => []CachedAgrees` |
| `StreamTellsTheSame` | `Spec => PlainAgrees` |
| `ChurnIsReal` | `Spec => []ChangeIsReal` |
| `SelectionIsKept` | `Spec => SelectionKept` |
| `DownMovesFromHighlight` | `Spec => MovesFromHighlight` |

Here the neighbours, the sources and what each prints are any (finite) sets;
`SourcesAssumption` says that a source that prints states does not follow one that
prints the same rows, which is the order the three platforms' collectors have. `CachedAgrees` is
inductive with the shape of the ledger's entries. `ChangeIsReal` is far from
inductive: while a read is under way the kernel may have moved on, and a row read
early may reach the ledger late, or never. `ChangeInvariant` is an accounting: what the ledger has counted
of a neighbour, plus what it would count if the row in the collector's hands
reached it now, plus what reading the kernel after that would count, is
never more than what the kernel did and what sources that print no states could not show.
Each step of the kernel pays for the costs it causes (`Room`); each step of the
reader only moves a cost from one place to the other. The selection's invariant says
that between two steps the selection stands on its row of the order it was placed in
(`SelectionInvariant`); the order of the table is by rank, so a permutation needs no induction.

| Theorem (`ArtifactProofs`, `WindowsProofs`, `CommandsProofs`) | Says |
| --- | --- |
| `CapsulesAreWhole`, `PacksWhole` | `CapsuleSpec => []CapsuleWhole`, `Spec => []CapsuleWhole` |
| `ShootsWhole` | `Spec => []CaptureIsWhole` |
| `HostCommandsReturn` | `Spec => []CommandReturns` |
| `MeasurementsAreHonest` | `Spec => []MeasurementsHonest` |
| `WindowsAreRemembered` | `Spec => []WindowsRemember` |
| `StreamSaysItAll` | `Spec => []FinalCloses` |
| `PlainSaysItAll` | `Spec => []PlainTells` |
| `ConclusionsAgree` | `Spec => []VerdictsSupported` |
| `ReportsAreConsistent` | `Spec => []VerdictsAgree` |
| `SentencesAreBacked` | `Spec => []DiagnosisBacked` |
| `LinesAreHonoured` | `Spec => []InvocationHonoured` |

A capsule: each packer's temporary directory is what its phase says, a directory in the
final place is empty, a stranger's or whole, and what a reader has begun with does not
change (`CapsuleInvariant`), for any number of packers and any interleaving of
appends. A screen capture: the frames taken are those before the
target, the view is the parity of the keys sent so far, the program's stage never goes
back, and a file that is ours has the bytes recorded of it until a stranger writes
late, a gate once opened is removed at the end (`CaptureInvariant`); a frame finds a name because fewer than planned were taken. That the modules'
theorems hold in `Commands` is `CommandsApart`: the commands share no variable, so a step of one
is a stutter of the others.

The measurements: the model sorts and sums with operators a proof can use. A sorted
sequence is given by rank and its k-th number by how many are less (`Ordering`), so
that a percentile lies between two values of known rank (`Sorted`, `SmallestIs`,
`Interpolated`) and what it says of the samples is a count (`PercentilesTell`). A sum is the
library's fold over a set; its laws (bounds, sums of sums, sums under other names) are
proved from a least subset for which they fail (`LeastSubset`), which takes the place of
an induction. The samples of a ping are in bijection with the attempts that were
answered (`SamplesAreAnswers`): a number that repeats is kept once, and a ping that prints no
numbers prints no reply again (`Output`, which `PingInvariant` keeps line by line). The
experiment: while iperf3 runs the callback follows the child (`SpeedInvariant`, over
`CommandInvariant`), so a result means that the callback measured it. A second of traffic:
of an output read to its end the rows of the last block are the processes (`WholeRead`),
and every program's group adds up its own (`WholeGroup`). The proof found that the property had
claimed too much of the 95th percentile: with more than 21 answers more than one can be
above it, which the run's three attempts could not show. That `NONE` is no number and no
state of a child is the assumption `NoneIsNoMeasurement`.

The windows: the totals of a path are sums over a log that grows, yet no induction over
the log is needed, since a step appends at most one entry and the invariant
(`WindowsInvariant`, in `WindowsProofs`) relates each total to the log as it is. For the
property's own words that meant index sets instead of filtered sequences: the newest,
the oldest, the extreme, how many (`PlacesAppended`, `LatestAppended`, `ValuesAppended`,
`SwitchesAppended`, `CountAppended` say what one entry adds to each). The counters need
more than the property says: a reading is never behind the one before (`Onward`: what was
carried is not lost, and what the counters do not show of it was lost by a reset), which
holds of the last reading received, of the one the worker has taken and of the interface
now; and a path's intervals lie within the time it lasted, each of positive length, from
which the mean rate stays below the peak (`MeanBelowPeak`). That `NONE` is none of the values the
windows hold is the assumption `NoneIsNoEvidence`.

The stream: the last line is what was told, and what was told is what is so, save
what aged since and what the next line is due for (`StreamTells`); the plain lines likewise, where
the reader's knowledge replaces the line (`PlainShows`). Both rest on `Kept(evidence)`: the
relations between the parts of an evidence that `apply_at` maintains. `StreamAssumption` excludes
inputs the code cannot produce, and says what the proof uses of the rest: the live gateway probe is a single attempt
and never degraded, the public address is learnt or unavailable (net.rs:1054), a link with
a default route has a medium, a neighbour reading that arrived is not still running and
whole only if no source failed (peers.rs:153), a workload sample is there or not.

A report: each field comes from what its host may have or from a result as it was sent
(`Reported`, `Collected`), and the verdicts agree by cases on the subject (`SnapshotCovered`, `LinkCovered`,
`PeersCovered`, `DiagnosisCovered`). The proof found what the run had left out: a complete
neighbour cache with conflicting bindings is degraded although no source failed
(peers.rs:163), and the report of `peers` covers it partly where a live session
covers it. The exception is now named in `VerdictsAgree` and the run has that cache.
The sentences: what a situation has seen follows from the rules before it that did not
apply (`KindsSeen`), and each sentence asserts no more (`TellsBacked`, for the evidence of
sessions and of reports). The lines agree by what a kept evidence relates
(`LinesSayTheSame`: what is stale has a result, a whole reading has no failed source);
the screens by counting what each layout puts before the row where it is cut
(`CompactShows`, `LedgerShows`), for each of the sizes in `Screens`.
A command line: by cases on the subcommand, after one lemma on how options before
and after it merge (`OptionsMerge`).

`LiveAppProofs` has the lemmas about the reducer (type of every result, which
paths an App holds after an update), `SessionProofs` begins with one lemma per action
for `TypeOK`. Where a least or a last element is needed (`LeastNumber`, `LeastPlace`,
`LastPlace`, `LeastTime`) it comes from the well-foundedness of the numbers, which the library states without
an operator parameter.

Model-checked only:

- All liveness: `Converges`, `OffSwitchWorks`, `RefreshServed`, `QuitStops`. The provers
  cannot reason about fairness and `ENABLED`. Every invariant and action property of the passing
  runs is a theorem.

## 5. Not modelled, and what comes next

The `components` of `PROJECT.json` list every part with its status. Left out:

- Text: wording, widths, colours, number formats; the layouts of the link and
  neighbour views and the footer. Of the overview the lines and what they assert are
  modelled.
- Platform commands and parsers for routes, addresses, resolvers, Wi-Fi and counters:
  in the models they are the host. Native window capture, tmux and image encoding.
- `review.rs` and the review scenes of `capture.rs`: offline text from a log, no steps.
- BSSID evidence about an attachment; Netbraid; the registrant table; CI.
- The event log (64 entries), with the hazard at main.rs:1238; panics of collectors
  (net.rs:414) and the process-wide DNS flag (net.rs:967), which outlive what a run
  follows. Their hazards are listed without a property and say why.
- Packets, errors and drops of a window, percent signals.

Next:

1. The event log and `salient_context` over the App of `LiveApp`, for the hazard at
   main.rs:1238.
2. A worker that panics in `Monitor`, and liveness that holds without it.
3. The link and neighbour views in `Panels`.
