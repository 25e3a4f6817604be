# Verification of remote-au

remote-au plays the sound of several machines through the speakers of one. This
directory holds TLA+ models of its Rust implementation (`src/src/`), the TLC
configurations that check them and the proofs that TLAPS checks. Source paths
are below `src/src/`; `README.md`, `tests/` and `scripts/` are those of the
repository.

## The system

A **sender** captures audio, seals a packet every 5 ms and sends it over UDP to a
**receiver**, which opens it, puts it into the jitter buffer of the sender's
stream and mixes all streams in its audio callback. Both hold the same group
invitation: it authenticates discovery, and all session keys derive from it.

| Component | State | Operations | Hard behaviour | What makes it correct |
|---|---|---|---|---|
| Replay window, `crypto/replay.rs` | base, bitmap | `commit` | any order of arrival, slides around a word or the whole window | the answers are those of the set of all granted numbers |
| Jitter buffer, `mixer/jitter.rs` | slots, play position, target, three flags | `push`, `pull`, `set_target_packets` | the receive task, the feedback tick and the audio callback interleave; starvation, overflow, jumps | position and slots agree, latency and size bounded, playout only moves forward |
| Mixer, `mixer/mod.rs` | streams, gains | `ensure_stream`, `expire_idle`, `pull` | streams come and go while the callback pulls | at most 8 streams, each backed by a session |
| Receiver engine, `transport/receiver.rs` | epoch, sessions (window, counters, loss and probe statistics) | `handle_datagram`, `feedback_due`, `expire`, `rotate_epoch` | duplicated, late and foreign datagrams, expiry and return, full history | nothing applied twice, no nonce reused, limits kept, reports exact |
| Sender engine, `transport/sender.rs` | epoch, keys, counter, window, probe figures | `bind_peer`, `hello`, `audio`, `probe`, `handle_feedback`, `note_probe` | rebinding at any time, late feedback | no nonce reused, both sides go on accepting each other, a train is credited with its own probes |
| Adaptation, `transport/adapt.rs` | profile, buffer targets | `observe`, `apply_floor`, the plan and the verdict of a probe train | feedback and probe results at any time | never beyond what the last train found; profile and buffer come to rest |
| Sender loop, `daemon/mod.rs: run_sender` | the session's timers and flags | the arms of one `select!` | receivers crash, restart, rotate; answers lost or late | reconnects by itself, leaves a healthy session alone |
| Receiver loop, `daemon/mod.rs: run_server` | ids of this process | datagram, feedback tick, expiry tick | any order | is the interleaving of `Receiver` |
| Discovery, `discovery/mod.rs` | none (a challenge per query) | query, announce | answers late, repeated, from several interfaces | an answer is used only for its query |
| Sealing and keys, `crypto/session.rs`, `crypto/mod.rs` | session keys; the pairing file | seal, open, derive | a counter used twice under one key | an epoch and a session name the key, and with one receiver the counter never repeats under it (with several it does: finding `session_two`) |
| Wire formats and codecs, `protocol/` | none | encode, decode | | pure functions, covered by unit tests |
| Control endpoint, `control/mod.rs` | `control.json`, request slots | serve, request | an endpoint file left by a crashed daemon, a server that ends while its daemon goes on | a daemon that serves can be reached, and none gives way to another of its directory |
| Configuration and command line, `config/mod.rs`, `cli/mod.rs` | files of one directory, the daemon lock | read, change, write, lock | processes that run at once, crashes between two system calls | no change lost, never an unreadable file, one daemon |
| Devices, `audio/` | capture ring, workers | open, stall, reopen | device errors at any time, defaults that move, names that are shared or change | audio comes back by itself, and then stays |
| Legacy Go program, `cmd/`, `internal/` | as the above | | | the previous implementation |

The engines are passive objects: the receiver's is behind one mutex and called
from one `select!` loop, the mixer behind another. So a handler is one atomic
step and concurrency is the order of steps; where the code has an `await` or a
spawned task between two effects (discovery, verification) these are two steps.

## The modules

Core modules, each with an `MC...` module (values for TLC) and configurations;
`...Proofs` modules hold the theorems. Definitions keep the names of the code.

| Module | Models | Abstracts |
|---|---|---|
| `ReplayWindow` | `ReplayWindow` of `crypto/replay.rs`: base and bitmap, all branches of `commit`, `mark`, `slide` | the 64-bit words are the set of set bits |
| `ReplayReference` | what a replay window promises: the abstract specification `ReplayWindow` implements | |
| `JitterBuffer` | `JitterBuffer` of `mixer/jitter.rs`: `new`, `push`, `pull`, `set_target_packets`, `trim_latency` | a packet is its number; the loop of `pull` is given by where it stops |
| `JitterLoop` | the same buffer with the loop of `pull` iteration by iteration; implements `JitterBuffer` | the two exits of the loop that are dead (theorem `OtherExitsDead`) |
| `Playout` | composition: replay window, then jitter buffer, then the loop of the audio callback, with targets that change and streams that are removed and created again | one stream; counter and sequence number of a packet are the same |
| `Receiver` | session table of `transport/receiver.rs` and stream registry of `mixer/mod.rs` | a datagram is (epoch, session, counter, kind); the window is the reference |
| `LossTracker` | `observe_audio_seq` of `transport/receiver.rs` | |
| `Arrivals` | composition: one sender's datagrams through the replay window into the loss count | what a datagram holds is its audio number, if any |
| `Session` | `bind_peer`, `seal`, `handle_feedback` of `transport/sender.rs` against the window and counters receivers keep for the session | when to rebind is any time; an epoch names its receiver and its keys |
| `Reconnect` | `run_sender`, `wait_for_peer`, `peer_matches` against receivers that crash, restart and rotate | timers are steps; addresses and counters left out: a sender is told the receivers of a name, the one at an address (`--to ip:port`), or nothing |
| `Probe` | probe trains from `begin_train` to the verdict, both engines and the network between | byte counts are counts of probes; pacing only as "may cap the rate further down" |
| `Adapt` | `AdaptState`, `ReceiverAdapt` and the loop they close over feedback and the target in the audio packets | loss and underruns are in the classes the code tells apart; the path is a rank, a jitter and a delay |
| `SettingsRegister` | what `preferences.json` promises: a register that is read and written atomically, on Windows one that may fall back to the defaults | |
| `Preferences` | `preferences`, `save_preferences` and `private_write` of `config/mod.rs`, as the commands of `cli/mod.rs` use them: one step per system call, a failure or a crash between any two | the settings are the gain and one more; the temporary file is its content |
| `Control` | daemons that start under the lock, crash and leave `control.json`; `run_control_server` with each of its exits, `control_request`, the `volume` request and command; other programs on the ports | the token is right; a request is the gain it sets |
| `Endpoints` | the audio devices, and what the workers of `audio/playback.rs` and `audio/capture.rs` do alike | devices are numbers in the order of the host's list; time is in seconds |
| `Playback` | `supervise_playback` over the output's worker, which knows its device by name | the callbacks are one step a second; of names only equality, and being empty, matters |
| `Capture` | the device arm of `run_sender` and `open_capture_retry` over the workers of the microphone and the Windows loopback | the loopback's half second before a retry is one |
| `Devices` | the process's one audio side: `Playback` or `Capture` | |

How they compose. `Playout` joins `ReplayWindow` and `JitterLoop` with one step
for `handle_datagram` (commit, then push) and one for each turn of the callback's
loop, and so implements `JitterBuffer`; `Arrivals` joins `ReplayWindow` and
`LossTracker`, and is shown to implement the latter, which on its own assumes
that no number comes twice. `Control` runs the steps of `Preferences` as part of
the `volume` command, and implements the register as `Preferences` does. `Receiver` and
`Session` use the set of granted counters where the code has the bitmap: the
refinement proved in `ReplayWindowProofs` is what allows it. `Session` leaves
open *when* the control loop rebinds, and `Reconnect` says when; `Probe` leaves
the floor a train finds to `Adapt` as an input, and `Adapt` leaves to `Probe`
that the floor is backed by deliveries.

### State and actions against the code

- **ReplayWindow**: `base` and `bits` are the fields; `CommitRejected`,
  `CommitFirst` and `CommitLater` the three ways through `commit`. `grants` and
  `last` are history: how often each number was granted, and the last answer.
- **JitterBuffer**: `slots` are the keys of the `BTreeMap`; `play` and `off` are
  `play_seq` (0 for `None`; numbers start at 1) and `play_off`. `PushDropped` is
  the two early returns of `push`, `PushAccepted` the rest with the overflow, the
  start position and the closing `trim_latency`. `PullSilent`, `PullPlays` and
  `PullStarves` are the three outcomes of `pull`.
- **JitterLoop**: `frames` and `done` are the argument and the local variable of
  `pull`; `BeginPull`, `Iterate` and `Starve` are its entry, one turn of its loop
  and the exit with nothing left. `seen` is the buffer as whoever held the mixer's
  mutex last left it: the refinement mapping shows `JitterBuffer` that, so a pull
  is one step there, and its earlier iterations are stutters.
- **Receiver**: one action per way through `handle_datagram`
  (`RejectDatagram`, `RotateEpoch`, `Admit`, `HelloAgain`, `Media`), `FeedbackDue`
  for the sessions whose 400 ms are over, `GoIdle` for ten seconds of silence and
  `Expire` for the tick that notices. `applied` and `sealed` are history.
- **Session**: `Rekey` and `Rebind` are `bind_peer` with another epoch than the
  engine's and with the same one, each with the HELLO the loop sends first.
  `net` and `fbNet` only grow: a datagram may be lost, late or come again.
- **Reconnect**: `phase` tells the outer loop (discovering) from the inner one
  (streaming). `VerifyDue` spawns the verify task, `Answer` and `AnswersLost`
  are its query, `Rekey`, `Confirm`, `Miss` and `Rediscover` what the loop makes
  of the result. `HelloArrives`, `FeedbackArrives`, `FeedbackStale` and `Forget`
  are the verdicts of the timers on the datagrams between the two.
- **LossTracker**: `Observe` with `Jump` for a horizon more than the slack ahead
  and `Walk` for the number by number loop. `arrived` and `givenUp` are history.
- **Arrivals**: `ArriveAudio` is an audio packet the window grants,
  `ArriveUncounted` every other datagram.
- **Probe**: the sender's `gen`, `at`, `probing`, `credited`, `floor`; the
  receiver's `epoch`, `rgen`, `counts`; `net` and `reports` between them. Leaving
  a datagram in `net` for ever is losing it.
- **Adapt**: `TrainJudged` is `note_probe`, `ObserveFeedback` the sender's and
  `FeedbackDue` the receiver's end of a report, `ApplyAudio` an audio packet that
  carries the target over, `SessionAnew` the loop's `gradual = false`, with a receiver
  that still knows the session, has let its stream expire, or has a new epoch.
  `allowed` is history: the profile of the last verdict.
- **Preferences**: `pc` is how far a command is. `Begin` is `exists()` (and, without
  the file, the defaults), `Load` the read with the change, `WriteTmp` the temporary
  file up to `sync_all`, `FindOld` and `RemoveOld` the two calls of the Windows
  build, `Rename` the last one, `Abandon` an error or the death of the process.
- **Control**: `state` is how far a daemon's control task is: it asks the old
  endpoint and may give up after 300 ms (`Probe`), binds (`Bind`) and writes
  `control.json` (`RemoveEndpoint` on Windows, then `Serve`); `deaf` is a daemon that
  goes on after the task has ended, because somebody answered or because `bind`,
  `local_addr`, `private_write` or `accept` failed (`ServerFails`, which drops the
  listener and leaves the file). `phase` is a `volume` command: endpoint read,
  request sent, answered, saving; `taken` is the daemon whose server has its
  connection, which outlives the listener. A command counts as in flight until its
  request is handled or dropped, whether or not the client still waits.
  `alone` and `settled` are history.
- **Endpoints, Playback, Capture**: `sup` is the task, `worker` the thread behind
  its handle, `stream` the device it plays or captures. `unseen` is the version of
  the watch channel, `since` the worker's `last_check`, `age` and `quiet` what the
  watchdog reads (`opened`, `last_callback_ms`). `name` and `opened_name` are what
  `name().unwrap_or_default()` gives: the output's worker compares these
  (`NameChanged`), so outputs may share a name or have none, and `Rename` is an
  output renamed as well as a name that cannot be read for a while. The loopback
  compares endpoint ids (`DefaultLeft`); `CheckFails` is an error of its check. A
  second passes only when nobody is due to move, and `steady` counts them since the
  last event.

## What is checked

Each property has a plausible bug, an operator `Mut...` beside the definition it
would replace, under which TLC finds the property violated.

| Run | Checks | Bounds, and why they are enough |
|---|---|---|
| `arrivals` | a number is granted once (`AtMostOnce`); the bitmap is the granted numbers of the last window (`BitmapExact`); refinement of the reference (`ImplementsReference`); the loss count sees each number at most once (`CountedOnce`, refinement of `LossTracker`); its report is exact (`ReportExact`); reordering within the tolerance is no loss (`ReorderForgiven`) | window 5, tolerance 2, slack 2, ten datagrams of which two are no audio, in every order, with every subset lost and repeated: slides by less, by exactly and by more than the window, walks and jumps, a packet given up that still comes |
| `playout` | position, slots and flags agree (`CursorConsistent`); playout keeps to the target (`LatencyBounded`) and never goes back (`PlayoutNeverRewinds`); no frame is heard twice (`HeardOnce`); what waits was not heard (`HeldIsUnheard`); the loop of `pull` is one step of `JitterBuffer` to whoever takes the mutex next (`ImplementsBuffer`) | window 3 over a buffer of 2, six packets of 2 frames, pulls within a packet and over three: overflow, starvation, jumps, late arrival and a recreated stream all occur, and the loop ends by playing, concealing and starving |
| `receiver` | limits (`CapacityHeld`); a stream has an active session (`StreamsBacked`); nobody loses the stream to a newcomer (`NoEviction`); no datagram takes effect twice (`AppliedOnce`), no feedback nonce is used twice (`FeedbackOnce`), over expiry, return and rotation | four sessions, two slots, a history of three, two epochs, window 2 with three counters; runs of up to `MaxApplied` = 6 different datagrams let in, which fill the history, rotate it away and fill the slots again |
| `receiver_limit` | finding, see below | two slots, three sessions, one epoch |
| `session` | no counter is sealed twice under one epoch (`SealsUnique`); each side takes the other's next datagram (`NextSealFresh`, `NextFeedbackFresh`) | one receiver, three epochs, three counters, window 2 |
| `session_two` | finding, see below | two receivers |
| `reconnect` | `OneVerify`, `NeverBackwards`, `HealthyKept`; `Reconnects` (liveness) | two receivers, four faults of any kind, with a name that is the first receiver's and with none: three misses in a row and one more fault fit |
| `probe` | `CreditsDelivered`, `FloorBacked` | two trains of two steps by two probes, two epochs, two reports that overtake each other |
| `adapt` | `WithinFloor`, `OneStepUp`; `ProfileSettles`, `TargetSettles` (liveness) | a clean, a middling and a poor path, one change of path, one disturbance of any kind at any time |
| `control` | on Unix the file found is the file read (`FoundStays`); refinement of the register (`ImplementsRegister`); `control.json` leads to the daemon that serves (`EndpointIsOwners`); whoever answers a starting daemon, and so keeps it from serving, is no daemon of its directory (`AnsweredByStranger`); the gain heard is the gain saved after an undisturbed command (`GainKept`) | two commands, two daemons, two ports, two gains and one other setting, both builds: any two can overlap at any call, and a third adds no new pair |
| `gain_saved` | finding, see below | as `control` |
| `devices` | after the last event the output plays again within `Grace` = 5 s, on a device of the default's name if the default is chosen (`PlaybackReturns`), and the input is captured again within 3 s (`CaptureReturns`); after that, and until the next event, no stream is opened or closed (`StreamKept`) | three devices with two names, one of them the empty one, so that devices share a name, differ or have none; two indices and the default, the code's own times; `Horizon` is one second beyond the longer bound, and `steady` stays there |

Types are checked in `adapt` (`AdaptTypeOK`), where the clamped arithmetic is the
question, and proved for every module with a proof. Deadlock is checked everywhere. Symmetry (of sessions, commands, daemons and
ports) is used only in `receiver` and `control`, which have no liveness property.

### Fairness

Only `Reconnect` and `Adapt` have liveness properties. `Devices` states its
recoveries as bounds on time instead: a second passes only when no thread or task
is due, which is to say that the operating system runs them within the second and
that a device opens, or is refused, within it.

- `Reconnect` assumes that timers fire and tasks end (tokio schedules them), that
  a stopped receiver is started again (`KeepAlive` of the launch agent and the
  restart settings of the scheduled task under `scripts/`), and that of the
  HELLOs, answers and feedback, each repeated at least every second or two, one
  gets through. Losses that matter (an answer lost until the deadline, three
  seconds without feedback, ten without any datagram) are faults and draw on
  `MaxFaults`; there is no fairness for any fault. `Reconnects` says that when
  the faults end, the session is up for good.
- `Adapt` assumes that trains (every 30 s), feedback (every 400 ms) and audio
  (every 5 ms) go on, weakly fair for the undisturbed form of each. There is no
  fairness for disturbances and changes of path, of which there are boundedly
  many.

### Findings

- `receiver_limit`: a session that expired and says HELLO again is made active
  whether or not `ensure_stream` finds it a slot (`transport/receiver.rs:160`).
  With all slots taken it counts as connected and gets feedback without a stream,
  and `expire` never deactivates it: more than `MAX_STREAMS` sessions are active,
  against `README.md:95`.
- `session_two`: `bind_peer` starts the counter again at each change of epoch
  (`transport/sender.rs:142`), under an unchanged session id. A sender that goes
  from receiver A to B and back to A, A's epoch being the same, counts from 1
  under a window that has granted more, and A refuses it until the counter has
  caught up, against the promise of `tests/security_idle_replay.rs:47`. With one
  receiver (run `session`, theorems `SealsOnce` and `ReconnectIsFresh`) this
  cannot happen.

- `gain_saved`: `apply_volume` sets the master gain before it looks for the stream,
  and `volume` saves it only after the daemon's answer (`daemon/mod.rs:548`,
  `cli/mod.rs:314`). When the stream is unknown or the answer is lost, the gain is
  heard and not saved, against "Master gain is saved across restarts" of
  `cli/mod.rs:74`. `GainKept` says what does hold.

Some things that are not findings. `README.md:97` says that on recovery the
profile steps up one level at a time: so it does within a session (`OneStepUp`),
while the first train after a reconnect (`gradual` is false) goes straight to
what it found. The receiver's own buffer target never comes to rest under steady
jitter (`ReceiverAdapt::observe` goes five ms down and up); playback does
(`TargetSettles`), because the sender's suggestion is the larger of the two.
The output's worker compares names (`audio/playback.rs:162`): when the default moves
to an output of the same name, or between two whose names cannot be read, the stream
stays where it was, and when the default is renamed or its name cannot be read at
one look, a stream that works is closed and opened again. No document promises
otherwise; `PlaybackReturns` says "of the default's name", and `StreamKept` counts a
change of a name among the events.

## What is proved

Every theorem holds for all values of the constants that satisfy the modules'
`ASSUME`s (positive sizes, finite sets of receivers, sessions or devices, numbers
from 1, paths with a rank, a jitter and a delay, a grace no shorter than any pause
and longer than the patience, only `volume` changes the gain) and, where stated,
one more assumption. The shape is the same everywhere: an inductive invariant,
proved for `Init` and kept by each action, with the properties read off it. TLC
checked the invariants on the small instances before.

| Module | Theorems | Inductive invariant, and why it is needed |
|---|---|---|
| `ReplayWindowProofs` | `TypeCorrect`, `NoReplay`, `BitmapCorrect`, `Refinement` | `AtMostOnce` alone is not inductive: nothing would tie a bit to a past grant. `BitmapExact` does, and makes every answer the reference's |
| `JitterBufferProofs` | `TypeCorrect`, `CursorCorrect`, `LatencyCorrect`, `SlotsCorrect`, `ForwardOnlyPlayout`; for `Playout` `NothingHeardTwice`, `WaitingIsUnheard`, `PlayoutConsistent`, `PlayoutForward`, `PlayoutImplementsBuffer` | the properties need each other, and the numbers held must be bounded for a newest to exist; what push hands to `trim_latency` lies at or after the position, which moves to a later packet or not at all (`Trimmed`). Behind the window: what was heard was granted (`HeardGranted`), so with the window's own invariant a packet pushed now was not heard; a held packet stays unheard because the position never goes back, and an iteration plays only what lies between the position it finds and the one it leaves |
| `JitterBufferProofs`, the loop | `LoopImplementsBuffer`, `OtherExitsDead` | `LoopInv`: since the pull began, the frames done are those between the place it found and the place it is at, the packets taken are those in between, and some packet was at or after each place passed (`Began`). With it the last iteration is at the quotient and the remainder that the closed form computes, and `Starve` is reached exactly when the closed form finds no packet late enough |
| `ReceiverProofs` | `TypeCorrect`, `StreamsCorrect`, `CapacityCorrect`, `NoReapplication`, `FeedbackSealedOnce`, `StreamsNotEvicted` | `AppliedExact` and `SealedExact` say where a zero of the history is certain: what a window has not granted, and counters not reached, under this epoch and those to come |
| `LossTrackerProofs` | `TypeCorrect`, `ReportIsExact`, `WindowIsExact`, `ReorderIsForgiven`; for the composition `ArrivalsCountedOnce`, `ArrivalsReportExact`, `ArrivalsReorderForgiven`, `ArrivalsRefinement` | given-up numbers are below the cursor (`GivenUpSettled`), so none is given up twice; the cursor trails the newest number by the tolerance; what came and is not settled is in the set (`WindowExact`). Behind the window: a number counted has been granted, so with `BitmapExact` it is not granted again, and `Arrivals` takes only steps of `LossTracker` |
| `SessionProofs` | `TypeCorrect`, `FeedbackFresh`; `SealsOnce` and `ReconnectIsFresh` for one receiver | `FeedbackInv`: no epoch is shared, and every report under an epoch is counted at its receiver. `AudioInv`: with one receiver the engine's epoch is never beyond the receiver's, and nothing above the counter was sealed, sent or granted |
| `RecoveryProofs`, sessions | `TypeCorrect`, `OneVerifyOnly`, `ForwardOnly`; `HealthyIsKept` when no two receivers share the name asked for | ids are drawn upwards and answers are not older than what the engine is bound to (`IdsOrdered`); the instance found names its receiver (`InstancesOwned`), a name only its holder (`NameKept`) |
| `RecoveryProofs`, devices | `PlaybackAlwaysReturns`, `CaptureAlwaysReturns`, `StreamIsKept` | that audio is back after so many quiet seconds is not inductive: it says nothing of the way there. `DevicesInv` bounds how long each state on the way can last (`PlaybackDue`, `CaptureDue`: `rest + steady <= 2` while the worker waits, a silent stream's `quiet` and `age` no less than `steady`) and says that an error, a changed name or a lost default is not old when it is seen (`Shape`). `StreamIsKept` is read off the same bounds: each step that opens or closes a stream starts in a state that cannot have lasted so long. That an open which must succeed finds a device rests on `NthExists`: the k-th of the host's list is there when more than k devices are |
| `LinkProofs`, probes | `TypeCorrect`, `CreditsAreDelivered`, `ReportsAreTruthful`, `FloorIsBacked` | no probe is sent twice and none on the way was counted (`NetFresh`), so each count stands for distinct probes; the counts, the reports made of them and the credit taken from those inherit it |
| `LinkProofs`, adaptation | `AdaptTypeCorrect`, `KeptWithinFloor`, `UpOneStep` | `WithinFloor` is inductive with the types: a verdict sets profile and floor together, feedback only makes the profile worse. The types need the bounds of the clamp, of the two walks towards a wanted buffer and of a division |
| `ControlProofs` | `PrefTypeCorrect`, `FoundIsReadable`, `Refinement` for `Preferences`; `EndpointCorrect`, `AnswerIsStrangers`, `ControlFound`, `ControlRefinement`, `GainIsKept` for `Control` | a command that holds a draft is past its read, and every draft is a setting (`DraftsOrdered`); one daemon holds the lock (`LockHeld`), a port belongs to the daemon that has bound it and not yet dropped it (`PortsOwned`), and a connection to a live one (`TakenLive`). Each step of `Control` is one of `Preferences` or leaves it alone. `GainKept` speaks of moments with no command about, so `GainInv` says what holds within one: the command noted as alone is the only one in flight (`AloneIs`), its draft has the gain it was given or found (`DraftsTold`), and the daemon has that gain from the answer on (`AnswerHeard`) |

Only model-checked: the liveness properties `Reconnects`, `ProfileSettles` and
`TargetSettles`, which liveness under fairness puts out of the prover's reach. Every
invariant, action property and refinement that a passing run checks is proved as
well, three of them under the further assumption the table names. What a theorem
takes from the code as a number (the profiles, thresholds and bounds in `Adapt`; the
seconds between retries and looks at the default device in `Devices`) is the code's
own; paths, devices, grace and patience are any that the `ASSUME`s allow.

The bounds on epochs, feedback counters, trains and reports (`MaxEpoch`,
`MaxFeedback`, `MaxCounter`, `MaxGen`, `MaxReports`) stop an action at the bound
and exist for TLC; the theorems hold for every value of them.

## What is not modelled

- Contents: PCM samples, ADPCM, mixing and gains, byte layouts, addresses of
  datagrams, logging. Pure functions, with unit tests of their own.
- The cipher is ideal: what does not open changes nothing and is left out.
- Timing as numbers: a timer that fires is a step. The pacing of probes and audio,
  the goodput arithmetic of a train, the loss and round-trip estimates.
- Callbacks that find the mixer locked play silence and change nothing.
- The capture ring, the null and synthetic devices, sample formats, a driver that
  takes longer than a second to open, a COM initialisation that fails.
- `pairing.json` and the `pair` command; `nodes`, `devices` and `status`, which
  change nothing.
- The choice among several discovered addresses (`dedup_prefer_direct`): a pure
  function, with a unit test.
- The legacy Go program, kept beside the Rust one and not interoperable with it.
- Installers, packaging, and the Python tools.

`PROJECT.json` lists every hazard with its line and the properties that cover
it, or why none does.

## Plan

Done, in this order: replay window, jitter buffer, playout, receiver, reconnect,
session, loss tracker, probes, adaptation, arrivals (window and loss count
composed), preferences, control, devices.

Next:

1. The end-to-end session: `Session` under the rebinding of `Reconnect`, with
   the abstract specification of a channel that delivers each packet at most
   once.
2. `Discovery`: several answers for one receiver and the address `run_sender` ends
   up with.
3. The legacy Go transport (reconnection, frame tracker), mixer and discovery.
