# A TLA+ development for dave-go

dave-go implements DAVE, the end-to-end encryption of Discord voice calls: an MLS
group per call, driven by opcodes of the voice gateway, gives each member a key
ratchet per epoch, and media frames are encrypted under it. This directory holds
TLA+ modules for the library, TLC configurations that check them on small
instances, and proofs for TLAPS. `PROJECT.json` links each definition to the
source lines it models and lists runs, mutants, hazards and theorems.

## 1. The system

| Part | Source | State | Operations |
|---|---|---|---|
| Session handlers | `session/session.go`, `session/mls.go` | versions, active/pending epoch, MLS client and group, our unconfirmed commit and the snapshot before it, proposal queue, transition ID | `On*` for opcodes 4, 21, 22, 24, 25, 27, 29, 30; `SetChannelID`, `AddUser`, `RemoveUser` |
| Recovery | `session/mls.go`, `retry.go`, `close.go` | `epochReady` channel, `recoveryAttempts`, goroutines, shutdown context | arm, time out, report, new key package with back-off, `Close`, `WaitShutdown` |
| Send path | `session/session.go`, `mediakeys/nonce.go` | send ratchet, retained ratchet and expiry, nonce counter | `Encrypt`, activation, reset, drop |
| Receive stream | `mediakeys/nonce.go`, `mediakeys/ratchet.go`, `session/replay.go` | expander, ratchet base and cache, replay ring, per sender and epoch | `Decrypt`'s expand, get key, authenticate, commit, mark |
| Receive path across epochs | `session/session.go`, `session/mls.go` | active, pending and retained epochs, plaintext grace | `Decrypt`, retention, pruning, the plaintext policy |
| Reports | `session/state.go` | the channel a waiter holds | `State`, `Ready`, `ShouldHoldFrames`, `WaitReady` |
| Frame format | `frame/` | none | `Encrypt`, `Decrypt`, `Parse`, ranges, ULEB128, the 8-byte tag |
| Codecs | `codecs/` | none | unencrypted ranges of VP8, H264, H265, AV1; the H26x retry |
| The call as a whole | sessions and gateway | connections, the gateway's group | competing commits, removal, re-join |
| Key export, displayable code | `mediakeys/` | none | pure functions |
| MLS | mls-go, not in the repository | group state in a store | create, propose, commit, process, join |

**How they interact.** The gateway's connection calls the handlers one at a time:
`sendMu` is held for a whole handler. `mu` protects the fields and is released
only while a callback sends something (`sendLocked`). So frames, `AddUser`,
`SetChannelID` and the accessors interleave with the two halves of a handler;
other handlers and the watchdogs do not. A watchdog takes `sendMu` for each of
its steps and holds nothing while it waits or backs off. A watchdog belongs to
one `epochReady` channel: closing the channel, on activation or on a reset that
replaces it, tells the goroutine it has been superseded. `WaitReady` reads the
same channel under `mu` and waits on it without.

**What is hard here.** A commit is merged locally before it is sent and must be
undone if the send fails or a peer's commit wins. Proposals that arrive behind a
pending epoch are queued and drained by its activation, which may commit again.
One nonce counter serves two ratchets. A timeout races the activation it waited
for. Frames of old epochs are in flight across transitions. The nonce on the wire
wraps. The hazards in `PROJECT.json` give the lines.

**What correctness means.** No nonce is used twice with a key. The pending epoch
is where the MLS group stands, and all sessions of a call follow one history of
epochs. Our own commit can always be undone, and is watched until confirmed. A
lost key package is noticed. Watchdogs never work against each other or against a
session that has recovered, and all exit after `Close`. A frame is delivered at
most once, and one that arrives in time is delivered. What is sent can be read
back, and leaves nothing but codec metadata readable.

## 2. Modules

| Module | Models | Notes |
|---|---|---|
| `ReplayFilter` | what a replay window promises | abstract: a set of all accepted nonces, no ring |
| `AntiReplay` | `antiReplayWindow` | one action per branch of `checkAndMark` |
| `MediaStream` | `senderState` under `Decrypt` | extends `AntiReplay` with expander and ratchet |
| `SendPath` | the send side | `Encrypt`, expiry of a retention, reset, drop, activation |
| `EpochTable` | what a session promises about its epochs | abstract: no group, commit or callback |
| `Receiver` | `Decrypt` over all epochs of a session | extends `EpochTable`; a stream is a `ReplayFilter` |
| `Session` | handlers, MLS group, watchdogs, `WaitReady`, `Close` | extends `SendPath`, whose actions it conjoins |
| `CommitRace` | several sessions, the gateway, the connections | the handlers again, as functions from state to state and messages |
| `FrameFormat` | `frame/` | operators on bytes |
| `Codecs` | `codecs/`, and how `Session.Encrypt` calls it | extends `FrameFormat` |
| `MediaStreamProofs`, `ReceiverProofs`, `SessionProofs`, `SessionWatchdogProofs`, `CommitRaceProofs`, `FrameProofs`, `CodecsProofs` | | theorems, section 5 |
| `ByteProofs` | | lemmas on bytes, sequences and ranges for the last two |
| `MC*` | | finite sets, payloads, symmetries and initial states for TLC |

How they fit together:

```
ReplayFilter <== AntiReplay <-- MediaStream        A <== B   B implements A
      ^                                            A <-- B   B extends A, or uses it
      |
   Receiver --> EpochTable <== Session ==> SendPath
FrameFormat <-- Codecs              CommitRace (several sessions)
```

The receive side is thus checked in three layers. The stream of one sender in one
epoch implements the filter (`RefinesFilter`). The session implements the table of
epochs (`RefinesEpochTable`). `Receiver` puts a filter behind each epoch of the
table and shows what holds across epochs.

**Conventions.** A definition has the name of the Go function it models where
there is one. A handler that sends is split at the send, since `mu` is free there:
`OnDaveMLSProposals` ends in `sending = "commitSend"` and `CommitWelcomeReturns(ok)`
goes on. `sending` thus stands for `sendMu` and the handler's program counter;
`"drain"` is a point between two rounds of a drain, where `mu` is held too. An
early return that changes nothing is no action. Definitions whose comment says
`mutant` are plausible bugs; none of the specifications uses them.

**Abstractions in `Session`.**

- An epoch is a number for its secret and the set of its members. Each commit and
  each Welcome gives a secret never seen before, as MLS guarantees. A group also
  holds the proposals cached and the members with two leaves, for which
  `rebuildEpochStateLocked` refuses to build an epoch.
- A proposal batch is a set of users to add, one to remove, an operation (append,
  revoke, or one the code does not know) and whether it holds a message mls-go
  refuses. It belongs to the gateway's epoch at the time it was sent.
- A commit or Welcome is refused by mls-go, which then has changed nothing, or by the
  session after mls-go took it: for two leaves of one user, or a Welcome with another
  external sender (`CommitUnusable`, `WelcomeUnusable`). The group is then ahead of the
  session until the report has been sent and everything is dropped.
- The channel `epochReady` is one bit for the current channel and one per
  goroutine or waiter, for the channel it holds. A goroutine whose channel is
  closed can only exit; its slot may be reused when all are taken.
- Time is whether a timer has gone off. Timers may go off at any moment.
- The gateway may call any handler with any argument at any time, with one
  exception: `execute_transition` is not sent for transition 0, which takes effect
  when it is announced (`protocol.md`).
- `pendingTransitionID` becomes 0 at an activation before the drain's sends, in the
  code after them. Nothing reads it in between but a log line and the transition
  that a watchdog would report.
- Left out: a session without callbacks, failures of the random generator and of
  key package creation, and the branch where a rollback finds no snapshot, which
  `RollbackPossible` shows unreachable.

**Abstractions in `MediaStream` and `Receiver`.** A frame is its full nonce, in
`Receiver` with its epoch; a key is its generation. A frame authenticates exactly
under the key of its epoch and generation; AES-GCM is assumed to do that. Cached
keys, retained epochs and the plaintext grace expire at any time. `Receiver` follows one
sender: streams of different senders share nothing but the epochs.

**Abstractions in `CommitRace`.** The group is established from the start. An epoch is
the sequence of those whose commits led to it, so that equal epochs have equal
histories. The gateway is the one `protocol.md` describes: it accepts the first
commit on its epoch that references all unrevoked proposals, announces it, removes
a member that reports an invalid commit and proposes to add a new key package.
Connections are FIFO, as a websocket is, and sends do not fail; in `Session` they
do. A batch holds one proposal. A drain is one step (`Drain`) per round of its loop,
as other sessions and the gateway go on between its sends; its own next message and
its watchdog wait for `sendMu` until the loop has ended (`draining`). `ready_for_transition` is left out, since the
gateway executes when all are ready or after its own timeout: at any time.
Members that are not our sessions commit at will.

**Abstractions in `FrameFormat` and `Codecs`.** Bytes, sizes and widths are scaled: a
byte has 4 bits instead of 8, ULEB128 carries groups of 3 bits instead of 7,
`ValueLimit` stands for 2^32, `IntLimit` for the largest int (of a 32-bit build,
where uint32 overflows it; AV1 sizes are computed in 64 bits). The proofs of section
5 hold for the widths of the code as well. A loop of the code is a function from
the number of its rounds to its state (`parseRanges`, `h26xRanges`, `parseOBUs`). AES-GCM is a stand-in that depends on nonce, header and plaintext,
with a truncated tag. The allocating forms of the API are the `Into` forms with a
buffer that is always large enough. The entry points of `codecs` refuse video today
(`codecs/errors.go`); the code behind that refusal is modelled all the same.
`Session.Encrypt` never gets that far: to `toCodecKind` every codec but Opus is
unknown, and what is unknown is sent as Opus (`EncryptMedia`). `CallEncryptInto` is
another caller of the package, who may name any codec; `used` is the counter of
either.

## 3. Runs

Sizes are distinct states.

| Run | Checks | States |
|---|---|---|
| `media_stream` | nonces 1..10, truncated modulo 8, generations of 2, window 3, gap 2 | 689 528 |
| `send_path` | three ratchets, counter to 5, generations of 3, truncation to 4 | 783 314 |
| `session_versions` | from `New`: versions 0 and 1, transitions, two epochs, frames | 843 960 |
| `session_commits` | an E2EE call with four epochs, queue of two, all kinds of payload | 1 328 252 |
| `session_watchdogs` | two goroutine slots, two recovery attempts, two send attempts | 2 054 172 |
| `session_liveness` | two goroutine slots, one waiter, one recovery attempt | 88 246 |
| `receiver` | three epochs, three frames of each, window 2, versions 0 and 1 | 52 698 |
| `codecs` | media of up to 8 bytes, lists of up to 6 ranges, packets of up to 8 bytes | 118 709 |
| `commit_race` | two sessions, a guest, other members, one re-join each | 1 352 865 |

`session_commits`, `session_watchdogs`, `session_liveness` and the run
`new_member_blackout` start right after `select_protocol_ack` of version 1
(`Connected` in `MCSession`); the state is one that `session_versions` reaches
from `New`.

**What the properties say.**

- `RingMatchesHistory`, `RefinesFilter`: the ring answers as if it remembered
  everything, except that it refuses what is a window or more below the highest.
- `StreamInStep`: expander, ratchet and window agree on how far the stream is,
  whatever failed to decrypt. `NonceRecovered`: frames are marked under their true
  nonce across the wrap. `ExpectedFrameDecrypts`: a frame in time decrypts.
- `NonceUnique`, with `SendInv` as its reason; `NeverReturnsToOldKey`.
- `RefinesSendPath`, `RefinesEpochTable`: every step of a session is a step of the
  abstract module or leaves its state alone, so what is proved there, and of
  `Receiver`, holds for the session.
- `SendKeyOfActiveEpoch`, `PendingEpochIsTheGroups`, `RollbackPossible`,
  `QueueWaitsForPendingEpoch`: consistency over commits, rollbacks and resets.
- `UnconfirmedCommitWatched`, `DroppedKeyPackageWatched`, `OneSupervisor`,
  `KeyPackageOfCurrentClient`, `ReadyEpochNotRecovered`, `QuietAfterClose`: the
  watchdogs.
- `WaitShutdownReturns`, `RecoveryGivesUp`, `WaitReadyReturns`: after `Close` every
  goroutine exits; with a gateway that has fallen silent, recovery ends; a caller
  of `WaitReady` does not sleep through a ready session.
- `DeliveredOnce`, `InFlightFrameDecrypts`, `OldKeysUnused`: a frame is delivered
  once over all epochs, is not lost to a transition, and the keys of expired or
  discarded epochs decrypt nothing, even if nothing has pruned them.
  `RefusalLastsUntilV0`: plaintext once refused stays refused.
- `SealedFrameOpens`, `OneSetOfBytes`, `RangesPartitionFrame`: what `Encrypt` returns,
  `Decrypt` opens; a frame has one encoding; ranges that `Parse` accepts cut a
  packet into pieces, at the limits of the integers.
- `CodecRangesAccepted`, `OnlyMetadataReadable`, `AV1FrameSplitsAgain`, `NonceUsedOnce`:
  the ranges a codec asks for lie in the frame, one after the other, and those of VP8
  always leave a footer that fits; they leave only metadata in clear; the AV1 frame
  sent has the units of the original; and through the entry points the H26x retry
  takes no nonce twice.
- `OneHistory`, `InStepWhenQuiet`: whichever commits win, a session sends and builds
  on epochs of the gateway's history only; having read its messages it is in the
  gateway's epoch with every proposal at hand.

**Bounds.** `MaxSecret` bounds the epochs of a run; four let a commit be pending, be
rolled back, lose to a peer and be followed by a drained one. `MaxQueue` is two so
that a drain stops in the middle. Two watchdog slots are enough because only one
goroutine can be on an open channel (`OneSupervisor`). Two recovery attempts and
two send attempts make "one left" and "none left" differ; `session_liveness` makes
do with one recovery attempt and no peers, and `session_commits` and
`session_versions` with none, as their properties do not concern recovery.
`MaxCounter` lets the counter pass a generation and wrap its truncation.
`MaxGenerationGap` is half a cycle, in the code a whole one, so that it bites.
In `receiver` the third frame of an epoch makes its first too old, and three
epochs let two be retained while one is active. `MaxKeyPackage` is two: a session
of `commit_race` can be thrown out and join again. `FrameOverhead` is scaled with
the tag and the footer, so that the buffer of `Encrypt` fits exactly where the
code's does. `MaxPacket` and `MaxRanged` bound the packets and the ranged frames
enumerated, `MaxFrames` the frames of a stream.

**Symmetry** is used where epochs (`receiver`) or sessions and guests
(`commit_race`) are told apart by identity only. `receiver` has one action
property and no liveness property.

**Deadlock** is checked except in `codecs`, where a stream ends, and
in `commit_race` and `queued_proposals`, where the bound on key packages and the
supply of guests end a behaviour.

**Limits of a property.** `QueueWaitsForPendingEpoch` holds while the call stays
E2EE: a downgrade forgets the group and keeps the queue, until the reset of the
next upgrade. `PendingEpochIsTheGroups` leaves out the send of
`invalid_commit_welcome`: if mls-go took a message that the session then refused,
the group is ahead of an older pending epoch until the report returns and both are
dropped. `sendMu` is held meanwhile, so nothing is activated; `Decrypt` and the
accessors read the pending epoch alone. `CodecRangesAccepted` does not say that every frame of H264, H265 or AV1 could be
encrypted: with many units the ranges need more than the 255 bytes of a footer, and
`frame.Encrypt` refuses the frame (`encrypt.go:188`).

**Fairness.** `Fairness` assumes that callbacks return and that a goroutine with
something to do is scheduled; a waiter whose channel is closed wakes. It is strong
for steps that need `sendMu`, which others may take in between: Go's `sync.Mutex`
hands itself to a waiter that has starved for a millisecond. `TimersFire` is an
assumption of `RecoveryGivesUp` only: `WaitShutdownReturns` needs no timer.

## 4. Where comments and code differ

Three runs are expected to fail; each states what a comment or `protocol.md` says.

- `nonce_zero`: the first ratchet after a downgrade starts from the old counter.
- `new_member_blackout`: after a reset, the retained ratchet stays in use although
  the new epoch has members who lack it.
- `queued_proposals`: a session whose own commit lost has queued the proposals that
  came after it. A winning commit that references them is refused, and the session
  leaves and re-joins the group.

Other places met while modelling, which no run is about:

- `State()` reports `Ready` and a `DegradedSince` at once when a commit or Welcome
  was refused and the old epoch is still in use (`state.go:16`, `mls.go:971`).
- A commit's watchdog is armed without looking at `maxRecoveryAttempts`, so its
  timeout counts one beyond it (`session.go:148`, `mls.go:1059`).
- `EpochAuthenticator` is that of the pending epoch while there is one
  (`mls.go:671`).
- An epoch of our own commit, not confirmed yet, is activated if an
  `execute_transition` carries the transition ID left from before (`mls.go:1173`);
  a gateway that keeps to `protocol.md` sends none.
- A revocation does not commit the proposals that remain cached, as
  `protocol.md:176` asks; another member does, or the next proposal triggers it.
- `WaitReady` polls without sleeping while the active epoch does not include us,
  for its channel stays closed.
- When every nonce of the H26x retry yields a start code, the last result is used.
- Recovery can chase itself if each Welcome is overtaken by a newer key package;
  `maxRecoveryAttempts` counts timeouts only.

## 5. Proofs

All for arbitrary constants that satisfy the named assumptions.

- `MediaStreamProofs`, the window (from `WindowAssumption`, `NonceAssumption`): `TypeCorrect`;
  `RingCorrect`, where `RingMatchesHistory` is inductive given the types, because
  two nonces less than a window apart have different slots; `WindowRefinesFilter`,
  from that invariant: each branch of `checkAndMark` is a step of the filter.
- `MediaStreamProofs`, the stream (and from `CycleAssumption`, that a cycle holds whole
  generations, and `GapAssumption`): `StreamTypeCorrect`, `StreamStaysInStep` and
  `NoncesRecovered` from `StreamInv`. None is inductive alone: the
  base generation follows the highest nonce because no cached key is
  further ahead than the gap (the types), the window is marked under the
  nonce of the frame because two nonces of one generation that look the same on
  the wire are equal (`SameNonce`), and the zero value of the window counts as the
  highest nonce until the first frame. Then every step of the stream is one of the
  window (`StreamUsesWindow`), so `StreamRefinesFilter` follows from the theorems about
  the window. `ExpectedFramesDecrypt` rests on `NearExpansion`: a nonce less
  than half a cycle from the highest is expanded to itself.
- `SessionProofs`, the send side (from `SpanAssumption`, `CounterAssumption`): `SendTypeCorrect`; `NoncesNeverRepeat`, where `NonceUnique` is
  not inductive alone. `SendInv` adds that the nonces used with the ratchet the
  counter belongs to are among the counter's values so far, and that a ratchet
  waiting behind a retained one is unused, so that resetting the counter repeats
  nothing; `OldKeysStayRetired` follows from the same invariant, which is also a
  theorem by itself (`CounterExplainsNonces`).
- `ReceiverProofs` (from `NoEpochAssumption`, `FrameAssumption`): `RecvTypeCorrect`,
  `FramesDeliveredOnce`, `InFlightFramesDecrypt`, `OldKeysStayUnused`,
  `PlaintextStaysRefused`. The inductive invariant relates the windows to the
  frames delivered (what is delivered of an epoch is what its window took, and an
  epoch not built has none) and the retained epochs to those replaced since the
  last reset.
- `SessionProofs`, the session (from the named assumptions of `Session`): for any number of members, epochs,
  queued batches and watchdogs, `PendingEpochCorrect`, `RollbackAlwaysPossible`,
  `SendKeyCorrect` and the types (`SessionTypeCorrect`), along `SessionInv`.
  The three properties need each other and more:
  - `HandlerInv`: what a handler knew before its send still holds after it (no
    group behind the key package of a creation, room in the bounds), though `mu`
    was free in between. It rests on `SendMuInv`, that a watchdog is in a send only
    while no handler is.
  - `EpochInv`: a secret is activated only after it was built, a pending epoch's
    never before, and neither the group's nor the snapshot's is built while the
    session has no epoch. So the epoch that an activation installs has a send
    ratchet never used before: this is what `ActivateFreshKey` of `SendPath` asks.
  `SessionRefinesSendPath` follows: every step of every handler, watchdog or
  caller is a step of the send side or leaves it alone. `SessionNoncesUnique`
  then takes `NoncesNeverRepeat` over: no session ever uses a nonce
  twice with a key, through commits, rollbacks, resets, recovery and downgrades.
- `SessionProofs`, the epochs (and from `0 \in Version`, in the statement, since a
  downgrade announces version 0): `SessionRefinesEpochTable`, from the same
  invariant: each step announces, builds, activates, discards or resets epochs
  as `EpochTable` does, or is invisible there. A built epoch is new to the
  table because its secret is (`NewEpochIsNew`).
- `SessionWatchdogProofs` (and from `WatchdogAssumption`, that there is room for a
  goroutine): `OneSupervisorCorrect`, `ReadyEpochCorrect`, `KeyPackageCorrect`,
  `UnconfirmedCommitCorrect` and the action property `QuietAfterCloseCorrect`, along
  `WatchInv`, which holds next to `SessionInv`. Its core is that whoever has an
  open channel has the current one: whoever starts a goroutine has closed the
  channel of the others first, or is the watchdog it takes over from, and `sendMu`
  keeps handlers from replacing the channel during a watchdog's send. A commit keeps its watchdog because every
  handler that arms another one has confirmed, rolled back or dropped the commit.
  `QueueCorrect` and `DroppedKeyPackageCorrect` are about calls that stay E2EE
  (`ConnectedSpec`, with 1 and without 0 in `Version`) and follow from `E2EEInv`,
  which says at which point of which handler the queue may be without an epoch, and
  a key package without a goroutine.
- `CommitRaceProofs` (from `RaceAssumption`, `NilAssumption`), for any number of
  sessions, guests and key packages: `OneHistoryCorrect`, along `RaceInv`. The epoch
  that executes is one the gateway announced because a session with a transition
  prepared has an epoch pending and no commit of its own unconfirmed: it cannot make
  one, since proposals are queued meanwhile, and the handlers that end this state
  end the transition too or drop the group.
- `CommitRaceProofs`, from the same: `InStepWhenQuietCorrect`, along `FollowInv`, a
  statement about what is in flight. Either the last announcement, its execution
  and all proposals made since are still among the session's messages
  (`toFollow`), or the session has read the announcement, and execution and
  proposals are each still to be read or taken in (`upToDate`). This needs that a
  revocation read or drained late concerns no proposal the gateway still has
  (`revokeInv`), that key packages reach the gateway in order (`keyPackageInv`), and
  that the gateway counts a session that follows its group as a member, with
  nothing but commits on its way from it (`memberInv`).

- `FrameProofs` (from `WidthAssumption`, that five bytes of ULEB128 hold a uint32 and four
  do not; `FrameAssumption`, that a footer without ranges has a size of one byte, and
  that frames with ranges are shorter than the limits of int and uint32; and, with a
  counter that does not wrap, `CodecAssumption`), for all widths, frames, lists of
  ranges and nonces. Four theorems are about the operators:
  - `DecodeOfEncoding` and `EncodingOfDecoded`: numbers are read back, whatever follows
    them, and have one encoding. The digits below a byte are worth less than
    one unit of it (`DigitSums`), and the last byte of a number is not zero.
  - `EncryptedOpens`: `Decrypt` undoes `EncryptWithCipher`. The ranges and the gaps
    between them cover the frame, each byte once (`GapsCover`), so what
    `appendInterleaved` puts in the gaps, `ExtractCiphertext` takes out, and
    the bytes in the ranges, the additional data, stay as they were
    (`InterleaveBack`). The footer comes apart because its size is in its last byte and the
    ranges are read one by one until none is left (`RangesReadBack`).
  - `ParsedFrom`: a packet that is accepted consists of the parts `Parse` returns.
    A range that does not fit an int becomes negative and is refused by
    `ValidateRanges`, so those that remain have the bytes they were read from
    (`RangesHaveBytes`).

  From these follow the invariants of the run `codecs`: `CodecFrameOpens`
  (`SealedFrameOpens`), `CodecOneSetOfBytes`, `CodecRangesPartition` and
  `CodecNonceUsedOnce`, along `CodecInv`: the packet that was sent is the encryption of
  the media, and the i-th frame went out with nonce i or was lost.
- `CodecsProofs` (from the same), for every media frame; all it needs of a behaviour is
  that the media is bytes.
  - `CodecMetadata` (`OnlyMetadataReadable`): start codes do not overlap (`CodesApart`),
    and each round of `h26xRanges` begins at one, with exactly the metadata before it
    readable (`passed`). A round ends at the next code, which `findNextStartCode` finds
    (`NextIs`), and when the loop ends no unit is left (`AllBegun`).
  - `CodecFrameSplits` (`AV1FrameSplitsAgain`): a unit that has a size, or is the last, is
    read back as it was written (`ParseOfUnit`); `lastUnsized` leaves only such units,
    since one without a size takes all that follows (`KeptUnits`). The ranges are the heads of the
    units, so the gaps are their contents (`ExtractOfUnits`).
  - `CodecRanges` (`CodecRangesAccepted`): in each codec a range begins where the last one
    ended or later, and the footer of a frame with at most one range fits in a byte
    (`OneRangeEncrypted`, from the last part of `CodecAssumption`).

  The authentication tag is a stand-in here: the theorems say that what is sealed
  opens, not that nothing else does.

**Induction over data.** The induction theorems of the library take the property as a
parameter, which the provers cannot fill in. `ByteProofs` goes around this: `NatSetInduction` is about a set
of numbers, from the least number outside it, and each use gives the set of those for
which the statement holds. For a recursive function, `IterationExists` shows that there is
one with its values (`FlattenIs`, `ParseRangesIs`, `H26xRangesIs`, `ParseOBUsIs`).

**Checked by TLC only:** the liveness properties `WaitShutdownReturns`, `RecoveryGivesUp` and
`WaitReadyReturns`, as fairness is out of the prover's reach. Every other property of a
passing run is also a theorem.

From nothing, the proofs take a little over an hour on one core.

## 6. Not modelled

- Key export and the displayable code: derivations with fixed labels and a
  conversion of bytes to digits, with no state and no branches worth exploring.
- The KDF and AES-GCM themselves: cryptography, taken as ideal.
- The parsing of MLS messages by `readTLSVectorLength` and mls-go: what is
  accepted or refused is modelled, not the bytes.
- `Stats`, counters that nothing reads; logging; the examples, programs that use the
  library.
- Liveness of a call (that a removed session is a member again in the end): it
  needs an unbounded supply of key packages and assumptions about the delays of the
  gateway that the code cannot make.
