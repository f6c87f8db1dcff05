# Verification of the RP-1 client

TLA+ models of the Rust client for the RP-1 protocol, model-checked with TLC and
proved in part with TLAPS. Paths below are relative to the repository.

## 1. The system

A program connects, gets a `Connection`, clones it freely and calls commands
(`ping`, `get`, `set`, `del`, `exists`) and `close` on the clones from many tasks.
One driver task owns the transport of a session.

| Part | Source | State | Operations |
|---|---|---|---|
| Request identity | `src/connection/dispatch.rs` | the allocator's count, the registry of live identifiers | `allocate`, `insert`, `retire`, `live_ids` |
| Command execution, admission | `src/connection/mod.rs` | semaphore and its queue, submit channel, one completion channel per call | `execute`, `acquire_permit`, `allocate_id`, `submit`, `completion_lost`, dropping the future at any await |
| Driver | `src/connection/driver.rs` | registry, completion map, read buffer, `submit_closed` | the three branches of the biased `select!`, `write_all`, `drain_frames`, `fail_all`, `mark_state` |
| Lifecycle, close, drop | `src/connection/mod.rs` | `ConnectionState` under its lock, shutdown sender, join handle | `close` and its helpers, `Shared::drop` |
| Codec | `src/protocol.rs` | none | `decode`, `encode_with_max`, of the two payloads of the handshake too |
| Establishment | `src/connection/mod.rs`, `src/protocol.rs` | configuration, read buffer, negotiated bounds | `validate`, `connect`, `establish`, `write_all`, `read_handshake_response`, `interpret_response` |
| Commands | `src/command.rs` | none | `encode_*`, `interpret_*` |
| Transport | `src/transport/mod.rs` | a byte stream | `read`, `write`, `shutdown` |
| Validation runner | `tools/validation-runner` | records on disk: manifest, journal, evidence, summary | `select_record`, `execute`, `reusable`, `attempt`, `seal_state`, `closes` |

How they interact: a call takes a permit, an identifier and a place in the submit
channel, and waits on its completion. The driver registers the identifier, writes
the request, reads frames in any order, decodes each against the live identifiers
and completes the call it names; the caller decodes the frame a second time. The
session ends by a close, a fatal frame, a lost transport or a colliding identifier;
the driver then resolves all it holds, marks the state, closes the semaphore and
drops the channels. Callers that find any of these gone read the state to say why.

What is hard here, and which property is about it: the `hazards` of `PROJECT.json`
list it line by line. In short: the order of marking, closing and dropping
(`EndedBeforeLost`); permits handed to callers that are gone (`PermitsConserved`);
submissions caught between two holders (`OneHolder`); identifiers that wrap while an
abandoned request is still live (`OwnAnswer`); two structures that must agree
(`RegistryMatches`); two locks in `close`, and a verdict marked before the failure
behind it is known (`FirstOutcomeKept`, `FailureReported`, `CloseLandsAsDocumented`);
identifiers that outlive their permits (`InFlightAccounted`); a driver that does not
read while it writes (`CallsResolve`, `CloseReturns`, `SerializesWithoutDeadlock`);
endings that do not end (`FatalAndLostEnds`); re-decoding of partial data
(`VerdictStable`, `Aligned`, `NothingLeft`); what a caller may conclude from a result or
an error (`ReportsWhatWasDone`, `RefusedMeansUnchanged`, `ScopeTellsFate`); short writes
(`RequestUnderstood`); results that outlive the run that produced them
(`SealedIsBacked`, `EvidenceKept`, `EarlierAttemptsKept`, `JournalReadsBack`).

## 2. The modules

| Module | Models | Kind |
|---|---|---|
| `RequestIds` | the identifiers of `dispatch.rs`, of any width | operators |
| `Session` | calls, driver, closers, peer and transport of one session | state machine |
| `Protocol` | `decode` with its checks in their order, `step_for` | operators |
| `Encoder` | `encode_with_max`: what it refuses, and the frame it writes | operators |
| `Commands` | the payloads of the five commands, `interpret_*`, `CommandError` | operators |
| `Decoder` | `decode` called again and again while bytes arrive | state machine |
| `Exchange` | one command through both codecs to a server and back | state machine |
| `Stream` | the read side of the driver, byte by byte | state machine |
| `FrameOrder` | what `Stream` implements: whole frames in order | abstract specification |
| `Handshake` | `connect` from a configuration to a usable connection | state machine |
| `Journal` | the text of a journal: encoder and parser of `json.rs`, `entries` | operators |
| `Campaign` | the validation runner, interrupted and resumed | state machine |
| `CampaignJournal` | the journals of `Campaign` as text, with `Journal` | operators, a property |
| `MCSession`, `MCDecoder`, `MCStream`, `MCHandshake`, `MCCampaign` | constants and symmetry for TLC | |
| `SessionProofs`, `LifecycleProofs`, `DispatchProofs`, `CorrelationProofs` | theorems about `Session` | |
| `ExchangeProofs` | theorems about `Decoder` and `Exchange` | |
| `StreamProofs`, `HandshakeProofs`, `CampaignProofs` | theorems about `Stream`, `Handshake`, `Campaign` | |

A definition named *Mutant of X* is X with a plausible bug. It is used nowhere else;
each shows that the property it is listed for (`mutants` in `PROJECT.json`) would
catch that bug.

### Session

A step is what a task does up to the next point where another task can see a
difference: an await, or the release of a lock. `pc[c]` is the place of a call in
`execute`: `admit` (before `acquire_permit`), `waiting` (queued on the semaphore),
`granted` (handed a permit, not run yet), `send`, `await`, `done`, `abandoned`.
`dpc` is the place of the driver: `select` (the shutdown branch is polled first, as
`biased` demands), `poll` (the other two), `writing`, `drain`, then the steps of an
ending: `mark`, `seal`, `shutting`, `return`. `cpc[k]` walks through `close` with each
of its locks taken separately: terminal test, `begin`, `seal`, `branch`, `signal`,
`take`, `join` or `driverless`.

A request carries the call it belongs to, a frame the call whose request it answers
(`by`); the code has neither, they are there for `OwnAnswer`. The driver's map holds
the call in place of its sender. A frame is whole when read (`Stream` justifies it)
and of one of four kinds: `answer`, an answer refused for its metadata (`badMeta`),
an error frame of a connection-fatal class (`fatalError`) and `garbage`, which decode
refuses. Whether a request is too large is an input of `Start`.

External, modelled from their use: the FIFO semaphore and channels of tokio, and the
peer, which reads requests, answers any it has read, in any order, and commits at
most `MaxFaults` violations of the kinds in `PeerFaults`. It reads on only while it
holds fewer than `PeerWindow` requests it has not answered, and it answers only when
there is room in the transport. The transport keeps order, is bounded each way, and may
end (`eof`) or break (`down`).

### Protocol, Encoder, Decoder, Stream, FrameOrder

A frame is the record of its header fields and of what the later checks ask of its
body: whether the metadata region splits into entries, whether they are in order and
optional, and the length field at the head of a SET or error payload. A buffer is a
frame and a number of bytes. `Decode` gives the step and the number of bytes it
names, for `Need` and for `Failure`. `Encoded` gives the frame that an outgoing message
becomes, with the lengths the header is filled with, so that what one side writes is
what the other side decodes.

`Stream` keeps the frames the peer sent as one byte stream, of which `arrived` bytes
have been read and `drained` consumed. Its live identifiers stand for registry and
completion map, equal by `RegistryMatches`. `FramesInOrder` maps it to `FrameOrder`:
`ended` is `dpc = "ended"`, the other variables keep their names; reads and the turns
of the loop that need more bytes are stuttering steps.

### Commands, Exchange

`Exchange` extends `Decoder`. In the stage `stray` it is `Decoder`: any frame, any
context, one more byte at a time. In the others it follows one command: `Issue` is a
call up to the submission of its encoded request, `Serve` the server once `decode` has
given it the whole of it, `Finish` what the driver and then the caller (`decode_own`,
`interpret_*`) make of the answer. Keys and values are their lengths: enough to tell a
SET that is cut at the wrong place, an empty value from a missing key, and a length
from a value.

The server is external. It does what the comments on the commands say (`acts`), may
refuse before acting (`refuses`) or fail before or after it (`fails`), and may answer
what no server should (`errs`); an answer may carry metadata the client must refuse.
`held` and `was` are what it holds under each key after and before.

### Handshake

`hpc` is the place in `connect`; `sent` the bytes of the request that `write_all` has
written, one write of any length after the other. The sizes 65536 and 4096 are constants, because TLC
must reach both sides of them; that the pre-negotiation bound is also the floor of
what may be negotiated is in the definitions, as in the source. `UnexpectedFrame` is
not modelled as a result: decode admits no other frame before negotiation, so the
code cannot return it. For the same reason the buffer check never refuses: a valid
configuration has a local cap of at least the bound of decode. The check comes before
a read and none after it: `BufferWithinOneRead` says how far the buffer gets.

### Campaign, CampaignJournal

`records` is the directory of one tier, in the order of names; a record has its
manifest, its journal, the contents of its evidence files and its summary. `run` is
the process at work: its place in `execute`, the identity and tree state it read at
the start, its results so far, and the step, time and child process of an attempt.
An attempt at a segment with a prerequisite begins with its probe, a program the runner
waits for without a limit; the budget counts from the first step.
`Interrupt` is a killed process or a full disk at any place, and leaves of the
operation under way what its calls have left so far (`LeftBehind`). An entry behind
one that lost its newline is `hidden`: the parser stops at the first closing brace of
a line. `JournalReadsBack` (`CampaignJournal`) holds this against the texts: `Journal`
has the encoder and the parser, character by character where a character means
something to the parser, and the property says that the text of the journal reads back
as the entries of the model that are first on their line, and that no proper part of an
entry is one. The fields of an entry that nothing reads back are left out. Loss of power, which could also
lose evidence that was never synced, is not modelled; nor are two runners at once or
edits during a run.

## 3. The runs

| Run | Bounds | What it shows |
|---|---|---|
| `faults` | 2 calls, 2 closers, 1 permit, 1 identifier, every peer and link fault | permits are conserved and each waiting call has one holder, with every ending; a reused identifier brings no call the answer of another unless the peer forged one; the registry and the map agree; the state is marked before anything is lost; the first outcome is lost only to a close past its terminal test; a failed driver is reported by one close |
| `live` | 2 calls, 1 closer, 1 permit, 2 identifiers, buffers of 1, the link may end or break | live identifiers pass the permits and each belongs to a waiting or an abandoned call; calls and closes return, and dropping the last handle ends the driver |
| `decoder` | frames up to 37 bytes under a limit of 36, both roles, three states; five commands, keys and values of a few lengths, four cells | the promises of `decode` to its callers, and what a call may conclude from its result |
| `stream` | 3 frames of 7 kinds, one at the bound of 32 bytes and one a byte longer, reads of 1, 19 or 48 bytes, 2 identifiers | alignment, nothing left behind, bounded buffer, refinement of `FrameOrder` |
| `handshake` | sizes 40 and 6 with values one below, at and above each | the request arrives whole; `connect` returns, with the result its reply deserves |
| `campaign` | 3 runs, 2 segments, 2 repository states, 1 interruption, 2 records | what is sealed was executed and passed, the evidence of readable entries stays, identities do not mix, the journal reads back as far as its lines allow, runs end or wait for a probe |

The runs of section 3.1 have bounds of their own: `landing` and `ending` one call,
`ambiguity` two, `standoff` four calls with one permit and an identifier for each,
`sealed` two records, `overwritten` one.

Why these bounds are enough to be interesting: with one identifier fewer than calls
the allocator returns to an identifier that is still live, which is also the case
that collides and ends the session (`faults`); with as many identifiers as calls and
one permit, a dropped call stays under way beside the next one (`live`); one permit
fewer than calls makes the queue of the semaphore matter; channels and buffers of capacity 1 or 2 fill up; one fault may
strike at any point and is enough for each ending, since a session ends once. Reads
of 1 and 19 bytes stop inside a header, 48 spans frames. Three runs are what a lost
newline needs to matter: one that loses it, one that writes the hidden entry, one that
numbers its attempt without it. Calls and closers are
symmetric in every definition; symmetry is used in the safety runs only.

Fairness (`FairSpec`): the runtime polls every task that can run, so the driver, a
started call and a begun close take their next step; the peer goes on reading while its
window lets it, and answering while the transport has room. No fairness on starting,
abandoning or dropping anything, nor on faults. The driver does not read while it
writes, so a peer that stops reading until its answers are read can stop it for good:
there it polls neither reads nor the shutdown signal. The three liveness properties of
the session therefore assume `PeerReadsOn`, a window as large as the number of calls;
with a smaller one writes still wait for the peer and answers for the driver, and the
run `standoff` shows what can happen. `Handshake` assumes that a read in the end returns.
`Campaign` assumes that the runner's process is scheduled, and nothing of the programs
it starts: a step that never ends is killed at the budget, a probe that never ends is
waited for, and `RunEnds` says so.

### 3.1 Where code and documentation differ

Each has a run that TLC refutes and a finding in `PROJECT.json`:

- `landing` (`CloseLandsAsDocumented`), for two reasons, each enough by itself. `close`
  tests for a terminal state and writes `Closing` under two locks: if the driver marks
  `Unusable` in between, the mark is overwritten and nothing ever moves the session out
  of `Closing`. And the driver marks `Closed` before it shuts the transport: if that
  fails, `close` returns the error and the session stays `Closed`, not `Failed`.
- `ending` (`FatalAndLostEnds`): the driver retires by the identifier in the header and
  not by `Frame::retires`, so a connection-fatal error that names a live request is
  delivered as its answer; and the end of the stream with nothing in flight does not end
  the session, the driver reads again at once. After both, the session is still usable.
- `ambiguity`: a frame that ends the session resolves the other calls with its own
  class, for which `is_ambiguous` is false, though the peer may have executed them.
- `standoff` (`SerializesWithoutDeadlock`): a dropped call returns its permit while its
  request is under way, so even with `maximum_in_flight` 1 requests fill every buffer;
  the driver then waits in `write_all` for a peer that waits to be read from.
- `sealed`: the identity under which results are reused does not cover the working
  tree, so passes on a modified tree seal a record once the changes are reverted.
- `overwritten` (`EarlierAttemptsKept`): an entry that shares its line with the one
  before, whose newline was lost, is never read; its attempt is not counted, and the
  next attempt overwrites its evidence.

Met while modelling and not given a run: a second `close` returns `Ok` while the driver
that the first one signalled still works; the handshake buffer may pass the bound its
comment states, by less than one read (`BufferWithinOneRead`); bytes behind the handshake
response in the same read are dropped, which no peer that only answers can notice; a
probe has no budget, while the comment on `SEGMENT_BUDGET` speaks of the whole attempt.

## 4. The proofs

All theorems are for any sets of calls, closers, inputs, configurations and replies
and any bounds that satisfy the named assumptions of the modules (`CallsAssumption`,
`LimitsAssumption`, `IdModulusAssumption`, `InputsAssumption`, `ExchangeAssumption`,
`StreamAssumption`, `HandshakeAssumption`, `CampaignAssumption`).

The session:

- `TypeCorrect` (`SessionProofs`). `TypeOK` is inductive together with what a step finds
  in place (`Typed`): a call past admission has an identifier, a write its request, a
  drain its frame, and `mark` a terminal state to mark.
- `EndedBeforeLostHolds`, `FirstOutcomeKeptHolds` (`LifecycleProofs`). Inductive
  invariant `Lifecycle`: for each place the driver or a closer can be in on the way to
  the end, what it has already done; that the driver ends without marking only when no
  handle is left; and that calls are quiet once the last handle is gone.
- `FailureReportedHolds` (`LifecycleProofs`). Inductive invariant `ReportInv`: the join
  handle has at most one taker, a close that returned an error was the taker and saw
  the driver exit broken, and a handle that is taken has a taker as long as the driver
  has not exited well.
- `PermitsConservedHolds` (`LifecycleProofs`). Inductive invariant `AdmissionInv`: the
  queue of the semaphore consists of distinct waiting calls, and is empty once closed;
  a returned permit therefore goes to a call that holds none.
- `RegistryMatchesHolds` (`DispatchProofs`). Inductive by itself over `Typed`.
- `OneHolderHolds`, `InFlightAccountedHolds` (`DispatchProofs`). Inductive invariant
  `Holders`: every submission in the channel and every entry of the map is of a call
  that waits or was dropped, under that call's identifier; no call has two of them; a
  waiting call has one, and the receiver is there; nothing is pending once the session
  has ended. The bound on identifiers combines it with `PermitsConserved`.
- `OwnAnswerHolds` (`CorrelationProofs`). Inductive invariant `Correlated`: while the
  session lasts, whatever is under way for an identifier (the request being written, on
  the wire, or read by the peer; the frame on its way back or in the buffer) is of the
  call the driver's map has under it, and no identifier is at two of these places. An
  identifier that is reused is therefore never one that something is still under way
  for. It holds until the peer forges an answer (`Truthful`), which `OwnAnswer` excepts.

The codec and what is built on it:

- `VerdictStableHolds`, `NeedIsExactHolds`, `KeepsInSyncHolds`, `OwnDecodeAgreesHolds`
  (`ExchangeProofs`), from one case analysis of `Decode` (`DecodeCases`): what decode
  answers as a function of the bytes at hand.
- `CommandsAdmittedHolds`, `ReportsWhatWasDoneHolds`, `RefusedMeansUnchangedHolds`,
  `ScopeTellsFateHolds` (`ExchangeProofs`). Inductive invariant `ExchangeInv`: what
  `held`, the frame and its context are in each stage. The lemmas say that a request the
  client encodes is admitted (`RequestAdmitted`), that the server reads the key and the
  value it was sent (`ServerReads`), and what each right and each wrong answer is
  interpreted as (`RightAnswer`, `WrongAnswer`).
- `HandshakeTypeCorrect`, `BufferWithinOneRead`, `EndsAsDeservedHolds`,
  `UsableWithinBoundsHolds`, `RequestUnderstoodHolds` (`HandshakeProofs`). Inductive invariant `ConnectInv`: beside
  the types, what holds at each place of `connect`: the configuration is valid past
  `validate`, the request is whole before a reply is waited for, a read begins below the
  bound of the buffer, the reply is whole and good before the caps are checked, and a
  result is the deserved one. It rests on lemmas about `Decode` of the reply
  (`ReplyDecoded`: the verdict on any prefix is `Need` or that on the whole) and of the
  request (`RequestDecoded`).

- `AlignedHolds`, `NothingLeftHolds`, `BufferBoundedHolds` (`StreamProofs`). Inductive
  invariant `StreamInv`: the bytes drained are those of the frames in the log, no more
  has been read than was sent, and a buffer that `drain_frames` left for `select` holds
  only a part of its first frame. `Aligned` alone is not inductive: a frame is drained
  whole because `Decode` gave a verdict on the bytes at hand (`DrainCases`), and the
  other two are what `Need` says about those bytes.
- `FrameOrderRefined` (`StreamProofs`): `Spec => ImplementsFrameOrder`. `StreamInv` says
  that the frame at the head of the buffer is the next one of the stream; `SameReading`
  that a verdict on the bytes at hand is the verdict on the whole frame, which is what
  the abstract driver acts on; `StepRefines` takes the actions one by one.

The validation runner:

- `TypeCorrect`, `SealedIsBackedHolds`, `EvidenceKeptHolds`, `OneIdentityHolds`
  (`CampaignProofs`). One inductive invariant, `CampaignInv`, because each property
  needs the others. `Sound` is about a record: its first entry is readable, its entries
  have one identity and its manifest no other; a readable entry names a file of its own
  segment, numbered no higher than the attempts counted for it, with its result in it; a
  file is taken again only from an entry that cannot be read (`OwnFiles`); whatever entry holds, a reused one included, goes back to an executed pass. `Counted`
  keeps the attempt numbers below the number of runs. `Placed` and `Underway` are about
  a run: its results are those of the first segments under its identity, each that
  holds has its pass in the journal, the manifest is written before the first segment,
  and a result about to be appended is already in its evidence file, whose number no
  readable entry has. So a run that stops anywhere leaves a sound record. That there is a required segment at all
  (`Required # <<>>`) is assumed; the lists of the tool are fixed and not empty.

Where a proof needs induction over the natural numbers (the frame boundaries, the last
entry of a journal), it is on a set of numbers, through the least element of its
complement (`SetInduction`, `MaxInside`): the library's theorems about predicates cannot
be applied by these provers.

Only model-checked: liveness (`CallsResolve`, `CloseReturns`, `DropEndsDriver`,
`ConnectReturns`, `RunEnds`), which the prover cannot do under fairness; and
`JournalReadsBack`, which is about what a recursive parser computes for a text, an
induction over data. `CampaignJournal` is a module of its own for that reason: the
proofs about `Campaign` do not depend on the text.

## 5. Not modelled

- The wording of errors, accessors, and the encoding of fields byte by byte.
- The in-memory transport and the fuzz target, which serve tests only.
- Of the validation runner: what the segments are, dates, digests, and calls of git and
  rustc; two runners at once, which the tool does not provide for.
- Frames a peer sends before the first request. A peer has nothing it may send then;
  the driver would start behind what the handshake has already read of them.
- A loss of power, after which files that were not synced may be gone.
