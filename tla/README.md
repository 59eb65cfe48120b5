# Verification of the Parso audio engine

TLA+ models of the concurrent and stateful parts of this repository, TLC runs
over small instances of them, and TLAPS proofs of what matters most for every
instance. `PROJECT.json` holds the same information for tools: which lines each
definition models (`map`), the runs, the mutants that show each property can
fail, the hazards and the findings.

    tlc -config MCMix.cfg MCMix          # a run
    tlapm MixEngine_proofs.tla           # the proofs

## 1. The system

The library is a DJ and playback engine: real-time C++ cores under Swift
control objects, with bindings for other platforms around them.

| component | state it keeps | operations | talks to |
|---|---|---|---|
| **Mix core** `CParsoMix` | per deck: atomic state, stop flag, position; plain PCM pointer, tempo, start frame. Two recipe slots and a version; the master frame | `pm_deck_prepare/start/stop/reset`, `pm_schedule_*`, `pm_clear_recipe`, `pm_render` | control thread and audio callback share it without a lock |
| **Mix host** `MixEngine.swift` | the PCM buffers the core borrows | prepare, start, stop, reset | calls the core from one actor |
| **Rings** `pe_post_command`, `pe_poll_events`, `pd_ring` | slots and two wrapping indices | push, poll, pop | one producer thread, one consumer thread |
| **Deck transport** `CParsoEngine` | playhead, slip shadow, motor, jog wheel, loop, pending jump, cues | 25 deck commands, a rendered frame, `pe_deck_set_buffer`, fader start | drains the command ring, pushes events |
| **Deck mirror** `ParsoDJEngine.Deck` | isPlaying, isLoopActive, loop points, jog flags | play, pause, jog, loop, slip, reverse, load, `drainEvents` | posts commands, polls events on the main actor |
| **Record tap** | a drop-oldest ring | render writes, `pe_record_drain`, reset, `startRecording`, `stopRecording` | render thread and recorder both move the read index |
| **Scheduled transition, inserts** | a plan of several atomics and its flag; function and context of an insert; the host's control structure | `SmartFader.arm/tick/cancel`, `pe_schedule_transition`, `Mixer.setInsert`, a block | control and render threads; engine and host drive the same mixer controls |
| **Borrowed PCM** `Deck.load`, stems | pointers, lengths, playhead as plain fields; the host's strong references | load, arm and disarm stems, a frame | control and render threads, without an answer |
| **Streaming store** | per key: range map, sizes, tier; blob, metadata and derived files | record, adopt, ingest, pin, evict, remove, reload | an actor over two directories |
| **Streaming loader** | URL, length, a file handle | serve, warm, shutdown | network, store and blob file |
| Smart fader, mixer, recorder, sampler | control-side state | per-tick updates | the engine's atomics |
| Analysis, neural, DSP, codecs, API, bindings, tools | none shared, or none at all | pure functions and glue | |

**What is hard here.** Two threads share plain memory that changes hands
through atomics (decks, rings, recipes, transitions, the record tap). The host
mirrors state it can only learn from events that may be late or lost. A deck
answers some 25 commands in any order around one another's state: motor against
playing, slip shadow against loop and reverse, pending jumps against seeks. The
cache has files, range maps and metadata that are changed in separate steps
around suspension points and process exits. Every hazard is listed at its line
in `PROJECT.json`, with the properties aimed at it or the reason there is none.

What makes each component correct:

* mix core: only the owner of a deck touches its fields; a playing deck is at
  the exact source frame of the master clock; a recipe is seen whole; armed and
  stopped decks are always handed back;
* rings: a bounded first-in first-out queue that loses and doubles nothing;
* transport: playhead and loop stay in the track; an active loop holds the
  playhead; what starts or stops is reported; a deck comes to rest;
* mirror: when nothing is under way, host and deck agree;
* cache: what the player gets is in order and the origin's; a range said to be
  cached is backed by the file that will be read; eviction keeps the budget and
  spares what is protected or pinned; memory and disk agree after any crash;
* inserts: the effect the render thread calls is one, and alive;
* record tap: what the recorder gets is in order, and what it does not get is
  counted;
* transitions: one plan is applied whole and ended at its end, and engine and
  host leave the mixer in the same place;
* borrowed PCM: what is read is held by the host and long enough.

## 2. The modules

| module | models | notes |
|---|---|---|
| `MixEngine` | `parso_mix.cpp` | both threads, one step per shared access |
| `MixHost` | `MixEngine.swift` over `MixEngine` | adds `loaded` |
| `MixEngine_proofs` | | theorems about `MixEngine` |
| `BoundedFifo` | what a ring promises | abstract specification |
| `SpscRing` | the three rings | implements `BoundedFifo` |
| `SpscRing_proofs` | | theorems about `SpscRing`, the refinement among them |
| `DeckTransport` | one deck on the render thread | one action per command, one per frame |
| `DeckMirror` | `Deck` in Swift, both rings, the deck | EXTENDS `DeckTransport`; a ring is the queue that `SpscRing` implements |
| `DeckMirror_proofs` | | theorems about `DeckTransport` and `DeckMirror` |
| `SparseCacheStore` | the cache store: memory, metadata files, blobs in two roots | every call, and the disks a crash inside it leaves |
| `CachingResourceLoader` | one loader's requests, warm-up and shutdown | EXTENDS `SparseCacheStore`; adds app, system and process |
| `CachingResourceLoader_proofs` | | what every call of the store keeps, and theorems about the loader's steps |
| `ServedReal_proofs` | | theorems about what is served and what is claimed |
| `CacheKept_proofs` | | theorems about what stays on disk and within the budget |
| `InsertSeam` | `Mixer.setInsert`, `pe_set_insert`, `applyInsert` | |
| `RecordTap` | the tap in `render`, `pe_record_drain`, `pe_record_reset`, the host's recording | |
| `ScheduledTransition` | `applyScheduledTransition` and `SmartFader` | |
| `DeckPcm` | the PCM and stems a deck borrows | |
| `LiveEngine` | the four above in one block and one host | EXTENDS them |
| `LiveEngine_proofs` | | theorems about the running engine, seam by seam |
| `Remainders` | | lemmas about remainders: what an index that wraps needs |
| `MCMix`, `MCMixHost`, `MCTransport`, `MCMirror`, `MCCache`, `MCLive` | | values for TLC |

### MixEngine

`state`, `stopRequested`, `position`, `masterFrame`, `recipeVersion` are the
C++ atomics of the same name; `deck[d]` and `slots` the plain fields. `call` is
the control thread's place in a call and `rpc` (with `index`, `seen`, `m0`,
`frames`) the render thread's place in `pm_render`. Each action is one access
that the other thread can see. Plain writes a thread makes while it owns a deck
are one action, and theorem `MixHandoff` is what justifies that: nobody else
looks. A recipe is written and copied in two steps (`route`, which decks; and
`clock`, when), since it is a struct of many words: two pieces are enough to see
a torn copy. Orders weaker than acquire and release are used in the code only for
values that carry no other data, so steps are taken as sequentially consistent.

Times are whole frames and tempos whole numbers; samples, gains and filters
are left out. The tail a deck is given after its track, 4 frames or a quarter of a
second, is `FlatTail` and `KeylockTail`. `RenderBegin(n)` allows every block
length up to `MaxFrames`. A `pm_render` with a null buffer or no frames changes
nothing and is not a step.

### SpscRing and BoundedFifo

`pe_post_command`, `pushEvent` and `pd_ring_push` are the same three steps (look,
fill, publish); `drainCommands`, `pe_poll_events` and `pd_ring_pop` the same loop
with a different limit. Indices are modulo `Wrap` (2^32 in the code) and never
reset. `pd_ring_pop` and `pe_poll_events` publish after their batch.
`drainCommands` also executes each element before it publishes, which holds the
slots longer and is covered by any interleaving between copy and publish.
The refinement maps the queue to the slots between the indices.

### DeckTransport

`deck` is a record with one field per field of `DeckState` that the transport
uses; `news` holds the events the step pushed. The playhead counts units, `Full`
of them per source frame, so that a motor at half speed is representable.
`easedBrake` and `easedSpin` stand for a brake or spin-up time above zero.
A frame is one action: `Now` applies the pending jump and the motor, then one of
`Stand`, `Scratch`, `LeaveLoop`, `WrapLoop`, `ReachEnd`, `ReachStart`, `MoveOn`
follows, as in the if-chain of `renderChunk`. `SET_CUE`, `HOTCUE_SET` and
`HOTCUE_DELETE` only record points, so `Jump` takes any point. Tempo, pitch
bend (at most 8 % of a frame's step) and key lock are left out. `LOOP_SCALE` and
`BEATLOOP` get their lengths from a set; a hand on the platter moves the sound
by one unit and comes to rest at some time (a decay of 0.9997 per frame).

### DeckMirror

The host's calls change `mirror` at once and post a command; `RenderCommand`
executes the oldest one, `RenderFrame` renders; `Poll` folds all waiting events
into `mirror`. `HostLoad` is `Deck.load` with `pe_deck_set_buffer` inside.
`stale` and `refused` are history variables: they are read only by the
properties, and say that the last change of the deck was not reported, or that
a command was refused. A block is not a step of its own; any grouping of
commands and frames into blocks is some behaviour of the model.

### SparseCacheStore

`metas` is the actor's dictionary, `metaFile` the JSON files and `blob` the data
files of the two roots; `used` the keys in the order of `lastAccessedAt`. Bytes
are chunks; a blob is the sequence of its chunks, TRUE for the origin's bytes,
FALSE for a hole or anything else. The store is an actor without an `await` in
its calls, so a call is one step, written as a function from a store state to
the next (`recordWrite(s, k, R)`, `setDurable`, `evictTo`, ...), because the calls
call one another. What a crash may leave between two writes to disk are the
`...Cuts` operators. `cachedContiguousBytes` compares the size of the file
and nothing else, as the code does: holes are invisible to it.

### CachingResourceLoader

A request of the player is a task: `Request`, `Probe`, `Path` (the URL is
resolved once and kept as `task[t].root`), `Create`, then the loop of `serve`
(`Lookup`, `Read`, `Ask`, and per chunk `Seek` and `Write`, then `Record`). Every
`await` is a step boundary, and `Seek` and `Write` are two, since the requests
run in parallel and share one `FileHandle`. The warm-up has a handle of its own.
A handle is the root its file is in, and `Lost` once that file is unlinked
(`Follow`): a rename carries it along, an unlink does not close it. `AppCall` is
any public call of the store at any moment; `PurgeBlob` is the operating
system reclaiming a file; `Crash` and `CrashInCall` end the process, at rest or at a
cut, and a new one reloads. The network may answer with a range, with the whole
body, or without a length, and may fail. `history.disturbed` records
what the properties except: a file displaced under a request, a warm-up or an
open handle, two writes of one handle that collide, and a crash inside a call
that removes a blob before its metadata.

### LiveEngine and its four seams

Render stages follow `render`: `RenderCommands`, `RenderTransition`,
`RenderDecks`, `RenderBuses`, `RenderTap`, `EndBlock`. The main actor makes one
call at a time (`Free`), in steps (`InCall`).

`InsertSeam`: `insertFn` and `insertCtx` are the two atomics, `inserts` the host's
dictionary. `SetInsert` assigns the dictionary first, as ParsoDJEngine.swift:2247
does, which lets the old object go before the engine hears of it.

`RecordTap`: one step per load or store of an index. `tap` and `drain` are the
locals of `render` and of `pe_record_drain`; a frame is known by the index it
was written at (`recorded`). Both threads store `recordRead`.

`ScheduledTransition`: a plan is seven stores (`Schedule`) and six loads
(`LoadActive` ... `StoreCrossfader`). The host moves the same controls in its own
structure and publishes all of it at every change (`Publish`, one step: its
stores are relaxed and any of them may be overwritten by the engine's, which the
order of the engine's steps covers). Progress is in quarters, at which the
thresholds 0.35, 0.60 and 0.70 are at 2, 3 and 3.

`DeckPcm`: the stores of a load are plain, so they may become visible in any order:
`loader` is the set still to come. `Decide`, `Place`, `Take`, `Advance` are what a
frame loads and stores; `Advance` may use the playhead loaded before.

## 3. The runs

| run | checks | shows |
|---|---|---|
| `mix` | TypeOK, DeckHandoff, ClockExact, SlotStable, RecipeReleases, Lifecycle | the lock-free sharing of the mix core is safe |
| `mix_live` | DeckComesBack, StopReleases | decks are handed back |
| `ring` | TypeOK, SlotExclusive, RefinesFifo, EventuallyTaken | the ring is a bounded FIFO |
| `transport` | TypeOK, InTrack, LoopInTrack, LoopCaptures, ChangesReported, StopsOnlyAtEnds, ComesToRest | one deck under any commands |
| `mirror` | MirrorTypeOK, MirrorAgrees | the host knows whether the deck plays |
| `mix_torn_recipe` | ActiveIsScheduled, **violated** | two publications during one copy tear the recipe |
| `mix_borrowed` | BorrowedAlive, **violated** | reset, then start, plays PCM that was let go |
| `stopped_deck` | InstantStop, **violated** | after the end of a track the motor still turns; a seek makes the stopped deck run |
| `fader_start` | InstantStart, **violated** | a fader start plays without a motor |
| `cache` | TypeOK, InOrder, ServedReal, OverclaimHasCause, DiskAgrees, BudgetKept, DurableKept | the cache serves what the origin sent, or one of the named events came before |
| `live` | TypeOK, InsertWhole, TapCursors, TapAccounts, TapInOrder, TransitionWhole, TransitionKept, TransitionEnds, DriversMeet, TailReleased, PcmWhole | the seams of the running engine |
| `loop_mirror` | LoopMirrorAgrees, **violated** | loop-in leaves the host without the loop the deck is in |

The violated properties are sentences of the repository's comments and README
which the code does not keep; `findings` in `PROJECT.json` quotes them.

### What the conditional properties except

Several properties of `cache` and `live` hold only outside a race or a loss that
the code does not prevent. The exception is a history variable which is set
by that event alone, and mended when the code mends it; without it TLC finds:

* record tap (`raced`): a frame dropped while a drain or a reset holds an index.
  The drain's store puts `recordRead` back, or the drop moves it past the published
  write index, and the next drain walks around the 32-bit index. The comment at
  parso_engine.h:209 promises frames in order, with drops counted.
* inserts (`changed`): replacing or removing a live insert. Function and context
  of two inserts are paired, or the object is called after it was let go.
  An insert put into an empty point is safe.
* transitions (`overlapped`): a plan armed while the engine is still at an
  earlier one, which `arm` does not refuse, is read half old and half new.
  A cancelled plan leaves the EQ cut where it was. While both are driving, a tick of
  the host may put the crossfader back to where its own clock is (the repository's README.md:738 has
  one clock); `DriversMeet` speaks of the end.
* Beat FX (`orphaned`): the tail stays on if the engine's last block comes after
  the host has released it (always so in the headless order, where the last block
  uses the frame at its start), if the plan is cancelled before the host has
  noticed the tail, or if a plan is armed while the host is in the tail.
* borrowed PCM (`unsettled`): a load, arm or disarm on a running deck. The old PCM
  is released before the engine hears of the new one, and its length and pointer
  are read apart. parso_engine.h:162 says it is kept alive until
  BUFFER_RELEASED, which is never pushed (docs/phase6-parity.md:539 says so). At the end
  of a track the motor stays on, so the next track is always loaded into a running
  deck.
* cache (`disturbed`): a removal, purge or ingest under a request leaves an unlinked
  file or a hole which a later chunk lengthens over, and the hole is served as
  cached; a shutdown between seek and write loses a chunk that is still recorded;
  two requests that seek before either writes put a chunk in the wrong
  place; a crash inside remove, pin or ingest leaves metadata without a blob.
  `DurableKept` names two more. An unpin after an ingest over a half-streamed
  entry deletes the complete file, since `moveFile` keeps the one it finds, and
  `completeFileURL` then takes the partial file for the whole. And of two requests
  that both seek before either writes, the one that finishes may complete the file of a
  pinned entry and the other then overwrites its next chunk; that takes a pin and two
  answered requests, more than the run's `MaxMoves`, and shows with `MaxMoves` = 7.
  `BudgetKept` names one: `completeFileURL` records the size of the track's file as
  what is cached and evicts nothing (SparseCacheStoreAccounting.swift), and two writes
  of one handle that collide can have made that file longer than its range map says.
  The proof attempt showed this, not a run: it takes more moves than `MaxMoves`, past
  the point where the run stops at a disturbed store.

### Bounds, and why they are enough

* `mix`: two decks (as `PM_MAX_DECKS`), one track, blocks of up to two frames,
  two publications (`MaxVersion`; `mix_torn_recipe` has three and two recipes, so
  that the one published and the one overtaking it differ in decks), master frames up to `MaxMaster` = 5, control calls up to `ControlUntil`. A deck can be
  armed before, in and after the block under way, finish by its end, by a stop and
  by a recipe, and be prepared again. `mix_live` has one publication, as
  liveness does not depend on the recipe being replaced.
* `ring`: capacity 2 and `Wrap` 8: both indices wrap, the ring is full and empty,
  and the two threads' steps interleave freely. No other bound.
* `transport`: a track of two frames, four units, and points before, inside and
  past it. Every behaviour uses one set of controls (`Sessions`) besides play,
  pause, track change and frames; the sets put together what acts on the same
  fields. `NotFarOut` stops commands when the playhead is more than a frame past
  the end, where a loop exit may put it.
* `mirror`: both rings hold two elements, so both overflow; a track of one frame;
  one set of host calls per behaviour (`HostSessions`). The counter-example of
  `loop_mirror` needs four steps of the host.
* `cache`: one streamed track of two chunks and one other key of one chunk, limits
  of two and three chunks, two requests (symmetric), up to five moves (`MaxMoves`: calls, purges,
  restarts count one, a request or a warm-up two). That lets one request meet
  three calls, or two requests each other and a call. Behaviours end at
  `disturbed` (`CONSTRAINT Calm`): of what is promised after it, `BudgetHeld`,
  `StoreAgrees` and `LoaderInOrder` are proved without that bound.
* `live`: the seams share no state but the clock, so a behaviour uses
  one of them much (`Budgets`: four insert calls, three record calls, two
  transition calls, one load and two stem calls, or two loads, the last two with any
  number of plays and pauses) rather than all a little. The record ring holds two frames, its indices wrap at 6, a block is two
  frames and the scratch buffer one, so that drains loop and every block may
  drop. The clock stops at `MaxFrame` = 6 and starts with the first plan, since
  plans are relative to it. One command waits at most (`Queued`): only the last
  of a block's plays and pauses matters.
* An engine lives through its bounds: nothing but the named bounds (`MaxMaster`,
  `ControlUntil`, `MaxVersion`, `NotFarOut`, the two session sets, `MaxMoves`, `Budgets`, `MaxFrame`, `Queued`) keeps a model
  from going on, and `CHECK_DEADLOCK FALSE` is only said in the mix runs, whose
  timeline ends.

### Fairness

`mix_live` assumes that the audio device keeps calling `pm_render` and that a
control call which has begun returns: neither blocks. It assumes nothing about
which calls the host makes. `ring` assumes that the consumer goes on (the render
thread drains at each block, the host polls at display cadence); no fairness for
the producer. `transport` assumes that frames are rendered. `live` assumes
that the device keeps calling back and that a call of the main actor goes on; that
is enough for `TransitionEnds`, which needs nothing of the host's ticks. Liveness says
nothing of the host's good will: `ComesToRest` is about a deck that is left alone.

## 4. The proofs

`MixEngine_proofs` proves, for every value of the constants that
`MixAssumption` allows (any number of decks, tracks, lengths, positions, tempos,
block lengths, recipes):

* `MixTyped`: `Spec => []TypeOK`
* `MixHandoff`: `Spec => []DeckHandoff`
* `MixClock`: `Spec => []ClockExact`
* `MixLifecycle`: `Spec => Lifecycle`
* `MixSlotStable`: `Spec => []SlotStable`
* `MixRecipeReleases`: `Spec => RecipeReleases`

`DeckHandoff` is not inductive. `IInv` adds `Ownership`: what each thread's
program point says about the state of the deck it is working on. The control
thread inside prepare holds an IDLE or FINISHED deck, inside start an IDLE one;
the render thread past its load of the state holds a deck that is ARMED or
PLAYING as it saw it. `TypeInv` and `OwnershipInv` show that `IInv` is kept,
one step per action. `ClockExact` needs more: `Clock` also speaks of the deck
being rendered (between "read" and the next deck its position is already that of
the block's end), and of master frame, block start and loop index agreeing.
`SlotStable` needs `Publishing`: the slot of the current version is whole at every
point of a publication, since the words are written to the other one, and while no
newer version is out the words a block has copied are that slot's. It says
nothing of a block that is lapped; `mix_torn_recipe` shows what happens to that one.
The proofs use only `MixAssumption`, and that the constants are numbers and sets
as declared. The bounds `MaxMaster`, `ControlUntil`, `MaxVersion` are constants
like others, so the theorems hold for all of them.

`SpscRing_proofs` proves, for any capacity, any index width that is a multiple of it
and larger, and any non-empty set of elements (`RingAssumption`):

* `RingTyped`: `Spec => []TypeOK`
* `RingExclusive`: `Spec => []SlotExclusive`
* `RingRefines`: `Spec => RefinesFifo`, the refinement of `BoundedFifo`

The invariant `RingInv` says what each thread knows of the other's index: the
producer inside a push has seen room, and still has it, since the consumer only
makes more (`ProducerKnows`); the consumer's cursor lies between the two indices
and what it has copied is still what the ring begins with (`ConsumerKnows`). That
the slot of an index survives the wrap needs the capacity to divide the range of the
indices: `LapSlot`, from the lemmas of `Remainders`.
A push refines `Push` at its publication, a refused one at its look, a poll
`Poll` at its end; every other step leaves `Content` as it is (`FifoStep`).

The first part of `DeckMirror_proofs` proves, for any unit, track lengths, points, waits, loop
lengths and sets of controls used together (`TransportAssumption`):

* `TransportTyped`: `Spec => []TypeOK`
* `TransportInTrack`: `Spec => []InTrack`
* `TransportLoopInTrack`: `Spec => []LoopInTrack`
* `TransportLoopCaptures`: `Spec => LoopCaptures`
* `TransportReports`: `Spec => ChangesReported`
* `TransportStops`: `Spec => StopsOnlyAtEnds`

The state is one record, so the invariant is a predicate on a deck, `Sound(d)`: typed,
with its points, its loop and its playhead where they should be. Points and loop
are apart from the playhead (`SoundBut`), which a frame takes out of the track
before the loop and the ends put it back. Every operator that makes a deck
of another (`Land`, `WithLoop`, `Resume`, `Now`, `Scratch`, ...) has
a lemma that it keeps a deck sound; a command follows from its operators, and the action
properties from the same lemmas. `LoopCaptures` rests on `LoopInTrack`: the playhead
is wrapped by a remainder, which needs a loop that is not empty.

Its second part proves of the host, both rings and that deck together, for any
capacities of the rings and any loops (`MirrorAssumption`):

* `MirrorTyped`: `MirrorSpec => []MirrorTypeOK`
* `MirrorFollows`: `MirrorSpec => []MirrorAgrees`

`MirrorAgrees` speaks of empty rings only and so is far from inductive. The invariant is
`Agreeing`, which TLC checked on the instance of `mirror` before it was proved:
everything is typed (`Formed`); unless an event was lost or the track changed, the last
of the waiting events that says whether the deck plays says so truly, a STATE if there is
one (`Told`); and if no STATE is waiting and no queued command is bound to bring one
(`Pending`), the host shows how the deck stands, or an END_OF_TRACK on its way will make
it (`Knows`). `Faithful` is what each step of the deck owes its event ring: the
STATEs it pushes say how the deck ends up, and an end of the track is followed by one.
`Poll` folds the waiting events over the mirror. The fold is replaced by
what it comes to (the last STATE, then the ends after it), by way of the first
index at which the two would differ: a set of naturals that is not empty has a least
element (`LeastOf`).

`CachingResourceLoader_proofs` proves, for any keys,
lengths, limits and number of requests and moves (`StoreAssumption`,
`LoaderAssumption`):

* `LoaderTyped`: `Spec => []TypeOK`
* `LoaderInOrder`: `Spec => []InOrder`
* `StoreAgrees`: `Spec => []DiskAgrees`

`Kept(s)` says that a store state is well formed and that the record a new process
would load for a key is the one the actor holds: no root has a record of the other
tier, and what the actor holds is the durable record or, if there is none, the evictable one.
Every call of the store, and every disk a crash inside one leaves (the cuts, read back by
`loadMetas`), is put together from a few writes, each with its lemma, and so keeps it. That an
eviction removes a set of keys at all rests on a least number of victims existing
(`LeastOf`). `Safe` adds the loader's tasks: at each program counter
what `cursor`, `end`, `from` and `n` may be, of which `InOrder` is a part.

`ServedReal_proofs` proves on top of `Safe`, under the same assumptions:

* `LoaderServesReal`: `Spec => []ServedReal`
* `LoaderOverclaims`: `Spec => []OverclaimHasCause`

Both are far from inductive: a byte is served wrong long after the step that made it so.
`Undisturbed` says that until something disturbs the store, everyone who remembers
something of the track's file remembers what is in it. The range map and sizes of the
metadata name chunks that the file of its tier holds, and the durable root has a file for a
durable record only (`HonestStore`); a request past its path has the right root, and what it
has counted as read or written is in the file (`HonestTask`); likewise the warm-up
(`HonestWarmup`); and an open handle is on the file of the present tier (`HonestHandle`).
TLC checked `Undisturbed` on the instance of `cache` before it was proved. Each step of
the loader has a lemma; a call of the app leaves the track's rows alone, takes them all
away, or moves them to the other tier, and the proof shows that whenever somebody
remembers what it changes, `history.disturbed` notes it.

`CacheKept_proofs` proves on top of `Undisturbed`, and with finitely many keys
(`KeysAssumption`):

* `PinnedKept`: `Spec => DurableKept`
* `BudgetHeld`: `Spec => BudgetKept`

`DurableKept` is about every key, where `Undisturbed` is about the track. Of the others
`WholeBlobs` says that a root has their whole file or none, as only an ingest
brings it. From one state of the store to the next a pinned entry and its file either stay
as they are (`Sure`) or are found whole in some root (`Lasts`); both chain over the writes
of a call. The steps that may do neither are the exceptions the property names.

`BudgetKept` needs the invariant `Solvent`, checked by TLC first. Eviction looks
at the records, in the order of their use, so the order must have every key
(`Ordered`) and a record must count what is there (`Counts`: for the track the size of its
range map, for another complete key its whole file), in memory and on disk, since a crash
makes memory of the disk (`Books`). `CachedTotal` is a sum over a set; it is shown
to be the number of cells of a finite set (`Cells`, one for each byte an entry counts for), so
that removing, adding and comparing entries become facts about
cardinalities. A call then either eases the books (`Eases`: no entry counts for more) or
ends in an eviction, and leaves them settled (`Settled`): the total is no higher, or
within the limit, or made of protected entries and the one just written. The
first statement of the property had no exception for a disturbed store and could not be
proved; see section 3.

`LiveEngine_proofs` proves every safety property of `live`, for any decks, plans, inserts
and PCM, and for any block sizes, call budgets, scratch size, ring capacity and index range
that the named assumptions allow (`TransitionAssumption`, `InsertAssumption`,
`PcmAssumption`, `TapAssumption`, `BudgetAssumption`):

* `LiveTyped`: `Spec => []TypeOK`
* `InsertSafe`: `Spec => []InsertWhole`
* `PcmSafe`: `Spec => []PcmWhole`
* `PlanWhole`: `Spec => []TransitionWhole`
* `EndsWhenDue`: `Spec => TransitionKept`
* `DriversAgree`: `Spec => []DriversMeet`
* `TailLetGo`: `Spec => []TailReleased`
* `CursorsBounded`: `Spec => []TapCursors`
* `FramesAccounted`: `Spec => []TapAccounts`
* `FramesInOrder`: `Spec => []TapInOrder`

`Staged` says where in its block the render thread is when one of its seams is at
work. Each seam then has an invariant and a section of its own, and a lemma that the
steps of the other seams leave its variables alone (`InsertFramed`, `PcmFramed`,
`TransitionFramed`, `TapFramed`). TLC checked each invariant before it was proved. All
but the types hold outside the events named in section 3 (`changed`, `unsettled`,
`overlapped`, `orphaned`, `raced`), and the invariants say what is known there.

* `InsertInv`: what the place in `pe_set_insert` tells of the two atomics
  (`SetterKnows`); and that, unless a live insert is being taken away, a setter at work
  has found the point empty and no call under way, and a call holds the living insert
  (`CallerKnows`).
* `PcmInv`: the stores a load, an arm or a disarm still has to make are those of the
  buffer the host has chosen (`LoaderKnows`), a field that is not among them has the
  host's value already (`DeckKnows`), a call that did not find the deck running found
  it at rest or empty, and nothing has started it since (`SettledKnows`), and a frame
  being read lies in the buffer it is read from (`ReaderKnows`). `LiveTyped` needs one
  thing more, that a block reads no more frames than it has (`ReaderWithin`).
* `TransitionInv`: the words of the plan that `arm` has stored so far
  (`PlanKnows`) and what `SmartFader` remembers of it (`HostKnows`); that, unless a
  plan was armed over another, all the engine has loaded belongs to the plan in
  force (`EngineKnows`); that a plan is applied from its start on (`Due`); what
  each driver has left behind at the end (`Meeting`); and who still has to release the Beat
  FX (`Tailing`). `Quarters` ties a progress of four quarters to the plan's last frame.
* `TapInv`: around the wrap, and within the capacity, the published read and write index
  lie between those the tap has loaded and advanced, and those a drain or a reset has
  loaded lie between the published ones (`TapOrdered`); each frame between reader and writer is in its cell
  (`TapHolds`); and what the drain has taken and what was dropped add up (`TapCounted`).
  A span of indices that wrap is turned into sums and differences by `Wrapped`, `SpanIs` and
  `SpanAdds`; that two frames within the capacity have two cells (`CellsApart`) rests,
  as for the rings, on `Remainders`. The proof showed `TapCursors` to hold inside a
  reset too, which it used to exempt.

Only model-checked: liveness (`DeckComesBack`, `StopReleases`, `EventuallyTaken`,
`ComesToRest`, `TransitionEnds`), since fairness and ENABLED are out of the prover's
reach. Every other property of a passing run is stated by a theorem. An
induction over data has no general form here, as the library's theorems take the
induction predicate as a parameter; the two folds the properties depend on are reached
through least counterexamples (`LeastOf`) and through sets closed under adding an element
(`Subsets`) instead.

## 5. Not modelled

Sound itself (filters, gains, stretching, limiter), numeric analysis, neural
models, codecs, files, bindings and device glue: their correctness is numeric or
a matter of I/O, and nothing of it is shared between threads.

In the modelled components:

* deck and mirror: playhead time at the host, cues, sync and beat grid, saved loops,
  loop roll, stem gains, echo, key lock, tempo. `DeckTransport` takes
  `pe_deck_set_buffer` as one step; what its stores do one by one is in `DeckPcm`,
  without loops, jog and seeks. The sampler and the microphone take their PCM
  the same way and are not modelled;
* cache: single-tier mode, a metadata file torn by a crash, two keys of the same
  `lastAccessedAt`, the kind of an entry, the clamping of `CachePolicies`, two loaders
  on one key, headers and content types;
* engine: SmartCFX, the files of `MixRecorder`, monitoring, and the setters that
  store one control.

## 6. Plan

1. `Mirror`: the loop half with reloop/exit and loop roll; cues at the host.
2. Two loaders on one key, and the sampler's slots.
