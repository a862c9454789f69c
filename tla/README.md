# A verification development of the sita engine

`src/` is a small C++ game framework (`sita`): networking over asio, an
entity/component/system core, and helpers for assets, text, logging and
profiling; `tools/` and `cli.py` build and run it. Everything under `vendor/`
and `sita/vendor/` is third-party code. There are no tests; the only
documents are `README.md` (build notes) and the comments.

This directory holds TLA+ models of the parts where order, concurrency and
failure matter, their TLC runs, and proofs checked by TLAPS.

## 1. The system

| Part | State | Operations | Who calls it |
|---|---|---|---|
| `core::Threadsafe_Queue` | a deque, two mutexes, a condition variable | push/pop at both ends, `isEmpty`, `clear`, `wait` | the io thread pushes, the application drains |
| `network::Connection` | a socket, `m_messagesOut`, the message being read, the handshake words | `send`, `disconnect`, the handlers of asynchronous reads and writes | application posts, io thread runs the handlers |
| `network::server::Server` | acceptor, io_context and its thread, `m_connections`, `m_idCounter`, `m_MessagesIn` | `start`, `stop`, `messageClient`, `messageAllClients`, `processMessages`, the accept handler | application and io thread |
| `network::client::Client` | one `Connection`, io_context and its thread | `connect`, `disconnect`, `send`, `setId` | application |
| `ecs::entity::Entity_Manager` | ids, free ids, pending sets, signatures, pools | `createEntity`, `destroyEntity`, `addComponent`, `removeComponent`, `update` | the game, one thread |
| `ecs::system::System_Manager`, `System` | systems by type, each with a list of entities | `addSystem`, `removeSystem`, add/remove entity | the game and `Entity_Manager::update` |
| render, collision, animation, movement systems | (components) | one pass per frame | `System_Manager` |
| `assets::Asset_Manager`, `graphics::Font` | SDL handles | load, unload, clear, set size | the game |
| `lang` | - | FNV hash, language file | the game |
| `Instrumentor`, `Log` | the open session and its file | begin/end session, write a profile | any thread |
| `cli.py`, `tools/` | `build.meta` | run the named scripts one after the other | the developer |

Interactions. A connection's handlers run on the io_context's thread and put
what they read into the owner's `Threadsafe_Queue`, which the application
drains. The server's accept handler and the application share `m_connections`
without a lock. `Entity_Manager::update` tells the systems which entities came
and went; the systems read components through the entity's manager; the render
system looks its textures up in the asset manager.

What makes each part correct: the queue never deadlocks, loses a wake-up it
owes or pops what is not there; a connection delivers what is sent, in order
and framed, but for a lost tail, and nothing before validation; the server has
one acceptor, a sound list, unique ids, and tells everyone; a client's handlers
never meet a destroyed connection; ids are accounted for and systems hold
exactly their entities; handles have one living owner; sprites are drawn by
layer and animated by the clock; an id computed at compile time finds its text;
the manager runs the systems it feeds, and contacts are seen whatever order it
runs them in; a results file can be read and holds each profile once; a chain of
commands stops at the first that fails.

What is hard: the queue's two mutexes; completion handlers in every order with
sends, errors and closes; the handshake against a client that sends at once;
two threads in `m_connections`; ids that are recycled while systems still list
them; vectors that are indexed without a check; a client that is connected again
over the handlers of its last life; a profiler that any thread writes to and that
may be killed; systems in the order of a hash map; and arithmetic that wraps.
`PROJECT.json` lists the hazards one by one, each at its line.

## 2. Modules

| Module | Models |
|---|---|
| `Mailbox` | abstract: a double-ended queue with indivisible operations |
| `ThreadsafeQueue` | `threadsafe_queue.h` and its users, each lock, sleep and wake-up a step |
| `ThreadsafeQueueProofs` | its theorems |
| `Pipe` | abstract: one direction of a connection |
| `Connection` | `connection.cpp` at both ends of a TCP connection, with `Client::connect/send/disconnect` and `Server::stop` |
| `ConnectionProofs` | its theorems |
| `Server` | `server.cpp`: accept loop against list of connections |
| `ServerProofs` | its theorems |
| `EntityManager` | `entity_manager.*`, `system_manager.*`, `system.cpp`, `pool.h` |
| `EntityManagerProofs` | its theorems |
| `Client` | `client.cpp` over several lives: connection, thread and io_context |
| `ClientProofs` | its theorems |
| `Assets` | `asset_manager.cpp` and `font.cpp`: who owns which SDL handle |
| `Drawing` | extends `Assets` by `render_system.cpp` |
| `DrawingProofs` | theorems about both |
| `Frame` | `system_manager.*` with its three maps, and a frame of `movement_system.cpp` and `collision_system.cpp` |
| `Instrumentor` | `instrumentor.h`: sessions, timers, the stream's buffer and the files |
| `InstrumentorProofs` | its theorems |
| `Lang`, `NetData`, `Collision`, `Animation`, `Profiling`, `CommandLine` | algorithms: `lang.h`, `message.h` and `scrambleData`, `collision_system.cpp`, `animation_system.cpp`, `cleanupOutputString`, `cli.py` and `_helpers.py` |
| `Basics` | what they share: assignment to a map, exclusive or on digits |
| `Algorithms` | calls of those algorithms, each against what it is for |
| `GameProofs` | theorems about `Frame` and `Algorithms` |
| `MC...` | the instances that TLC checks |

### ThreadsafeQueue
`mutex` and `mutexBlock` are the owners of `m_mutex` and `m_mutexBlock`,
`queue` the deque and `pc` where each thread is. A critical section under
`m_mutex` alone is one step, as nothing else can be seen of it; a push is
three (change the deque, take `m_mutexBlock`, notify and release both), and
`wait()` six, with the release-and-sleep of the condition variable atomic and
spurious wake-ups allowed. A consumer is `Server::processMessages` (argument
`wait`, `maxMessages`, local `messageCount`) or a direct user (`isEmpty`, then
`popBack`; `clear`). Popping an empty deque is undefined behaviour and leads to
the thread's state `undefined`.

With one consumer the queue implements `Mailbox` (`Phase` maps where the
thread is to what its caller knows). With two it does not: one may pop what the
other saw. A push that completes between `wait()`'s `isEmpty()` and its
`m_mutexBlock` is notified to nobody, so that the consumer sleeps beside an
item until the next push; `PushWakes` states what is true nevertheless.

### Connection
Each end is a record: the socket, whether `run()` still runs, asio's FIFO of
ready handlers, the outstanding read and writes, `m_messagesOut` and
`m_tempMessageIn`. The kernel finishes operations (`Transmit`, `Arrive`, and
their failures) and appends the completion to the FIFO; the `Run...` actions
run its head and are the handlers of `connection.cpp`. What travels are units,
one per `async_write`: handshake word, header, body. `sent` and `received` are
histories; each direction implements `Pipe`, which allows the tail to be lost
and says that an empty message is delivered with the body of the one before
(`m_tempMessageIn.body` is not cleared, `connection.cpp:177-183`).

External and taken from how the code uses them: asio's FIFO of handlers, the
abort of outstanding operations by `close()`, TCP's order. The challenge is an
opaque value: the answer is what `scrambleData` makes of it and anything else
is wrong.

### Server
The accept handler is three steps (`Accept`, `Push`, `FinishAccept`) and
`messageAllClients` one per element, so that the two threads interleave in
`m_connections`. The io thread is in the list from `push_back` (line 49) to the last
`back()` (line 53), which is what `IoThreadIsIn` says and why `FinishAccept` is a
`Touch` as well. When both are inside, the outcome is either benign or
`corrupt`, after which the model stops: every property but `SurvivesDenial` says
what holds as long as the two threads have not met. The race itself
(`server.cpp:49-53` against `68-100`) is listed as a hazard and held by no property.

`start()` asks nothing and is two steps: `StartAccept` arms another accept, whether
or not the server runs, and `StartThread` makes the thread. Unless a `stop()` has
joined the one before, the thread it assigns to is
joinable: `std::terminate`, here `io = "terminated"`. Between the two steps
a running server has two accepts and may use both. After `stop()` the thread returns
at once, as nothing restarts the io_context. The thread that a terminating `start()`
has made is given no time to run.

`AcceptThrows` is
the handler that throws: every branch but the approval asks a socket without a
peer for its endpoint. Callbacks are `notices` (`onClientDisconnect`) and the
choice between `Accept` and `AcceptThrows` (`onClientConnect`).

### EntityManager
Entities and component types are numbers. `members[s][e]` is how often `e` is
in the list of `s`; `owners` is a ghost: how many entities that were created
with an id are not destroyed. The constants `StaleHandles`,
`LateAdds`, `LateRemovals`, `LateSystems` and `BlindReads` say which calls the game
allows itself, since the code checks none of them; the last is a `getComponent` of a
component that the entity lacks. Adding a system that exists, or a component type
that does not fit a signature (`bitset::set` throws when the pool has grown),
is part of the model.

Every call that indexes `m_entitySignatures` or a pool, `hasComponent` and
`getComponent` included, compares its index with the size of the vector: the first
that is past the end goes into `outside`, and the model stops there, as that is
undefined behaviour. `StorageBounds` shows that this is only ever a `getComponent`
of a component the entity lacks, whose pool is too short or not there
(`entity_manager.h:105-106`); a signature of an id beyond `m_entitySignatures`,
`{}` in the model, is never read.

The comment "Vector index = component ID" at `entity_manager.h:56` is not how the
code uses `m_entitySignatures`: it is indexed by entity, and modelled so.

### Client
`connect()` is two steps (the new `Connection`, then the thread) and
`disconnect()` three (the posted close, `m_context.stop()`, join and reset), so
that the io_context's thread runs between them. `work[n]` counts what the
io_context still holds for the `n`-th `Connection`; a handler that ends for a
`Connection` that is not `m_connection` any more is undefined behaviour.
Assigning a thread to a joinable one is `std::terminate`. `misused` records that
the game connected over a living connection or called `setId` with none; these
two end the program and nothing else does. `MaxWork` bounds the model only: the code
posts without limit. What a handler does is abstracted to
its effect here: the socket may be closed, and one operation may follow.

### Assets and Drawing
A handle is a number, made once and destroyed by its owner or never. `reloads`
counts the loads that found their place taken: `emplace` then drops the new
texture and `Font::load` the old font, the only two leaks. `Drawing` adds the
render system's list: `std::sort` by layer when an entity comes, ties in any
order; a removal keeps the order; nothing sorts when a layer changes.

### Frame
`systems`, `updates` and `renders` are the three maps of `System_Manager`, from a
type to a number per system made; `insert` drops a second system of a type and
`removeSystem` of a type that is not there uses `end()`, which ends the model.
`Update` runs the systems of `updates` in any order, as an `unordered_map` may;
only the movement and the collision system change anything here, so that order
comes to whether a contact is tested on the positions before or after the movement
of the same frame. `Without` is the `erase(remove_if)` of `removeEntity`. Positions
are whole pixels on a line; `dt` is not used by the code. `EntityManager` has the ids and signatures; here an
entity is registered with fixed components, named by the types they suit.

### Instrumentor
`file` is what the disk has, `buffer` what the stream has not flushed. The game's
calls take several steps under `m_mutex` (footer, close, open, header, flush), a
timer's profile three (lock and look at the session, write, flush). `Kill` may
come between any two and drops the buffer; `Exit` runs the destructor, which ends
the session. `ofstream::open` empties a file that was there. An explicit `stop()`
may come again, since it does not look at `m_Stopped`. Not here: a flush that
carries part of the buffer, timers that outlive `main`, and what is in a profile.
A profile that was measured before a session began may land in that session's
file; no comment says otherwise, and `ProfilesAccounted` allows it.

### Lang, NetData, Collision, Animation, Profiling, CommandLine, Algorithms
Operators translated from the functions, over bytes and hexadecimal digits so
that TLC's 32-bit integers do. A function with a loop is given by its state at the
start, its condition and one turn (`NewTable`, `LinesLeft`, `ReadLine` for
`readLanguageFile`; `NewClean`, `CharsLeft`, `CleanAt`; `NewLoop`,
`ArgumentsLeft`, `Turn`). A behaviour of `Algorithms` is one call with one input
(`call`), then the turns of its loop (`loop`); a message is pushed to and pulled
from in any order. The properties so speak of each turn, not of the result only.
The sets of inputs are constants; `MCAlgorithms` gives those TLC checks. The two
hashes are recursive functions of the length, as the code has a loop for the one
and a recursion for the other.
For keys with chars above 127 the two hashes differ (the constexpr one
sign-extends, see `StepConst`): such keys are in the files, and `LookupFindsLastLine`
is about the others. `AlgorithmsAssumption` excludes
keys of one file whose hashes are the same: `out[hash]` cannot tell those apart.
The collision test is exact only because pixels are whole numbers here, and only for
boxes that cover pixels: one without extent, the default of `Box_Collider`, is
reported when it lies strictly inside another, as `CollidedOverlap` says (`Meet`). A
negative scale, which turns a box over, is no input.
`Animation` computes in u32 with a wrap given as a constant; `shouldLoop` is never
read by the code, and a frame count of 0, which divides by zero, is no input.
`cleanupOutputString` copies a second match that follows the first at once, so
`SignaturesCleaned` is stated for matches that are apart. `CommandLine` takes an
argument as its whole text, what it begins with, its key and its value: the script
that runs is the one the text names (`cli.py:19,49`), so `-build` and `build=1` find
none, and options go by key. An empty argument after a
command raises an exception before that command is run, and a name that begins
with `_` is not refused, because `cli.py:22` tests the path.

## 3. Runs

| Run | Shows |
|---|---|
| `QueueOneConsumer` | two producers, one consumer, at most 3 items queued: no deadlock of the mutexes, `wait()` is not in vain, a push wakes the consumer, refinement of `Mailbox` (so nothing is popped that is not there) |
| `ConnectionPatient` | messages both ways, a client that waits for the server, refusal and a broken network: refinement of `Pipe` both ways, and until then everything is delivered |
| `ConnectionEager` | all faults, a client that sends at once: framing, validation, no use of a popped message, the pump never stalls, refinement of `Pipe` |
| `ServerList` | three clients, and an application that also starts a server that runs: the acceptor, ids, list, notices and broadcasts, up to the first data race |
| `ServerDenial` | **violated**: a denial ends the program (finding) |
| `EcsDisciplined` | ids, recycling and system lists of a game that plays by the rules |
| `EcsAnyCalls` | any calls: only a `getComponent` of a component the entity lacks may be out of bounds, and a pool moves its components only to double |
| `Drawing` | handles have one living owner and only reloads leak; sprites stay in layer order |
| `Frame` | the manager updates and renders what it feeds; contacts are reported in whatever order systems run |
| `ClientLives` | three connections of one client: safe unless misused, only the first is served, `disconnect()` returns |
| `Profiles` | two timers and the game, killed anywhere: files are well formed and profiles accounted for |
| `Algorithms` | look-up of texts, the stack of a message, the challenge's answers, the pairs that collide, the animation's frame over the wrap of the clock, the chain of commands and their options, cleaned signatures |

`ThreadsafeQueue` with more draining threads is not run: `LockOrder` is proved for
any number of them, and the other properties assume one.

Bounds. `MaxLen`: a push on a longer queue adds nothing the locks could see.
`MaxSends`: two messages, one with a body and one without, are what a stale
body, a swapped order or a missing restart of the pump need; `Disconnect` is
posted once at a time. `MaxDirect`, `MaxAccepts`: one repeated notice, one
`start()` beside an accept that waits. `MaxEntities`, `MaxFree`, `MaxCopies`: three ids allow one in use, one
free and one awaiting destruction; where handles are stale two ids and two free
places suffice to put an id in the list twice. Pools of 1 or 2 slots instead of
128 make the growth happen. `Drawing`: three handles let one replace another
while a third is alive. `Frame`: three systems are one of two types and a second
of a type, or a type that comes back; entities that start at distance 2 and move by
up to 1 meet, cross and part within `Horizon`. `Profiles`: three profiles of two
timers reach both files, a file that is opened again, and no session at all.
`MaxLives` = 3: a life before, the one that is served and one after. The inputs of
`Algorithms` are the finite sets of `MCAlgorithms`: three lines with keys that are prefixes of
each other or not ASCII, four pushes, challenges that differ in one digit, three colliders that
touch, cross or contain each other, some without extent, animations that begin on both sides of the wrap
of a clock of 16 ticks, command lines of four arguments with scripts that fail, and
signatures of six chars with up to three calling conventions of two.

Deadlock is not checked where the system may stop: a queue's threads in
undefined behaviour, a finished or broken connection, a dead or corrupt server, a
client that is destroyed, a game that read outside a vector, crashed or quit, a program that ended or was
killed, an algorithm that is done.

Fairness. `ThreadsafeQueue`: a thread inside a call goes on, and a mutex that is
released again and again is in the end granted (strong fairness on lock
acquisition); nobody is obliged to call anything and spurious wake-ups are not
owed. `Connection`: the io_context's thread runs handlers, the network delivers
when it is not broken, reads and writes finish independently. `Client`: the game's
thread goes on inside `disconnect()`, a handler that runs ends, and `run()`
returns when it may; no operation that waits on the network need be over. The
others are checked for safety only.

## 4. Proofs

For every value of the constants (`tlapm`):

- `ThreadsafeQueueProofs`: types, `NoLockCycle`, `PopFindsItem` (proved only),
  `WaitYieldsMessage`, and that the queue implements `Mailbox`. The inductive
  invariant ties each lock's owner to the threads whose `pc` says they hold it;
  that is what excludes the cycle, since no thread that holds `m_mutexBlock`
  in `wait()` is before an `isEmpty()`. The last three assume
  `SingleConsumer`.
- `EntityManagerProofs`: types, `StorageBounds`, `MembersHaveStorage`,
  `PoolsDouble` (any game), `CarefulReadsAreInside` (proved only: without blind
  reads nothing is out of bounds), `IdsAccounted`, `FreeIdsAreBare` (no stale handles), `NoStaleMembers`
  (no late removals either), `MembersExact` (a disciplined game). `IdsAccounted`
  is inductive once the free list is known to have no duplicates; the later
  ones build on it, because an id that is free and registered at once would
  break each of them. The two about bounds rest on `StorageCovers`: a component that a
  signature has, has a slot, and every id has a signature.
  `NoStaleMembers` is the statement for games whose components and systems come
  late; it is proved only, as `MembersExact` implies it in `EcsDisciplined`.
- `ServerProofs`: types and all five properties of `ServerList`, for any number of clients.
  Its parts say which call is in progress (`CallInv`); that the handler's client
  is open, and the back of the list once it is pushed (`HandlerInv`); that ids are
  below `m_idCounter` and given once (`IdInv`); that the list has every open client
  once, and null pointers only during a broadcast (`ListInv`); that a closed client
  has a notice once it has left the list (`ReportInv`); and that the broadcast has
  told everyone before its index (`LoopInv`), which gives `EveryoneIsTold` when it
  ends. They hold as long as the list is not corrupt.
- `ClientProofs`: types (for any `MaxWork`), `SafeUnlessMisused`, `OnlyFirstIsServed`. As the
  io_context is never restarted, a context that is not stopped has seen one life
  at most; so every handler that can run is of the connection that is there.
- `GameProofs`, on `Frame`: `RunsWhatItFeeds`, which needs that the number of a new
  system is in no map; that the collision test is the same as sharing a pixel, for
  all rectangles that cover any; and `ContactsReported`. For that `ListInv` says
  that each system's list holds registered entities that suit it, each once: an
  entity that leaves is taken out of every list before its id can come again (a
  theorem of its own, `ListsHoldWhoSuits`, which no run checks).
  `WithoutIs` is what `erase(remove_if)` returns: the kept places are numbered by how
  many were kept before them, which is onto (`RankIsOnto`, by counting finite sets).
  The test is symmetric, so one report of a pair serves both.
- `GameProofs`, on `Algorithms`: all eight properties of that run, for inputs of any
  number and length. `CallInv` says that a call's input is one of those given;
  then each loop has its invariant, and a turn of one leaves the others alone.
  *Challenges*: the exclusive or of two digits, bit by bit, gives the second back, so
  that only what `Swap` drops is lost. *Scenes*: the collision test, on boxes without extent too, and
  the pairs of a list. *Moments*: the clock's difference modulo the wrap is the time that
  passed, as remainders are unique, and so is the frame. *Messages*: `LieAt` says
  that the pushed values lie end to end in the body; a pull takes off the last.
  *Signatures*: `CleanedTo` says that the chars kept so far are in the result at
  their rank among the kept; after a match that is followed by no other at once,
  the char that is copied without a look is a kept one. *Arguments*: `PlaceInv` says
  for each place of `cli.py`'s loop which arguments are behind it and are this
  command's options, `DictIsGiven` that the dictionary has the last value of each
  key among those used, and what ran is as it was when it ran. *Files*: `TableOf`
  says that the table has, for each key, the value of its last line. The two hashes
  agree on ASCII without any induction: on such a string the two recursive functions
  are defined by the same equation, so they are the same function. Assumed are
  `AlgorithmsAssumption` and the assumptions on the clock: keys without
  spaces whose hashes differ, scales that are not negative, a sheet of frames that fits a u32, time that does not
  go back.
- `DrawingProofs`: types, `HandlesOwnedOnce`, `OnlyReloadsLeak`, `DrawnInLayerOrder`. The
  invariant `AssetsInv` keeps every handle below the next one to be made and counts
  those without an owner; the cardinalities of `alive` and `Owned` change together
  in each action but the reloads.
- `ConnectionProofs`: all five properties of `ConnectionEager`, for any messages,
  bounds and faults. `Inv` says of each end that at most one write of a message is
  outstanding or finished, that the queue has its message then, and that the accept
  comes once and finds no socket; and that the server has read nothing of a message
  while `validated` is false. `ShapeInv` and `StreamInv` carry `WellFramed` and
  `ImplementsPipes`: what is on its way from one end to the other (written by the
  one and not yet taken by the other, then the rest of the front message, then the
  queue behind it) is a chain of units, in which each message's body follows its
  header. It begins where the reader is, `Due` by what it reads next, and ends where
  the writer is, `WriterAt` the front of `m_messagesOut`. `AnswerInv` and
  `ChallengeInv` put the word of the handshake before the chain, which is why an
  eager client's header may be taken for the answer and closes the server's end,
  but cannot bend the chain; `TakenInv` says what `m_tempMessageIn` holds of the
  last messages, for the empty one that is delivered with an old body. A close, a
  fault or the end of `run()` cuts the chain at its end and never inside.
  `DeliversInOrder` then maps each step to one of `Pipe` in both directions. The
  assumption on `Messages` is that a body is a sequence.
- `InstrumentorProofs`: types, `FilesWellFormed`, `ProfilesAccounted`. The inductive
  invariant says who is where in a critical section by who holds `m_mutex`, and
  what the buffer and the open file hold at each place; a new profile's number is
  greater than all on the disk, so it is nowhere else.

Assumptions on the constants are the `ASSUME`s of the modules; TLC evaluates
them in the runs.

Only model-checked: liveness (`PushWakes`, `AllDelivered`, `DisconnectReturns`),
which needs fairness and is out of the prover's reach. What a hash is for a given
key is not proved either, only that both give the same: it would need induction
over the key.

## 5. Findings

- `server.cpp:56`: after a denial the handler calls `remote_endpoint()` on the
  socket it has moved from, which throws in a thread that catches nothing. The
  log line and the accept at line 63 intend the opposite. As `onClientConnect`
  denies by default, a plain `Server` ends with its first client.

## 6. Not modelled, and the plan

Not modelled: `Renderer2D` (one pointer), the logger (output), SDL drawing,
`splitStringDelimited` (nothing calls it), the debug drawing of colliders and its
flag, `Connection::setId`/`getId`, which only label log lines, component values,
and the scripts of `tools/` themselves: they start other programs, and the build
counter they keep is one file that is read, truncated and written. Callbacks of the
application (`onClientConnect`, `onClientDisconnect`) are taken to return without
calling the server again.

Plan, in this order:

1. The lifetime of a `Connection` across the server's list and its handlers, which
   capture a raw `this` while `messageAllClients` may drop the last reference.
2. The build counter's file under scripts that are stopped or run at once.
3. Proofs: every safety and action property of a passing run is a theorem now. What
   is left is the same for what 1 and 2 add, and the free list of a game that uses
   stale handles, where only bounds are proved.
