# Lindux in TLA+

Lindux is a Linda tuple space for UNIX processes: a server keeps tuples,
clients type `output`, `read` and `input` commands, and everything travels
through FIFOs. `read` and `input` wait until there is a tuple that matches
their pattern; `input` removes it. This directory holds TLA+ models of the
program, the configurations that check them with TLC, and proofs checked by
TLAPS. Paths are relative to the repository.

## The system

| Component | State | Operations | Talks to |
|---|---|---|---|
| `ServerDB` (`src/server_db.cpp`) | `records` under `db_mutex`, `waiting_threads_queue` under `queue_mutex` | `addTupleToDB`, `findTuple`, `findTupleAndRemoveIt`, `waitForTuple`, `informWaitingThreads` | called by all service threads |
| `ServiceThread` (`src/service_thread.cpp`) | its FIFOs, its `MessageBuffer`, its `AwaitingParams` (pattern, `isInput`, tuple passed, mutex) | one command at a time: `handleRead`, `handleInput`, `handleWrite`; disconnection | its client through two FIFOs; other threads through `AwaitingParams` |
| `Server` (`src/server.cpp`) | bus FIFOs, `/bus_mutex`, `new_connection`, `params` on the stack | `mainLoop`: collect requests, make a FIFO pair, respond, start a thread; `sigHandler` | clients through the bus, new threads through `&params` |
| `Client` (`src/client.cpp`) | its FIFOs, its `MessageBuffer` | `connect`, `interact`, `disconnect` | the bus, then its service thread |
| Transport (`src/linda_common.cpp`, `src/message_buffer.cpp`) | `queue_`, `msg_buffer_` | send, read, cut bytes into messages | every pair of processes |
| Serialization (`src/serializer.cpp`, `src/deserializer.cpp`) | none | messages to bytes and back | transport |
| Tuples and patterns (`src/tuple.cpp`) | none | `matches`, construction from text | `ServerDB`, serialization |
| Parser (`src/parser.cpp`) | none | command lines to commands, `show` | `Client` |
| Logging (`include/common.hpp`, `lib/loguru`, vendored) | `s_mutex`, `s_callbacks`, `g_stderr_verbosity` | `loggerInit`, `LOG_S`, `flush`, handlers of signals and of `exit` | every thread, and whatever a signal interrupts |

The UUID generator and those parts of loguru that the programs do not use are
outside the models.

What is hard here, and what makes each part correct:

* **The handover of a tuple.** An output wakes waiters by unlocking a mutex that
  the waiter locks twice; what it hands over lies in a structure that the waiter
  owns and uses again. A reply must match its command, no waiter may be lost
  from the queue, passed over or served twice, and a tuple must go to one input
  only.
* **Two mutexes, one operation.** Search and wait, and scan and insert, are
  separate critical sections; other clients run in between. No tuple may be
  lost, doubled or overlooked.
* **The bus.** Requests carry no name and responses no addressee; only a named
  semaphore, which outlives its processes, keeps exchanges apart. Each client
  must get a pair of FIFOs and a thread of its own, and get it in the end.
* **Framing.** Messages are binary and end in `$`; reads cut them anywhere.
  They must arrive whole, in order, once, and not stay in a buffer while the
  receiver blocks.
* **Errors.** A command is several messages each way. Clients are killed between
  any two of them, an element may be cut on its way, and both sides throw when a
  message is not the one they expect. What a client prints must still be the
  answer to the command it typed.
* **Text.** A pattern is text, then a value, then text again on the wire, then a
  value. It must be the same pattern in the end.
* **Signals.** SIGINT is handled by a function that logs, allocates, removes the
  names of the bus and calls `exit()`, on top of whatever its thread was
  doing. The log must stay consistent and the names must go.

## Modules

| Module | What it is |
|---|---|
| `TupleMatch` | tuples, patterns, `matches` and the two comparison helpers of `ServerDB` |
| `ServerDB` | service threads, database and waiting queue, one action per step that other threads can see |
| `ServerDBInvariant` | the inductive invariant `IInv` of `ServerDB` |
| `TupleSpace` | abstract: a tuple space with atomic output, read and input |
| `ServerDBRefinement` | the mapping from `ServerDB` to `TupleSpace`, and `PureInv`, what the refinement needs beside `IInv` |
| `ServerDBProofs` | theorems about `ServerDB` for TLAPS: its invariants, and the refinement |
| `Bus` | `Client::connect` against `Server`, with crashes and restarts, and the start of the service threads |
| `BusInvariant` | the inductive invariant `IInv` of `Bus`, and `ServedInv` about its threads |
| `BusProofs` | theorems about `Bus` for TLAPS |
| `Channel` | abstract: a FIFO of whole messages, of which some may be lost |
| `Framing` | one direction of a connection at the level of bytes, refines `Channel` |
| `FramingInvariant`, `FramingProofs` | its invariant and the theorems about it |
| `Session` | clients and service threads message by message, with exceptions and clients that are killed, refines `TupleSpace` |
| `SessionInvariant` | the inductive invariant `IInv` of `Session` |
| `SessionProofs` | theorems about `Session`: its invariants, and the refinement |
| `PatternText` | patterns as text and the number formats of the standard library |
| `Codec` | one message through serializer, `MessageBuffer` and deserializer, byte by byte |
| `CodecProofs` | that a message of any kind and value is read as it was written, down to the digits of numbers |
| `Parser` | a command line through `parse`, and a tuple through `show` and back |
| `Logging` | threads that log and the signal handlers |
| `LoggingInvariant`, `LoggingProofs` | its invariant and the theorems about it |
| `LogSetup` | `loggerInit`, and which messages `LOG_S` passes on |
| `Prompt` | `Parser` and `Codec` composed: a typed line, the messages it becomes, and what the server gets |
| `Program` | `LogSetup` and `Prompt` composed: the main functions as far as they are sequential |
| `ProgramInvariant` | its inductive invariants: of the set-up of the log, of the parser, of a message and of a command |
| `ProgramProofs` | theorems about `Program`, and so about `LogSetup`, `Parser`, `Codec` and `Prompt` |
| `SequenceLemmas` | what the proofs need of `RemoveAt` and `SelectInSeq` |
| `MCServerDB`, `MCServerDBPure`, `MCBus`, `MCFraming`, `MCSession`, `MCProgram`, `MCLogging` | instances for TLC |

They are separate because the interfaces are narrow: `Bus` ends where a
connected client and its thread have the same pair, and `Session` begins there.
`Session` takes from `Framing` and `Codec` that a message arrives once and as it
was sent, or in the pieces that `Arrives` gives. `ServerDB` takes a command and
its reply for one step each, which `ExchangeIsOver` of `Session` justifies, and
shows what `Session` takes for granted: that the steps of several threads inside
the database amount to a search, a scan and an insertion.

### ServerDB

A thread's `pc` names the call it is about to make. A critical section of
`db_mutex` is one action, since it touches only `records`. `informWaitingThreads`
holds `queue_mutex` over several actions (`BeginInform`, then for each waiter
served `PassTuple`, `UnlockWaiter`, `EraseWaiter`, and `EndInform`), since the
waiter runs on while the notifier still uses its `AwaitingParams`. Positions
that do not match are passed inside `PassTuple` and `EndInform`: patterns of
queued threads do not change while they are queued.

* `AwaitingParams::mutex` is locked by its thread and unlocked by another one.
  The standard leaves that undefined; the build uses the mutex of glibc, which
  behaves as a binary semaphore, and `unlocked` is that semaphore.
* `isInput` is the *set* of values a read may yield: one value once it is
  assigned, both while it is indeterminate, before the first wait and after the
  thread has ended and its stack is gone.
* `erase(iter)` and `--iter` at the first element, formally undefined, do on
  `std::vector` what pointers do: the loop continues with the element that moved
  to the erased position.
* A reply sent and a command received are one step each, as the client waits for
  the reply before it types again. Commands come from `Request`: only what
  `parse` accepts; NaN, which no literal gives, is left out.
* `owed` is a history variable: outputs of a tuple minus inputs answered with it
  minus duplicates dropped.
* Operators commented "Seeded bug" are mistakes that the properties must detect.
  They occur in no specification.

### Bus

What a name refers to is identified by the start of the server that created it,
so that old and new semaphores and FIFOs can be told apart. Clients open the bus
step by step as in `connect`; `End` is the end of a process with everything the
operating system does then. Of the server, the steps between `poll`s are apart,
and so are the construction of `params`, `pthread_create` and the copy the new
thread makes. `params` lies in one stack slot for all iterations of the loop (the
build has no optimisation, `CMakeLists.txt`); a read of it during or after the
next construction yields the old value, the new one or a mixture (`Torn`).
`overtaken` records that `params` was filled again while a thread had yet to
copy it; `ServedByOwnThread` and `ClientConnects` are stated for as long as it
is `FALSE`, and every delay of a thread is explored for the other properties.
UUIDs are taken to be different. All
responses that can be pending fit one read of 512 bytes (`MaxPairs <= 4`).

### Framing

A byte knows its message and position and whether it has the value of `$`.
A message with such a byte is *cut*: `Channel` may lose it, and only it.
The sender's `write` may be split by the pipe, the receiver reads at most
`PIPE_READ_SIZE` bytes. `push` looks at the size of the queue once for each read:
it refuses all bytes or takes all, and then handles them one by one (`pushing`).
`Deserializes` stands for `deserialize`: only the bytes
of a whole message give a message. For parts of messages that holds when they
contain no byte that is itself a message type followed by enough bytes, as for
the integers and sizes used here; strings made to look like messages are left
out. A `write` never fails here: dying peers are in `Bus` and in `Session`, and
messages that look like others in `Codec`.

### Session

A client stands at the prompt, before the first message of a reply, or among its
elements. A thread's `pc` is the call it is about to make. Each direction has the
messages that its sender is about to write (`unsent`), those in the FIFO and
those in the receiver's buffer. A command is smaller than a read, so that
`bufferedReadFromPipe` takes all there is. `starved` marks a receiver that has
gone back to `read()` behind a message that did not deserialize, although its
buffer may hold more: that is what `readFromPipeUntilMessageFound` does.

`Kill` may come anywhere. Nobody notices: both processes hold both FIFOs open
`O_RDWR`, so there is no end of file and no `SIGPIPE`. A client killed at the
prompt is like one that has left without a goodbye. `receiveThrows` ends the
server, since no handler is above `ServiceThread::mainLoop`; the client catches
the same exception and shows an error. `ThrowsOnlyIfDamaged` says that clients
who die anywhere, and commands of any kind, never bring that about: only an
element that was cut does.

An element that is cut enters the FIFO in several pieces, but by one `write`, so
that they come together (`Pieces`). `Arrives` says what becomes of it: itself, two
pieces of garbage (as for the integer 36), or garbage and a message of another
type (as for 32804, whose bytes are 24 80 00 00). `SessionAssumption` leaves out
the empty tuple, which `db_empty_tuple_lost` of `ServerDB` is about, and tuples of
36 and more elements, whose header may be cut. `served` and `shown` are history
variables.

### PatternText, Codec, Parser, Prompt and Program

A text is a sequence of character codes. What may throw is the set of its
results, empty if it throws. A double is a count of 10^-7, one digit more than
`std::to_string` writes, and doubles on the wire are eight bytes that are not
interpreted; scientific notation, infinities and NaN are left out. `INT_MAX` is a
constant, so that `std::stoi` can overflow with three digits.

`Message` of `Codec` is every message that the programs construct: texts are
shorter than 16 MB, since a size is modelled by its first three bytes, and doubles
are below 10^9, where one is still exact to 10^-7.

In `Codec` a bool copied from a byte other than 0 and 1 has either value. What
is known to go wrong is named: a message is `Damaged` (a byte is `$`),
`Ambiguous` (the text of a pattern does not say where its operator ends) or
`Imprecise` (a double has a seventh decimal). `MessagesArrive` says that nothing
else does, and what the last two come to.

In `Parser` a keyword is one symbol, which no text is: `parse` compares whole
words. Indexing with `npos` reads the byte in front of the characters, which
both layouts of `std::string` in the build fill with the highest byte of a size:
0. `AcceptsTheGrammar` compares the parser with a reference that has no position:
`WellFormed` looks at the whole line and splits its body at the commas outside quotes,
and `Meaning` says which value or pattern a piece between them is.

`Prompt` puts them together as `Client::interact` does: a line is typed and
parsed, `handleCommand` makes a header and a message for each element, and each
is serialized, cut and deserialized. `CommandArrives` goes from one end to the
other: what the receiver has, byte for byte, is what the line means, told from
the grammar. Replies and the messages of the bus are sent without being typed
(`sendOther`). A message is made when the one before has arrived; how messages
overlap in a FIFO is the subject of `Framing`. `Program` lets all this begin when
the log has been set up.

### Logging and LogSetup

A thread is a stack of calls, and a signal puts its handler on top of it. What
`log_message` does under `s_mutex` is several actions: the stack trace of a fatal
line, stderr, the file, and the flush. `malloc` is a place of a call, since the
lock of an arena is not recursive as `s_mutex` is; threads have arenas of
their own. `exit()` destroys `s_callbacks` while other threads log on: a loop
over it finds the old memory, nothing, or crashes. Each signal is sent once;
SIGABRT, which the model has but the run leaves out as it does what SIGTERM does,
is raised by a thread that an exception has ended. The build sets no
`LOGURU_WITH_FILEABS`, and `g_flush_interval_ms` stays 0: every line is flushed.

`LogSetup` has each turn of the loop of `parse_args` and of
`create_directories`, either of which may fail. An argument is a flag
or not and has a text; a flag is `-v` with no letter behind it.

## Runs

| Run | Shows |
|---|---|
| `db_mixed` | 3 threads, 2 tuples, 2 patterns, all commands, 4 of them: type, handover, queue and database invariants and `IInv` |
| `db_pure` | 3 threads, 4 commands, fair: outputs and inputs (2 tuples, any and equal patterns), and outputs and reads: `Conservation`, `InputRemoves`, refinement of `TupleSpace`, `OutputCompletes`, `WaitingReaderIsServed` |
| `bus_restart` | 3 clients, 2 starts of the server, every fault: the semaphores exclude, pairs are given once, exchanges are serial, threads are own |
| `bus_fair` | 3 clients, fair: each is connected |
| `framing` | 4 messages of 1, 2 or 4 bytes, one of them with a `$`, reads of 4, a pipe of 6, fair: refinement of `Channel`, `NothingWithheld`, `EveryMessageArrives` |
| `session_mixed` | 2 clients, commands of all kinds, tuples of one and two elements, kills, elements that are cut: `AnswersCommand`, `ExchangeIsOver`, `ThrowsOnlyIfDamaged`, refinement of `TupleSpace` |
| `session_fair` | 2 clients, 3 commands, without faults, fair: `CommandReturns`, `GoodbyeEndsThread` |
| `program` | every command line of up to 3 arguments of 7 kinds; 40000 lines: all of up to five symbols after `output` and four parts after `input`, longer ones that are well formed up to one symbol, patterns of every operator or part of one; 1000 messages of bytes that are message types, flags, digits or terminators: `AcceptsTheGrammar`, `ShownIsTypeable`, `CommandArrives`, `MessagesArrive`, `CutoffIsExact`, `CommandLineIsRead` |
| `log_signals` | 2 threads with a line each, SIGINT and SIGTERM anywhere, fair: `SinksAgree`, `KilledIsLogged`, `CleansUp` |

and, as expected violations, the disagreements between code and documentation:

| Run | Violated | What happens |
|---|---|---|
| `db_stranded_reader` | `NoStrandedWaiter` | `read` misses; an `output` scans the empty queue and inserts; `read` queues and waits for a tuple that is there |
| `db_input_taken_twice` | `InputRemoves` | the notifier wakes an `input`; that client gets its reply and starts a `read` that waits; the notifier now reads `isInput = false`, goes on and the tuple lives on |
| `db_empty_tuple_lost` | `Conservation` | `output()`, `input()`: the tuple is removed and taken for "none found" |

**Deviations without a run of their own.** The code does other things that its
documentation does not say. The models contain them; the properties of the
passing runs name them as their exceptions, and would fail without the exception.

* A service thread that copies `params` after the next connection was made
  serves the wrong client (`src/server.cpp:102`): `~overtaken` in
  `ServedByOwnThread`.
* A message with a byte 0x24, `output(36)` for instance, is cut and lost
  (`src/message_buffer.cpp:17`): `Cut` in `Framing`, `Damaged` in `Codec`.
* The integer 32804, whose bytes are 24 80 00 00, arrives as garbage and as "client
  wants to disconnect". After `output(32804)` that message is left in the buffer,
  since the thread goes back to `read` behind garbage; with `output(32804, 1)` the
  next element wakes it, `receiveTuple` throws at the message and the server ends
  (`src/linda_common.cpp:104`): `ThrowsOnlyIfDamaged`.
* A piece of a cut element may be an element itself: a string that holds `$`
  and behind it the bytes of a message is received as that message
  (`src/deserializer.cpp:137`). `PiecesAreNoElements` excludes it in the theorems
  about `Session`, and `MCSession` assumes it, so that TLC evaluates it.
* A client that is killed while its `input` waits gets the next tuple that matches,
  and the tuple is lost with it (`src/server_db.cpp:90`). The refinement of
  `TupleSpace` allows it: the command takes effect, and nobody reads its answer.
* `String("> =x")` is sent as `>=x` (`src/serializer.cpp:77`): `Ambiguous`.
  `Float("==0.0000001")` is sent as `==0.000000` (`src/serializer.cpp:72`):
  `Imprecise`.
* SIGINT in `malloc`: the handler logs and waits for its own thread
  (`src/server.cpp:11`): the last disjunct of `CleansUp`. Between the two sinks of
  a line, SIGINT leaves the line out of the file (`src/server.cpp:15`):
  `SinksAgree` is about a free mutex.
* `loggerInit` overwrites the level that `-v` gave (`include/common.hpp:19`):
  `FlagIsHonoured` ends there.

**Bounds.** Three threads are what the hard cases take: a notifier, a waiter it
wakes and one that profits from the mistake, or two outputs and a waiter. Two
tuples and the patterns "any" and "equal" give a waiter that two outputs
match and one that only one matches. Four commands suffice for
two waits of one thread around a notification, which every handover error needs.
`Tuples` have one element; the comparison of more is a conjunction. In `Bus` a
third client arrives while one is on the bus and one waits; two starts give one
restart. In `Framing` the sizes are chosen so that a message is larger than a
read, a read brings two messages, a part is left over, and the pipe is full;
`max_size_` (100 in the code) is above the pieces that four messages make, since a
queue that fills up behind garbage refuses other messages (`QueueHasRoom` of
`FramingInvariant` is what the run then has: with `max_size_ = 2` it does not hold).
In `Session` two clients with three commands give a waiter, the output that
serves it and one more command on either side, which is where an exchange out of
step would show; a tuple of two elements gives a reply that is cut short, and
one with an element behind a cut one a thread that throws. In
`Codec` every byte of a message that is compared with something takes a value
on either side of the comparison. Lines of five symbols hold two elements
with a comma and what may go wrong between them. One line per thread is enough
for a handler's line in the middle of it, in the same thread and in another.

**Seen from the clients.** `session_mixed` shows that
`Session` implements `TupleSpace`, also when clients are killed: a command whose
client is killed takes effect as a whole or not at all. What that does not say is
that the tuple which a dead input takes is lost. The refinement
survives the end of the server, as nothing happens after it.

**Pure workloads.** `Conservation` and the refinement are checked for inputs
without reads and reads without inputs. With both, `db_input_taken_twice` breaks
them: the wrong `isInput` is either a read taken for an input or the
reverse. `EXIT` is left out of these runs as an ended thread's `isInput` is
indeterminate, which has the same effect; `db_mixed` has it. The theorems are for
the same workloads: `PureWorkload`.

**Deadlock.** All configurations say `CHECK_DEADLOCK FALSE`: the system may stop
with clients that wait for tuples or type nothing, and the bounds stop it.
That nothing stops that should not is what the liveness properties say.

**Fairness** is weak, and only of what the operating system schedules: each
service thread's own steps, the server's loop, each client inside `connect` and
while it waits for a reply, begun writes, the receiver, and calls that have begun
to log. Users need not type and faults need not happen.
Weak fairness does not make a mutex or semaphore fair to each waiter; that
threads and clients get their turn all the same follows from the bounded number
of commands and clients. `ClientConnects` is conditional: when a client ends
before it is connected, it may keep the semaphore, and the code has nothing that
gives it back. A client can end so even without faults, when it starts between
the server's `sem_open` and `makeFIFO`.

**Restarts.** `ExchangesAreSerial` holds also when the server is killed in the
middle of an exchange and started again: the semaphore, which `sem_open` does not
reset, keeps its value. With SIGINT the names are unlinked, and a client
on the unlinked semaphore may meet the new bus together with one on the new
semaphore; `OneSemaphore` excludes that.

## Proofs

`ServerDBProofs` proves for every set of threads, tuples, patterns and commands
that `Spec` implies always `TypeOK`, `ReplyMatchesRequest`,
`BlockedWaiterIsQueued`, `OnlyBlockedWaitersNotified`, `NoWaiterPassedOver` and
`NoDuplicateTuples`. The only assumption is `ConstantsAssumption` of `ServerDB`,
which TLC evaluates in every run of it.

None of these is inductive. `IInv` adds

* `ControlOK`: which command is served at which location, who holds
  `queue_mutex`, and that the iterator of a notifier is in the queue;
* `QueueOK`: nobody is queued twice, and the queue holds exactly the threads
  that are blocked and not unlocked, but for the one waiter between
  `UnlockWaiter` and `EraseWaiter`;
* `HandoverOK`: from the entry into the queue to the wake-up the pattern in
  `AwaitingParams` is that of the command, and after `PassTuple` the tuple
  there matches it.

The reply of a waiter matches because `HandoverOK` carries the fact from
`PassTuple`, where it is tested, over `UnlockWaiter` and `LockAwaitingMutex` to
`ReturnPassedTuple`; that no second notifier overwrites it needs `QueueOK`, and
that needs `queue_mutex` from `ControlOK`. Each conjunct has a lemma
(`TypeStep`, `ControlStep`, `QueueStep`, `HandoverStep`, ...) with a step
per action; `InitialIInv`, `InductiveIInv` and `InvariantIInv` put them together.
The lemmas on `RemoveAt` say what erasing from the queue keeps. TLC checks
`IInv` in `db_mixed`.

`BusProofs` proves for every finite set of clients, any number of starts of the
server and any set of faults that `Spec` implies always `TypeOK`, `BusMutex`,
`PairsAreOwn` and `ExchangesAreSerial`. The only assumption is `BusAssumption`,
which TLC evaluates in the runs of `Bus`; that `Clients` is finite is what makes
"at most one holder" a statement about a cardinality. `IInv` of `BusInvariant`
adds

* `HolderOK`: a client between its `sem_wait` and its `sem_post` is alone with
  its semaphore, whose value is 0. `BusMutex` follows. It survives a restart
  because `sem_open` gives the value only to a semaphore that it makes, and the
  number of that one is above all others (`NamesOK`).
* `RequestsOK`: a FIFO holds no more requests than clients are past
  `SendRequest`; without it the type of `linda_bus_write` is not inductive.
* `PairsOK`: the numbers in responses under way are different from each other and
  from those the clients have, and none is above `made`.
* `SerialOK`: on the first bus request, flag and response are together at
  most one exchange, and none when the semaphore is free or its holder has not
  asked yet or has its answer. That no holder dies unnoticed comes out here: a
  client that ends keeps the semaphore at 0 for good, so nobody ever meets what
  it left behind.
* `UnopenedOK`: between the semaphore and the FIFOs of the first start nothing is
  under way.

Each conjunct has one lemma with a step per action. `ClientCases` and
`StepCases` first reduce the actions to fewer forms, as all ways a client can
end are `End` and all ways a server can end are `ServerEnds`.

`ServedInv` is about the threads: as long as nobody is overtaken, `params` keeps the
number of the pair whose thread has not copied it (`Current`), whoever was told a
pair was told one that has a thread or is about to have one (`ToldOK`), and no two
threads have the same pair (`ThreadsOK`). `ClientsAreServedByTheirOwnThread` follows.

`ServerDBProofs` also proves under `PureWorkload` that `ServerDB` implements
`TupleSpace`, and `Conservation` and `InputRemoves`. Each conjunct of `PureWorkload`
is needed: finitely many threads, as the space counts those that hold a tuple; not
both reads and inputs because of `db_input_taken_twice`; nobody leaves, since
`isInput` of a thread that has ended may be either value; no empty tuple because of
`db_empty_tuple_lost`. The numbers of threads, tuples, patterns and commands are
free. `PureInv` adds to `IInv` that waiters in the queue are of one kind, and that
the waiter about to be unlocked holds the tuple. Each action has a lemma that
says which step of the space it is (`FindInputs`, `UnlockAnswers`,
`InsertMerges`, ...); `Simulation` joins them. The ledger `owed` is compared with
the space, not with the server: `LedgerStep` does not look at the actions again.

`FramingProofs` proves for messages, pipes, reads and queues of any size `TypeOK`,
`NothingWithheld` and that `Framing` implements `Channel`. The invariant, `FlowInv`,
is about `coming`, the bytes that no queued message contains yet: they are in
order and without a gap (`StreamOK`), the buffer holds one piece (`BufferOK`), and
the queue holds every message up to the first one that is
coming, but for cut ones (`QueueOK`). A refused `push` breaks that, so the theorem
has the hypothesis `[]QueueHasRoom`; this is a limit of the code, which never looks
at the result of `push`. `PlainMessagesImplementChannel` has no such hypothesis: if
no message has the terminator in it, the receiver goes to the FIFO with an
empty queue only, and there is always room.

`LoggingProofs` proves `TypeOK`, which says that `s_mutex` is held by its owner as often
as the owner has calls of `log_message` under way, `KilledIsLogged` and
`SinksAgree`, for any number of threads and signals. A stack is described from both
ends: what each call has got done where it stands (`CallOK`), and that a call waits
for the one it made or for a handler that never returns (`WaitsFor`). `SinksOK` says
by which line the sinks differ while one is pending. The theorem on the
sinks assumes `g_stderr_verbosity >= Verbosity_INFO`, as `loggerInit` sets it
(`include/common.hpp:19`); below that the lines of threads are in the file only.

`SessionProofs` proves for any number of clients, any tuples, patterns and
commands, with and without kills, and for whatever `Arrives` does to an element,
`TypeOK`, `AnswersCommand`, `ExchangeIsOver` and `ThrowsOnlyIfDamaged`. `IInv` of
`SessionInvariant` says that an exchange is in one of six phases (`Typing`, `Asking`,
`Passing`, `Serving`, `Answering`, `Leaving`), each with the places of both sides and
with what is on both links: `Announced` before the header is read, and then `Intact`
-- received, under way and unsent together are the tuple -- or `Short`, if
something was cut: then fewer elements will come than the header says.
`Short` is why a command that was cut is never carried out and why its thread
throws or waits. It counts the elements in the stream (`Elements`), and that is
where the hypothesis `PiecesAreNoElements` comes in: a piece that is an element would
be counted. `StoreOK` says that only whole tuples are stored, so that no reply is
ever cut; `QueueOK` and `ThrownOK` are about the waiting queue and the end of
the server. Sending, reading and fetching are proved once for a link in either
direction (`LinkSend`, `LinkRead`, `LinkFetch`), and every action has a lemma
`...Keeps`.

`SessionProofs` also proves from the same invariant that `Session` implements
`TupleSpace`: `handleCommand` issues, `addTupleToDB`, `findTuple` and
`informWaitingThreads` take effect, `insertTuple` merges the copy in flight with
one that is stored, the client returns when it prints, and all else is a stutter. The
space counts copies; that at most one thread scans makes that number 0, 1 or 2.

**Text and messages.** `CodecProofs` proves about the operators of `PatternText` and
`Codec`, for every value: a decimal that `std::to_string` writes is read as the same
number by `std::stoi`, a double rounded to six decimals by `std::stod` (`OneMoreDigit`
and the like go digit by digit along the recursive function `NumberOf`); the
constructors `String`, `Int` and `Float` make of the text of a pattern the pattern
it was written from (`Beginning` and `Longest` find its operator); a size is read
as it was written. `MessagesSurvive` puts them together: `deserialize(serialize(m))`
is `{m}` for each `m` of `Message` but the `Ambiguous` and the `Imprecise`, of which it
says what they come to.

`ProgramProofs` proves about `Program`, for every set of lines, messages and command
lines and any `INT_MAX` of 31 bits or less:

* `CutoffIsExact` and `CommandLineIsRead`, from `SetupInv`: while `parse_args` moves
  arguments over each other, those behind the one it reads are as they were, and
  those in front are the ones that are kept, in order (`Kept` names their origin); the
  level is that of the last flag taken.
* `LinesAreParsed`: `ParserInv`, that the position is in the line or is `npos`, also after
  `data[npos]` was read, and that a line yields values or patterns of their types;
  and `OrderOK`, that nothing is typed before the log is set up.
* `AcceptsTheGrammar`, for lines of any length, from `GrammarInv`: in its loop the parser
  has read the elements between the places of a `Path`, which begins at the "(" and cuts
  the line at every comma outside quotes up to where it is, and nowhere else. An
  element has two lemmas: what is read means what stands between its separators
  (`ElementStep`), and what has a meaning is read whole (`MeaningStep`). The first needs
  that an element leaves no quote open (`ShapeIsClosed`), the second that `find`
  stops at the end of the element and not before. When the parser ends, the places of the
  path are `Cuts`, in the order that `Ascending` gives them (`AscendingIs`), so that its
  elements are what `Pieces` mean; when it fails, the line is not `WellFormed`.
* `ProgramTypeOK` and `MessagesArrive`, from `WireInv`: in each phase the bytes, the pieces
  in the queue and what was fetched are those of the message. A message without a
  terminator in it is one piece, by the lemmas on `Ascending`, which orders the
  positions of the terminators; `MessagesSurvive` says what is fetched.
* `CommandArrives`, from `CommandInv`: what has arrived of a command is what was sent of
  it before the message under way. That the messages sent are those *meant* is
  `AcceptsTheGrammar`.

The last three have the hypothesis `[]WithinModel`, that the elements of the line are such
as the model represents: no text of 16 MB, no keyword symbol inside a text (a keyword is
one symbol instead of its letters), doubles below 10^9 whose encoding is eight bytes.
It is about the size of what is typed, not about what the code does with it, and it
holds in every state of the run `program`. The assumptions on the constants
(`IntAssumption`, `LinesAssumption`, `PromptAssumption`, `ProgramAssumption`) are
evaluated there too.

TLC has checked each invariant on the instance of a run before it was proved.

**Only model-checked.** Liveness (TLAPS has no fairness): `OutputCompletes`,
`WaitingReaderIsServed`, `ClientConnects`, `EveryMessageArrives`, `CommandReturns`,
`GoodbyeEndsThread`, `CleansUp`. Of the parser, `ShownIsTypeable`, that `show` prints
what can be typed again: it does so for the lines of the run, but a double with more
than six decimals is printed rounded, so that it is no theorem.

## Not modelled

* Line 71 of `src/server.cpp`, which clears 8 bytes beyond `pfd`.
* Exhaustion of descriptors, threads and memory: each connection costs the
  server two FIFOs, two descriptors and a thread that are never given back,
  and far more connections than TLC can have are needed to notice.
* `std::getline` at the end of a client's input: `interact()` loops without end.
* The generator of UUIDs, and the exceptions that `main` logs before it ends.
* Of loguru what the programs do not use, and the text of its lines.

## Plan

1. *Done:* `ServerDB` with `TupleSpace`, `Bus`, `Framing` with `Channel`, and the
   safety proofs of `ServerDB` and `Bus`.
2. *Done:* `Session`, `Codec`, `Parser`, `Logging` and `LogSetup`, and their
   composition in `Prompt` and `Program`.
3. *Done:* proofs of `Conservation` and of the refinement for pure workloads,
   of `ServedByOwnThread` of `Bus`, of the invariants and the refinements of
   `Framing` and `Session`, and of the invariants of `Logging`.
4. *Done:* proofs about `LogSetup`, `Parser`, `Codec` and `Prompt`, through their
   composition in `Program`.
