# Verification of ciciel

ciciel is a C++ utility library: concurrent queues and ring buffers, a
publish/subscribe broker, signals and slots, a thread wrapper, file I/O, metrics
and a terminal UI. This directory models its concurrent core, its files and its
sequential parts in TLA+, checks the models with TLC and proves, for every value
of the constants, what TLAPS can prove of them. Paths below are relative to `src/src/`.

`PROJECT.json` maps every definition to the lines it stands for and lists the
runs, the theorems, the findings and the hazards the properties are aimed at.

    tlc -workers 2 -config cq_any.cfg MCConcurrentQueue.tla
    tlc -workers 2 -config library.cfg MCLibrary.tla
    tlapm ConcurrentQueueProofs.tla
    tlapm LibraryProofs.tla

## Inventory

### Concurrent components

| component | state | operations | interacts with | what is hard | what makes it correct |
|---|---|---|---|---|---|
| `ConcurrentQueue` (`data_structures/queue/concurrent_queue.hpp`) | `std::queue`, mutex, two condition variables, atomic size, capacity and unlimited flag | push, tryPush, pop, tryPop, peek, capacity | used by `AsyncSubscriber` | notify_one after the unlock, atomics beside the mutex, lock-free capacity() | FIFO, counter = length, never above capacity, no lost wakeup |
| `ConcurrentRingBuffer` (`data_structures/buffers/concurrent_ring_buffer.hpp`) | slots, two indices, atomic size, mutex, one condition variable | put, popFront/Back, tryPopFront/Back, at, tryAt, tryFront/Back | used by the circular queue and `EventHandler` | tests and references used outside the mutex, unsigned wrap-around | indices, counter and slots agree; an overwriting deque |
| `ConcurrentCircQueue` (`data_structures/queue/concurrent_circular_queue.hpp`) | a ring, a loss policy, its own mutex and condition variable | push, tryPush, pop, tryPop, peek | composed of the ring's calls | check-then-act on the ring, notification without the mutex | FIFO, lossy only under OVERWRITE_OLDEST; try calls do not sleep |
| PubSub (`patterns/pub_sub/`) | per event type a list of weak pointers, a mutex; per subscriber a queue and a thread | subscribe, unsubscribe, publish, notify, start, cancel, join | publishers call the broker, the broker calls subscribers under its mutex | weak pointers that expire between two statements, erase while iterating, destructors that join | one order of events for all, nothing promised is lost, calls return |
| `Thread` (`concurrent/thread.cpp`) | `std::thread`, policy, daemon flag, two atomics | start, cancel, stop, join, detach | base of `AsyncSubscriber`, `EventHandler`, loggers | start/cancel races, destruction | the thread is joined or detached exactly once |
| `EventHandler` (`cli/ui/events/event.cpp`) | epoll and event descriptors, ring of 100 events | run, getEvent, sendInterrupt, tearDown | a `Thread`; the application pops its ring | start-up races with shutdown, overflow | descriptors live as long as their user |
| `UIApplication` (`cli/ui/ui_app.cpp`) | running flag, last event, focused widget | run, quit, handle key/mouse, tearDown | owns the handler, the screen, calls widgets' signals | blocking pop versus shutdown, focus over nested widgets | ends when asked; one focus |
| `Signal`, `Connection` (`patterns/signals_slot/signals_slot.hpp`) | shared map of slots, one static mutex per signal type | connect, disconnect, emit, isConnected | widgets; called back outside the lock | slots called after disconnect, lifetime tokens, unlocked reads | no slot of an expired owner is called |
| Metrics (`metrics/`) | per-thread stack of weak pointers to collectors | create, collect, publish on destruction | publishers of PubSub | expired references on the stack decide who is whose parent; readings replaced by differences | an event has the figures of its own call and the name of its caller |

### Sequential components

| component | state and operations | what makes it correct |
|---|---|---|
| `RingBuffer`, `CircularQueue`, `Queue`, `LinkedList` (`data_structures/`) | slots or nodes; put, pop, at, push, capacity | they answer as the sequence they stand for |
| `ByteBuffer` (`data_structures/buffers/byte_buffer.cpp`) | position, size, capacity, ownership; put, get, setBuffer, clear, copy, move, enlarge | values read back as put, in both byte orders; each memory deleted once |
| `FileIO`, `BufferedFileIO`, `MappedFileIO` (`io/file/`) | descriptor, read and write index, buffer or map; read, write, seek, flush, remap | the file holds what was written, in order, also after short writes and growth |
| `StreamHandler`, `StreamIO` (`io/base/`) | one descriptor | closed once |
| Widgets, panels, containers, controls (`cli/ui/elements/`) | a tree, sizes, content; addChild, pack, layout, editing, selection | repacking reaches the root, sizes fit, cursor stays in the content |
| `Screen`, `ScreenBuffer`, `Terminal` (`cli/ui/screen/`) | cells and the ones set since the last flush, terminal mode; draw, flush, reset | the terminal shows the buffer |
| Grids and vectors (`data_structures/grids/`, `base/`) | row- or column-major cells; at, set, transpose, extend | index arithmetic is a bijection |
| `ArgumentParser` (`cli/argparse/`) | declared arguments, one regular expression, values; parse, clean | each argument gets what was given for it |
| Styles, strings, logging, time | formatting and one clock read | - |

## Modules

| module | models |
|---|---|
| `FifoQueue` | what a queue promises: a FIFO with a limit that may rise, whose push fails or waits when full, or drops the oldest when `lossy` |
| `ConcurrentQueue` | the queue, one action per step between two points where another thread can come: lock, test, sleep, mutate, count, unlock, notify; `capacity()` as its load, compare-exchange and store |
| `OverwritingDeque` | what the ring promises: a deque that drops its oldest element when full |
| `ConcurrentRingBuffer` | the ring, one action per critical section, cut at the reads outside the mutex |
| `ConcurrentCircQueue` | extends the ring: a queue operation reads `full()` or `empty()`, decides by its policy, enters a ring call and resumes after it |
| `PubSub` | broker, publishers and subscribers with the lifetime of every weak pointer; a subscriber's queue is the FIFO that `ConcurrentQueue` implements |
| `EventHandler` | the handler's thread, system call by system call, and the parts of `Thread` the application calls; its ring is the deque that `ConcurrentRingBuffer` implements for one popper |
| `UIApplication` | extends the handler: the application's loop, focus, quit and tear-down |
| `ByteBuffer` | the memory, capacity, position and size of a `ByteBuffer`, as a record and operators on it |
| `FileIO` | the file, the two pointers of a stream and the one offset of its descriptor; each system call may fail or write less |
| `BufferedFileIO` | extends `FileIO`: write as a loop, one round a step, and flush |
| `MappedFileIO` | extends `BufferedFileIO`, whose buffer variable it shares: remap with its failures, memory that is not mapped |
| `ByteFile` | what the writer of a file is promised: what was written is there, where it was written |
| `FileStreams` | a client of the three classes: open, close, seek, read, write, flush, and the loops that read lines, byte by byte |
| `SequentialQueues` | `RingBuffer`, `CircularQueue` over it, whose `data()` gives the ring away, and `Queue` |
| `Grid` | `AbstractGridContainer`, `Array2D`, `DynamicArray2D`: the index arithmetic of both orders, set, references, iterators, transpose, extend |
| `ByteBufferCalls` | uses `ByteBuffer`: the typed puts and gets, and the memories of buffers that are copied, moved, enlarged or laid over the caller's |
| `ThreadObject` | one `Thread`, its owner's calls, a cancel from elsewhere, its policies, daemon and destruction |
| `Signals` | a signal and its connections: emit copies the slots under the mutex and calls them after it, least id first as a `std::map` has them |
| `Metrics` | collectors of nested calls in several threads, and the broker's stacks |
| `FlowLayout` | sizes, paddings and margins of widgets, and what `FlowContainer` does to a panel's children |
| `WidgetTree` | extends the layout: the tree, the flags that ask for a repack, `Screen::draw`, the widget under the mouse; what the code does by recursion over the tree is a closed set (which widgets are reached) or an order (which is packed before which) |
| `InputBox` | the text, length, cursor and placeholder of an input box under keys and changes of focus |
| `ScreenBuffer` | the cells of a row, wide characters, flush, and what the terminal displays |
| `ArgumentParser` | declarations, the pattern of each argument, the match as the first way to cut the words into one part for each argument, and the counting of its groups |
| `LibraryParts` | the parts of the library that theorems are about, side by side: `InputBox`, `SequentialQueues`, `Signals`, `ThreadObject`, `ByteBufferCalls`, `Metrics`; their constants, variables and properties |
| `InterfaceParts` | the same of the parts of a user interface: `ArgumentParser`, `WidgetTree`, `ScreenBuffer`, `Grid`; what is assumed of their constants, for TLC to evaluate and the proofs to use |
| `MC...` | instances for TLC: threads, values and usages; `MCLibrary` extends `LibraryParts` and `InterfaceParts` |
| `...Proofs` | TLAPS proofs: `ConcurrentRingProofs` about the ring and the circular queue over it, `FileStreamsProofs` about `FileStreams`, `LibraryProofs` about `LibraryParts`, `InterfaceProofs` about `InterfaceParts` and `WidgetTreeProofs` about its frames, the others about the module of that name |

Variables carry the source's names; `pc`, `op`, `arg`, `label` and the like hold
a thread's place and locals. A definition named `...Mutant` is the definition
that follows it with a plausible fault; it is used by nothing. Each property has
one: with the fault put in, its run finds the property violated.

Abstractions that all modules share: elements, events and widgets are model
values or small records; logging and output are left out; a condition-variable
wait releases the mutex and falls asleep in one step, wakes by a notification or
by chance, and takes the mutex and tests again. Atomics are sequentially
consistent, which is what the code's default order and `fetch_add` give where
several are read together.

Unsigned arithmetic of the ring is modulo `Word`, 2^64 in the code and 8 in the
runs: any value above twice the capacity keeps a wrapped index apart from a
valid one.

## What each run checks

| run | instance | distinct states | shows |
|---|---|---|---|
| `cq_any` | 3 threads, any call, capacity() included; queues built unlimited, from a `std::queue`, or with capacity 0 or 1 | 3 190 234 | `CountAgrees`, `WithinCapacity`, no lost wakeup of poppers (`ElementsAnnounced`) nor of pushers, for the room the queue was built with (`SlotsAnnounced`), `ImplementsFifo` |
| `blocking` | a queue of 2 producers, of which one may try, and 2 blocking consumers, capacity 1 or 2; or a ring of 2 and 3 threads, both safe usages | 92 789 | the queue: sleepers with work are served when traffic stops; the ring: `RingConsistent`, no lost wakeup, `ImplementsDeque`, reads in place never see an emptied slot, poppers are served |
| `ring_try` | two threads that both try to pop | violation | `RingConsistent` fails |
| `circ_one` | 1 producer, 1 consumer, all three policies, a ring of 2 | 222 000 | `ImplementsFifo`, `TriesNeverSleep` |
| `circ_lost_wakeup` | BLOCK, capacity 1, one push against one pop | violation | `QueuePushersServed` fails |
| `ps_delivery` | 2 clients, 2 subscribers, 1 type, 2 events | 2 700 000 | `SameOrder`, `DrainedOnStop` |
| `ps_quiet` | 2 types, clients that unsubscribe and stop before they release | 358 000 | `OnlySubscribed`, `UnsubscribeCleans`, `CallsReturn` |
| `ps_unsubscribe` | one subscriber released while subscribed | violation | `UnsubscribeCleans` fails |
| `ui_app` | a panel with a button connected to quit, an input box, 3 inputs, a ring of 2 | 195 970 | `DescriptorsOutliveHandler`, `OneFocus`, `EndsWhenAsked` |
| `io_files` | 6 calls on files of up to 4 bytes, the three classes, 4 open modes, one failing or short system call | 551 634 | `ImplementsFile`, `ReadsTheFile`, `StaysInMap`, calls return |
| `metrics_parent` | two threads with three collectors | violation | `ParentIsTheCaller` fails |
| `library` | one part of the library in each behaviour, see below | 444 610 | each part against what it should hold |

The parts of `library` share no state with one another, so one instance holds
them all: a behaviour chooses one and takes its steps only. So do the queue and
the ring of `blocking`.

| property of `library` | says |
|---|---|
| `RepackReachesRoot` | a widget that waits for a repack, however deep, makes the main panel repack |
| `FramesFit` | after a repack the children of every panel follow each other inside it |
| `HitIsShown` | at most one widget answers a press, in whatever order the hash map is walked, and it is on the screen |
| `EditsTheText` | the box is a line editor: content, length and cursor are the text and its caret |
| `RingIsDeque` | indices and size denote a deque, and every call gives what the deque gives |
| `ReadsWhatWasWritten` | every row and column gives back what was last written there, through transpositions and growth |
| `FlushShowsTheBuffer` | after a flush the terminal displays what the buffer holds |
| `SlotsFollowConnections` | an emission calls what is connected, in order, once, and nothing cut off before it |
| `GetsWhatWasGiven` | a well-formed line is accepted and each argument holds its own value |
| `GivesBack` | values come back whole and in their order; each memory is deleted by one buffer |
| `EndsWell` | a join or stop leaves a thread that ended and was torn down once; and which uses end the program |
| `ReportsTheCall` | an event has the duration, CPU time and heap of its own call; the names the broker gives away link callers with their callees, and each caller with one of them |

Where the code breaks such a statement in a corner, the property excludes that
corner by name, and the next chapters list it.

### Why the bounds are enough

* Three threads are what a lost wakeup needs: a sleeper, the thread that should
  wake it, and the one that steals the element. Two producers and two consumers
  are what it takes to have both sides asleep at once, which `CallersServed`
  excludes: a queue has room or an element. Queues of up to two elements are
  full and empty within a call or two, and two calls of capacity() race to 1 and
  2; a ring of two wraps and overwrites.
* Two values tell first from last; the code never looks at an element. The
  values are symmetric in `cq_any`, which checks no liveness property; the runs
  with liveness use no symmetry.
* `library`: two trees of two panels and two labels, at a size with room and at
  one where children shrink, and `MaxChanges` 3: a change, a frame and a change
  are what a lost flag needs. Three characters and `MaxKeys` 7 fill a box, move
  in it, delete and leave it. Rings of up to three elements wrap at every
  offset; grids of 1x2, 2x2 and 2x3 are square and not, and grow to `MaxSize`
  6. `Columns` 4 hold two wide characters with and without a gap. Two threads,
  `MaxConnections` 2 and `MaxCalls` 2 let a disconnect, an expiry or a second
  emission come between any two slots. `MaxArguments` 3 and `MaxParses` 2 put an
  argument before, between and after others, and a line after another. Two byte
  buffers and 4 calls are a put, a copy or move, an enlargement and a get. Four
  collectors in a thread are a caller with two callees, one of which calls,
  beside a thread with one or two. The thread object needs no bound.
* `MaxLen` bounds only an unlimited queue, `MaxEvents`, `MaxTokens`,
  `MaxCancels` and `MaxTyped` bound what clients and user do. Two events and two
  subscribers are what different orders need; two weak pointers in one list are
  what erasing the wrong one needs; three inputs fill the ring of two and press,
  drag and release a button.
* `MaxCalls`, `MaxSize` and `MaxFaults` bound what a client does with a file.
  Six calls open, buffer, write, flush or seek, close, and read again; three
  bytes are more than a buffer of one or two holds, and four bytes are a map of
  two grown once. One failure in any place is enough to lose or misplace bytes.
  `Word` is 16 there, above every sum of positions.
* `CHECK_DEADLOCK FALSE` is set only where the system may stop: clients that
  have published all their events or made all their calls, a user who types
  nothing more, a process that crashed, a program that has used up its bounds.

### Usages

The ring is safe for one popper that may try, or for any number that block
(`SafeUsage`); `blocking` takes both, and `ring_try` shows that the restriction
is needed. `PubSub` has three disciplines for its clients: `OnceEach` (subscribe
what is not subscribed, unsubscribe what is), `QuietRelease` (release a
subscriber only while it is not in the broker), `StopFirst` (stop it before).
`ps_delivery` drops `QuietRelease`. A client calls `join` on a subscriber it has
cancelled; `UIApplication::run` is called once.

A client of the files opens them for reading, gives a buffer a capacity before
it writes, flushes it before it moves the write pointer of a stream that does
not append, writes only where `tellp()` is not -1, keeps the pointers of a map
nonnegative, and does not use a stream it has closed. Each is needed: without
it the code loops for ever, misplaces bytes or leaves its map.

### Fairness

Each thread in a call is scheduled: weak fairness of its steps, as the operating
system gives. No fairness is assumed of a new call, a chance wakeup, a
publication, a key press. `std::mutex` is unfair, so endless traffic can starve
a thread; the liveness properties of queues and rings therefore assume that
traffic stops (`TrafficStops`), which is when a lost wakeup is for ever. In
`PubSub` the number of calls is bounded. In `UIApplication` the application and
the handler are two threads, each with weak fairness; that a given system call
succeeds is never assumed, nor that a sleeping one ever fails or is interrupted.
In `FileStreams` the one thread goes on while it is in a call; the system calls
that fail are finitely many.

## What is proved

A theorem holds for every value of the constants that the modules' ASSUMEs and
its own hypotheses allow: any threads and calls, capacities, values, files,
widgets. The run that names a theorem's property meets its hypotheses. Each
proof has the same shape: the initial states satisfy an invariant, every step
keeps it (a lemma per action where the proof is long), and it implies the
property; the second part of this chapter says what each invariant adds to
the property, since no property is proved from itself alone.

| module | theorems | under |
|---|---|---|
| `ConcurrentQueueProofs` | `TypeCorrect`, `CountCorrect`, `CapacityCorrect`, `WakeupCorrect`, `SlotsCorrect`, `FifoImplemented` | - |
| `ConcurrentRingProofs` | `RingTypeCorrect` | - |
| | `RingCorrect`, `RingWakeupCorrect`, `DequeImplemented` | `SafeProgram` |
| | `ReadsCorrect` | `SafeProgram`, `SafeReads` of every usage |
| | `CircTypeCorrect`, `CircRingCorrect` | - |
| | `CircFifoImplemented` | `KeepsRoom` |
| | `TriesCorrect` | `PushesFromOne`, `PopsFromOne` |
| `PubSubProofs` | `TypeCorrect`, `OrderCorrect`, `DrainCorrect` | - |
| | `UnsubscribeCorrect`, `OnlySubscribedCorrect` | `OnceEach`, `QuietRelease` |
| `UIApplicationProofs` | `UiTypeCorrect`, `DescriptorsCorrect`, `FocusCorrect` | - |
| `FileStreamsProofs` | `TypeCorrect`, `MapCorrect` | - |
| | `ReadsCorrect` | `SizesFit` |
| | `FileImplemented` | `CapacitiesBounded` |
| `LibraryProofs` | `ThreadEndsWell`, `SlotsCorrect`, `EventsCorrect` | - |
| | `RingCorrect` | `Capacities \subseteq Nat \ {0}` |
| | `EditsCorrect` | `BoxAsBuilt` |
| | `ValuesCorrect` | `PutsBytes` |
| `InterfaceProofs` | `GetsWhatWasGivenHolds`, `OneReading`, `RepackReachesRootHolds`, `FlushShowsTheBufferHolds`, `ReadsWhatWasWrittenHolds` | - |
| `WidgetTreeProofs` | `FramesFitHolds`, `HitIsShownHolds` | - |

The hypotheses, and why the code justifies them:

* `SafeProgram`, `SafeReads`: one popper that may try or any that block; a thread
  that reads in place is the only popper. `ring_try` shows the first is needed.
* `KeepsRoom`: one thread pushes, or the only policy is OVERWRITE_OLDEST.
  `PushesFromOne` and `PopsFromOne`: one producer, one consumer. The queue tests
  `full()` and `empty()` without a lock that it keeps: two producers both pass.
* `OnceEach`, `QuietRelease`: as under Usages; `ps_unsubscribe` drops them.
* A `CircularQueue` of capacity zero divides by zero in its first put.
* `BoxAsBuilt`: the maximum length exceeds the placeholder's, as the widget's
  factories set it, and no key enters `'\0'`.
* `PutsBytes`: a value put has at least one byte and a capacity asked for is not
  zero.
* `SizesFit`: files, with the bound that the model puts on them, are smaller than
  2^64. `CapacitiesBounded`: one of the capacities a client asks for is the
  largest, as a `size_t` has it.

`InterfaceProofs` and `WidgetTreeProofs` use five assumptions of
`InterfaceParts`, which TLC evaluates in `library`:

* `UnsetIsNoWord`: the mark of an argument without a value is not a word.
* `BuildsTrees`: the widgets form a tree before the first change: a widget is
  once the child of one panel, as `addChild` keeps it, the main panel of none,
  and every way down ends. Their sizes fit in the 16 bits of a `winsize`.
* `SetsCounts`: axes, alignments and sides are those of the enumerations; margins,
  paddings and contents are natural numbers and a press has integer coordinates.
* `WritesCharacters`: strings consist of characters of one or two columns or of
  none, and the mark behind a wide one is not a character.
* `GrowsByCounts`: dimensions are natural numbers.

### The invariants

* **ConcurrentQueue.** `IInv` is the types with `OwnerInv` (who holds the mutex is
  in its critical section), `CallInv` (what a thread does fits its operation),
  `SizeInv` (the counter lags the queue by the owner's uncounted step) and
  `TakeInv` (a popper past its test has an element). `CountAgrees` alone says
  nothing while the mutex is held. `BoundInv`: a pusher past its test has room,
  also after a concurrent capacity(), which only raises, and the capacity the
  queue was built with (`built`, a variable the code does not have) is no more
  than the present one. The wakeup theorems
  count, with the finite-set theorems, how each step moves the two sides of
  `ElementsAnnounced` and `SlotsAnnounced`; a pusher falls asleep only with all
  the slots of `built` taken. The room that capacity() makes is announced to
  nobody: a push asleep at the old capacity stays asleep, which is why
  `SlotsAnnounced` counts the slots of `built` and `CallersServed` is checked
  without capacity(). In the refinement a call takes effect
  at its test, under the mutex, one step before the queue changes: `DecisionInv`
  says what the queue will be then.
* **ConcurrentRingBuffer.** `RunInv` restates consistency without the modulus:
  the slots that hold an element are a run that may wrap. `TakeInv`: what a
  tryPop saw is there when it takes it, its thread being the only popper.
  `Accounting` is the balance of elements and announcements; `ItemsInv` reads the
  run as the sequence of the deque; `ReadInv` keeps a position that passed its
  bound check inside the run until it is read.
* **ConcurrentCircQueue.** `CircIInv` takes the ring's invariant for a program
  that makes the queue's ring calls, `RingCalls`, and adds `LinkInv`: where a
  thread stands in the queue says where it is in the ring. `RoomInv`: room seen
  without a lock stays, as only pops go on meanwhile; `TryPopInv`: so does an
  element that tryPop saw.
* **PubSub.** `TypeInv` says of a call in progress that it owns the mutex and
  holds an event and an iterator that fits the list, from which one thread at most
  is inside. `OrderInv` adds that events are numbered by publication
  (`NumberInv`), that one not yet appended occurs nowhere (`FreshInv`), and that
  behind the event being delivered a queue has nothing but the null event
  (`SuffixInv`): two events cannot overtake each other. `DrainInv`: who is
  subscribed and alive is in the list (`SubInv`), a promised subscriber has the
  event or stands ahead of the iterator, whatever expired pointers are erased on
  the way (`PromiseInv`), and what is due was delivered (`DueInv`). `QuietInv`:
  under the two disciplines a list has each subscriber once, alive, so that the
  caller's pointer is the one that unsubscribe finds gone, and the ranks of the
  others (`RankIsBijection`) give the list without it, in order.
* **UIApplication.** Before run() there is no thread of the handler and after it
  the thread is joined (`LifeInv`); until then the descriptors it opened stay.
* **Files.** `Inv` keeps a buffer's size within its capacity and a map the
  beginning of its file, unless a system call failed. `Bounded` keeps files
  within the model's bound, for which bytes that are held but not written count.
  `LineInv` says of each loop over a file, between any two rounds, what it has
  collected of the bytes before the pointer. `HoldInv` says where the bytes that
  a stream holds will go: with it flushing, growing and moving a map are stutters
  of `ByteFile`.
* **The library.** `ThreadIInv`: who owns the handle and how run ended.
  `SignalIInv`: what was connected when an emission began was called by it, is
  still in its copy, above all that was called, or was cut off meanwhile. `QueueIInv`: the ring is a run that wraps,
  and the last answer is the deque's. `BoxIInv`: while the box shows its text,
  `m_content` is the text padded with `'\0'`. `BytesIInv`: each live memory has
  one owner (`HeapInv`), and the fields a buffer keeps lie apart in its memory
  with their bytes in their order (`KeepInv`). `MetricIInv`: the stack of a thread
  rises and has every collector that is alive, and one that has called nothing is
  on its top (`StackInv`). So what a new collector names is its caller or nobody,
  and nobody only when the caller was named before (`ParentInv`).
* **The user interface.** `ParserInv` keeps the names of the declarations apart,
  the arguments' values typed, and a parser without a line at what was given to
  it. The line for some values is cut into their words in one way at least; that
  this is the cut that is taken is `OneReading`: two cuts of one line never part,
  because a required argument takes one word in each, and where one takes an
  option and the other does not, the latter would have its flag in the place of
  another option's, or run short of words. `TreeInv`: the two records of the tree
  agree, before the first frame every panel waits, and then what waits below a
  panel is known at it (`Knows`); `PackOne` going downwards clears a panel's flag
  together with those of its children. `ScreenInv`: where a tidy cell was not set
  since the last flush, the terminal shows it already (`Shows`); the loop of flush
  extends that by a cell a round, two over a wide character. `GridInv`: the array
  has rows times columns places, and the place of a row and a column gives back
  what was written there.
* **The frames of a tree.** `FrameInv`: while the tree is one that was built
  before its first frame (`IsTree`), its objects keep their types, 16-bit sizes
  included, and after a fresh frame that is not odd every panel fits (`PanelFits`).
  `LayoutIs` proves it of one panel, loop by loop: a child gets no
  more than its share and gives up no less, so that together they change by no
  more than the space there is (`AllowedSpace`), no size passes 16 bits on the way
  (`StepsFit`), and each is placed where the one before it
  ends (`PlacesInARow`). A frame packs the panels of the tree from the top
  (`DownwardsTopDown`), and each pack prepacks what is below it from the leaves
  (`UpwardsBelow`); packing a panel leaves alone how a panel that is not below it
  was laid out (`PackKeeps`), which is where a sub-panel that grew after it was
  placed would break the argument, and why such a frame is odd. For a press: the
  extents of the children of a panel in a row are apart (`RowApart`), so that one
  child at most has the point, and with it, up the tree, one answer at most
  (`AnswerShown`).

The user interface computes with folds, recursive functions and concatenations over
sequences of any length. The induction theorems of the library take a predicate
and cannot be used here; `InterfaceProofs` derives induction over sets of numbers
from `<` being well-founded (`Induction`) and from it what a fold leaves
(`FoldExists`) and where the parts of a concatenation lie (`FlattenSpans`).

### Only model-checked

* Liveness: `CallersServed`, `PoppersServed`, `QueuePushersServed`, `CallsReturn`
  and `EndsWhenAsked` rest on fairness and ENABLED, which the prover does not
  handle.
* The violations: each is one behaviour that TLC found.

No run names a type invariant: those of the queue, the ring, the circular queue,
`PubSub`, `UIApplication` and `FileStreams` are proved, those of the parts of the
library are conjuncts of their invariants above, and that of `WidgetTree` holds
in `library` when it is added to the cfg.

## What the code does not do

Findings, each shown by a run:

* `ring_try`: tryPopFront and tryPopBack test `empty()` before the mutex. Two
  that saw the last element both take it; `m_size` wraps.
* `circ_lost_wakeup`: pop notifies `m_full_cv` without the queue's mutex, between
  a push's test and its sleep. The push sleeps on beside a free slot.
* `ps_unsubscribe`: unsubscribe erases one element where `remove_if` moved
  several: of the expired pointers and the caller's all but one can stay.
* `metrics_parent`: the broker sets the parent of the caller to the name of the
  callee, where the comments speak of the parent function of the callee.

Met while modelling, without a run of their own (see the hazards):

* `ConcurrentQueue::capacity(value)` raises the capacity without notifying
  `m_notFull`: a push asleep stays asleep.
* A tryFront beside another popper can read a slot emptied since.
* Under BLOCK and ERROR two producers of a `ConcurrentCircQueue` can pass the
  same test and overwrite an element; a tryPush or tryPop beside another
  producer or consumer can sleep.
* The broker and its subscribers can expire between `expired()` and `lock()`,
  whose null result is dereferenced; unsubscribing what is not subscribed erases
  the end iterator; an `AsyncSubscriber` destroyed without stop destroys its
  queue under its thread, and joins a thread that need not end.
* The handler can end by itself after the application tested `isCancelled()`:
  the application then waits in `getEvent` for ever. An interrupt sent before
  the handler created its descriptor is lost.
* Inputs that arrive together are read as one sequence, which `Event::from` does
  not recognise: a control-C among them is dropped. A click inside a panel that
  has the focus stays with the panel, whichever child is under the mouse. An
  invisible widget ignores `setFocus(false)`.
* The descriptor has one offset for both pointers: `seekp(0, iop::Cur)` after a
  read moves the write pointer to where the read ended, and a seek before the
  start leaves a pointer of -1, from which the next write goes wherever the
  descriptor is.
* Growing the map of a file that is open for reading only fails after it was
  unmapped, and the next read crashes: a seek to the end is enough. A stream
  opened for appending doubles its file when it is constructed, and the zeros
  stay when it is closed.
* A flush that writes less loses the rest of the buffer; bytes not flushed before
  the end of a `BufferedFileIO` are lost, and its reads do not see them before.
  Without a capacity its write never ends. The loops over `readLine` do not end
  while it returns -1.
* `ByteBuffer::put` over an old byte raises the size all the same, beyond the
  capacity if the buffer is full; reading a stream into a `ByteBuffer` leaves its
  size as it was.

Met in the parts of `library`, and excluded by name from its properties:

* Widgets: `removeChildById` always returns 0 (`container.cpp:34`; its comment
  says 1), so a panel does not repack after a removal, and the child still
  answers the mouse. A child added after the first frame, with its flag already
  up, hides later changes below it; `setPadding` of Top or Bottom asks no parent.
  A press can be answered by a panel where `panel_base.hpp:69` promises a leaf.
* Layout counts no margin before a child that it cuts and the one after it
  twice: the child overlaps the border, which the comment at
  `flow_container.cpp:121` excludes. A sub-panel that grows in its own pack was
  placed with its old size, and a child that is to give up more than it has gets
  a size below zero, which wraps to 65535 at most. `FramesFit` excuses the first;
  `odd` notes frames with one of the others, and with a size that has wrapped.
* Input box: a Delete at the end of the text counts the length down; a repack
  moves the cursor; a full box cannot overwrite.
* Grids: const reads, `set` and `flatten` of a transposed grid use the stride of
  the other order; extending one scrambles it; `deepTranspose` of a transposed
  array copies its view.
* `Queue` is never limited by its constructor's maximum, and its capacity grows
  with each push; `CircularQueue::setLossPolicy` throws except for BLOCK; one
  built from a moved ring has no policy, and with capacity 0 divides by zero.
* Screen: a narrow character over the second half of a wide one that stays
  leaves the terminal different from the buffer.
* Signals: a slot copied by emit runs after its disconnect has returned.
* Arguments: a required BOOLEAN matches the empty line only; of two arguments of
  one name the first answers; options come in the order of declaration.
* Byte buffers: the ownership is not copied or moved with the memory, so a
  buffer over the caller's memory that is moved is deleted by its new owner; a
  failed `putBuffer` has moved the position.
* Threads: a daemon cancelled before start detaches it is destroyed joinable,
  which terminates the program. The derived object is gone when `~Thread`
  cancels and joins: its tearDown is not called and its run can start on a
  destroyed object. A cancel beside a join or detach uses a null handle.
* Metrics: the broker pops one expired reference, so a caller is linked with no
  further function after a callee that called another one, and references stay
  on the stack. A second collect subtracts a difference from a reading.

## Not modelled

* Copy and move of a `ConcurrentQueue` in use; conversions from `RingBuffer` to
  the concurrent ring.
* `Publisher::setBroker` at run time; synchronous subscribers that call the
  broker back.
* The end of the terminal's input, after which reads fail for ever and a handler
  that is not cancelled repeats its round trip; the bytes of an escape sequence; widgets that
  move, hide or are added while `UIApplication` runs (`WidgetTree` moves them
  between frames); `quit` called by another thread than the application's.
* Private mappings, moved and copied streams, `msync`, writes of no bytes.
* `LinkedList`: its template cannot be instantiated and nothing uses it. The
  vectors: one element-wise operation each.
* The selection of a list, multi-line contents, the colours of a button, drawing.
* The use of the stack and the loggers of the metrics; help texts; numbers of the
  command line that are out of range.
* A slot that emits its own signal; `Connection`s that outlive the signal; moved
  threads.
* Pure I/O and formatting: `StreamIO` beyond close and strings, `Terminal`,
  styles, strings, logging, time.

## Plan

Done: the queues, the ring, publish/subscribe, the event loop, the files, in
that order, which is the order in which faults are hardest to reach by a test
and the order in which one component rests on another; then the parts that keep
their state to themselves, in `library`.

Left to model: the selection of a list; copies and moves of `ConcurrentQueue`;
the conversions of the rings; synchronous subscribers; `Signals` and
`WidgetTree` composed with `UIApplication`.

Left to prove: what is modelled next. Every property of a passing run has its
theorem, liveness excepted.
