# A verification project for the car park system

The repository holds the programs of a simulated car park: a **simulator**
(`src/src/car_park_simulator.c`) that generates cars and plays the hardware, a
**manager** (`src/src/car_park_manager.c`) that decides who may enter and bills
who leaves, and a **fire alarm** (`src/src/firealarm.c`, not built by the
makefile). They share memory and nothing else. The TLA+ modules here model all
three, TLC checks them on small instances, and TLAPS proves their safety
properties and refinements for every instance.

## 1. The system

| component | state | operations | talks to |
|---|---|---|---|
| thread pool (`thread_pool.c`) | request list and count, `request_mutex`, `got_request`, `quit` | init, add request, handler loop, close | entrance threads submit; handlers run `car_simulation_loop` |
| car simulation (`car_park_simulator.c`) | entrance queues with a semaphore and mutex each, `car_list`, counters of started and finished cars, `quit`, `quit_sem` | generator, one manager thread per entrance, one run of a handler per car, `main` | pool, list, devices, handshake |
| entrance lane (`car_park_simulator.c`, `manage_hardware.h`, `entrance_monitor`) | in shared memory per entrance: plate sensor, sign, boom gate, each a mutex, a condition variable and a field | trigger, read, update, admit, open, close | a car on one side, the monitor on the other |
| handshake (`shm_data_init/close`, `shared_memory.c`, both `main`s) | two named shared objects, four semaphores | create, attach, initialise, post, wait, destroy | simulator and manager; crashes and restarts |
| linked list (`linked_list.c`) | head, tail, nodes | append, push, pop, delete node, delete dangling node, find, close | entrance queues, `car_list`, the pool's requests |
| hash table (`htab.c`) | chains of items | add, find, delete, destroy | the authorised plates of both programs |
| occupancy and billing (`car_park_manager.c`) | `vehicle_counter_total`, `vehicle_counter_floor`, `vehicle_tracker`, `start_time`, `revenue` | entrance, exit and level monitors | no lock between them |
| fire alarm (`firealarm.c`) | temperature windows, `alarm_active` | a monitor per level, gate opener, evacuation sign | devices in shared memory |
| display, random numbers, delays, plates file, timing stub | - | - | - |

What is hard here: condition variables used without a predicate (every device,
and the entrance threads), flags set and tested under different locks or none,
ownership of a car that passes from thread to thread, semaphores that stand for
the contents of a queue, a shutdown that joins threads which wait for each
other, mutexes of an unknown kind, and shared memory that outlives the program
that made it.

What makes each part correct:

* pool: each request is run once, in order of submission, none is stranded
  while handlers sleep, and close returns;
* car simulation: no car is lost or duplicated, one car at a time and in order
  at an entrance, the generator ends the simulation after the cars, and `main`
  can join everything;
* entrance lane: a car acts on the answer given for its own plate, the gate is
  worked for the car that was admitted, the gate's mutex is released;
* handshake: neither side uses what is not initialised or belongs to another
  run, and neither keeps the other waiting;
* list and table: the pointer structure always represents a sequence, and a map
  from keys to values;
* occupancy: counters agree with the cars in the park, capacity is not exceeded,
  a bill is for the visit that ends;
* fire alarm: it sounds exactly on the evidence of the samples, and does not
  disturb what the other programs read.

## 2. Modules

| module | models | how it corresponds to the code |
|---|---|---|
| `WorkQueue` | what the pool promises | submit, start (in order), finish |
| `ThreadPool` | `thread_pool.c` | `pc[h]` is the place of a handler in `handle_requests_loop`, `pc[a]` of a client in `thread_pool_add_request`, `closer` of `thread_pool_close`; one action per locked section or test |
| `EntranceQueues` | generator, entrance threads, cars and `main` of the simulator | instantiates `ThreadPool` as `Pool`: the entrance threads are its clients, cars are its requests, and a car's steps happen while its handler is at `run`. The answer of the manager (lines 594-607) is the one step `Verdict` |
| `Entrance` | one entrance: cars against `entrance_monitor` and `manage_hardware.h` | refines the step `Verdict` informally: the sensor, the sign and the gate with their mutexes and waits. `mutex_kind` is chosen in `Init`, because the attribute object the mutexes are made from is never initialised |
| `Handshake` | the two shared objects and four semaphores, several runs of the simulator, one of the manager | an object is an instance that a name may or may not refer to, made by `shm_unlink`, `shm_open` and `ftruncate` one after another, and a manager that gets in between finds no object or one of length zero (`Fault`); `Crash` ends the simulator anywhere; a thread blocked in `sem_wait` when `sem_init` is called on that semaphore is *forgotten*: it may or may not go on; the shutdown of the simulator's threads (lines 751-761) is one step, `CloseThreads`, that may never come; `destroy_shared_object` frees the name before it unlinks it, so the unlink may or may not work |
| `NodeList`, `LinkedList` | `linked_list.c` | pointer fields as functions on nodes, one step per call, since every list is used under a mutex; `usage` says whether the list is a queue or the registry `car_list` |
| `KeyValues`, `HashTable` | `htab.c` | a bucket is the sequence of its items, so that the two branches that unlink an item (`htab.c:101-108`) are one removal; the hash is any function |
| `Occupancy` | the monitors of the manager with their counters, trackers and arrival times, against the cars that trigger the sensors | `en`, `ex`, `lv` are the local variables of `entrance_monitor`, `exit_monitor` and `lp_monitor` (one per entrance, exit, level), `pc` their place; the meeting of car and entrance monitor, which is `Entrance`, is the one step `Read`; `++` and `--` of the total are a load and a store; `signals` and `moves` are a history of each level's sensor and count |
| `FireAlarm` | `firealarm.c` | one round of `tempmonitor` is one step on two sequences, newest first; a gate's state is the byte the alarm reads, a number of the enumeration for the other programs and compared with characters here |
| `ThreadPoolProofs`, `EntranceQueuesProofs`, `EntranceProofs`, `HandshakeProofs`, `OccupancyProofs`, `LinkedListProofs`, `HashTableProofs`, `FireAlarmProofs` | - | the theorems about the module each is named after |
| `MC...` | - | instances for TLC; `MCParts` puts the list, the table, the fire alarm, the entrance lane and the handshake side by side |

A definition marked *Mutant* in a module is a plausible slip in place of the
definition after it. Each checked property is violated when its mutant takes
that place, which is how we know that the property depends on the code.

Grain of atomicity. A section of a mutex without a wait in it is one step; a
section with a wait (`request_mutex` in the handler, `occupy_mutex`,
`bgate_mutex`) has an owner variable and is split. A signal given after the
unlock is a step of its own. Plain flags (`quit`) are read and written in one
step at the place where the code does; each of these accesses is next to a
library call, so the compiler cannot keep the flag in a register across the
loop. In `Occupancy`, where four kinds of data are shared without any lock, a
step has one access to them, and an increment of the total has two.
`pthread_cond_wait` may return without a signal: always in `ThreadPool`
and `Entrance`, in `EntranceQueues` when the constant `Spurious` is true, and in
`Occupancy` once at a sensor and always at a gate (whose wait nothing else ends).

## 3. Runs

| run | instance | shows |
|---|---|---|
| `pool` | 2 handlers, 2 clients, 3 requests | `NoStrandedRequest`, `ExactlyOnce`, refinement of `WorkQueue`, and under fairness `RequestsServed` |
| `pool_close` (violated) | same, 2 requests | `CloseTerminates`: the broadcast at close may be missed |
| `queues` | 2 entrances, 2 handlers, 3 cars, spurious wake-ups | `PopFindsCar`, `CarsConserved`; `GeneratorNotStranded`: the generator has a post to wake on once enough cars have ended |
| `queues_live` | 1 entrance, 2 handlers, 3 cars, no spurious wake-ups | `ManagerWaitsForCar`, `NoCarUsesDeadStack`, `PassInOrder`, and under fairness `SimulationEnds` |
| `queues_release` (violated) | 1 entrance, 1 handler, 2 cars | `ManagersReleased`: `main` joins an entrance thread that no post of `full` can release |
| `queues_early` (violated) | 1 entrance, 1 handler, 2 cars | `QuitAfterAllCars`: `quit` comes while a car is still in its queue |
| `entrance_admit` (violated) | 1 car | `AdmitReturns`: the wait for the gate never ends |
| `handshake_ready` (violated) | 1 run of the simulator | `ReadyMeansReady`: a semaphore that starts at one lets the manager in early |
| `occupancy` | 3 cars, 2 entrances, 1 exit, 2 levels of one place, 2 plates of which one is outside the arrays | `CountCoversCars`: until an update is lost, the total is at least the number of cars inside, although plates and signals may be mixed up; `FullMeansFull`: the park is overfilled only by entrances that saw the same place at once; `BillsThisVisit`: no bill from an old arrival; `MovesAreSignalled`: a level's count has moved at most as often as its sensor was signalled |
| `occupancy_floors` (violated) | 1 car | `FloorsEmptyAtEnd`: a floor counts cars that have left |
| `parts` | list: 3 nodes, both usages; table: 3 keys, 2 values, 2 buckets, 4 items; alarm: 1 level, 2 gates, windows of 3 and 10, three temperatures; entrance: 3 cars, 2 authorised, 3 kinds of mutex; handshake: 3 runs of the simulator | `WellLinked`, `SafeToDelete`, refinement of `NodeList`; `KeysApart`, refinement of `KeyValues`; `AlarmOnEvidence` against a median defined by rank, `GlitchIsNewest`; `SignAnswersOwnCar`, `MonitorServesOccupant`, `GateWakesAdmittedCar` until a spurious wake-up, `GateReleased` always; `FreshObjects`, `ReadyIsInitialised`, `LeftBehindOnlyEarly`, `ClosingPasses` |
| `alarm_gates` (violated) | 1 hot level, 1 gate | `AlarmOpensGates`: the alarm leaves every gate closed |

**Bounds.** The numbers of threads, cars, nodes, keys and runs are the only
bounds, and each is a CONSTANT. Two handlers and two clients make every race in
the pool possible (a handler against a handler, a client, the closer); a third
request lets the list hold more than the handlers take. Two entrances are what
it takes for cars of different lanes to compete for the pool, and three cars
for one of them to wait in each of queue, pool and handler. Three nodes give
`llist_pop` and `llist_delete_node` their cases of one, two, and more items, and
nodes to use again. Three keys in two buckets must collide. Three runs
allow a manager to be attached to a run before the last one. `MaxItems`
(`HashTable`) and `MaxRuns` (`Handshake`) exist for TLC only.

`queues_live` has all three cars at one entrance. Quit needs two of them to have
ended, so the second car must be submitted, for which the entrance thread must
have been told that the first has left, while the third is behind it: a lost
signal of `entrance_leave` stops this simulation, and the mutant of
`SimulationEnds` loses one. With a second entrance the temporal check takes
longer than five minutes; what two entrances share, the pool and the generator's
semaphore, is in `queues` with two.

In `occupancy` three cars are needed to fill a park of two places past the top,
two levels because a tracker of level 0 says nothing, and two plates because one
is shared and one is the value that no array has (in the code: 100, of 100
plates). A level is signalled once by each car that drives to it, which bounds
the two histories. Spurious wake-ups of sensors are bounded by one, named in
`SpuriousWakeup`. `Scope` in `MCOccupancy` bounds the combinations: all three
cars may use both entrances until somebody has driven in; after that there is a
third car, a second entrance, or a spurious wake-up, one at a time. In the code
the constants (20 cars to simulate, 20 places a floor) never fill a floor, so
every car is sent to level 0; the model does not rely on that.

In `parts` the windows of 3 and 10 stand for 5 and 30: the median of three still
hides one sample, and ten is the smallest window in which 90% is not all. 42, 50
and 58 degrees are a cold glitch, a base and a hot one, 8 degrees apart, which is
the rise that counts. `Scope` in `MCParts` lets the temperature change three
times within the windows, enough for a rise, a glitch, or a glitch and a rise.
Levels share nothing but the flag that is never taken back, so one is enough.
`alarm_gates` needs one temperature and one gate. The five parts share no
variable, so that a state of one says nothing about another: `part` names the
one that runs.

**Deadlock** is not checked: every model may stop. The pool stops after a close,
a simulation at its end, list and table once closed, a lane when its monitor
waits for ever (which is the subject of `entrance_admit`), a park when its cars
are gone, the two programs when both have ended or the manager is forgotten.

**Fairness** is weak fairness of each thread that can take a step, which any
scheduler gives. Nobody is assumed to submit, to arrive, to close, to crash, to
restart or to wake spuriously. In `ThreadPool` a request's function returns; in
`EntranceQueues` that is not assumed, and `SimulationEnds` has the premise that
every car gets an answer. `CloseTerminates` has the premise that every handler
was in its loop before `quit` was set. Weak fairness is not enough for liveness
once a thread can take and release a mutex without end because of spurious
wake-ups, and pthread mutexes promise nothing stronger, so `queues_live` leaves
those wake-ups out. `Handshake` assumes no fairness: a program that does not
wait for the other is a safety property there (`ClosingPasses`,
`LeftBehindOnlyEarly` say that the semaphore is above zero), and that either
program comes to its end is not true, since the joins of the simulator may never
return (`pool_close`, `queues_release`) and the manager's wait for one more
trigger of each sensor.

## 4. What the disagreements are

Seven runs end in a violation; the trace of each is short.

* `pool_close`: a handler in its loop finds no request, `thread_pool_close` sets
  `quit` and broadcasts, and the handler goes to sleep (`thread_pool.c:31`,
  `:141`, `:166`). In a first pass it has not tested `quit` yet, in a later one
  it has read it as false at `:172`; a handler that starts after the broadcast
  sleeps as well, which the property leaves out.
* `queues_release`: an entrance thread past its test of `quit` submits a car to a
  pool that has closed and waits for that car to leave (`:486`, `:755`).
* `queues_early`: the loop that is to "wait for all cars to finish simulating"
  is content with all but one (`car_park_simulator.c:670`, `:674`).
* `entrance_admit`: `boom_gate_open` waits for a gate that no thread opens
  (`manage_hardware.h:78`; `boom_gate_loop` is not started). The property speaks
  of mutexes that their owner may lock again, or whose second lock fails. A
  normal mutex, which the uninitialised attribute object may as well yield,
  already stops the monitor at its second lock (`:69`), before it raises the gate.
* `handshake_ready`: `SEM_SHARED`, which is 1, is passed as the initial value of
  the four semaphores that should start in a waiting state
  (`car_park_simulator.c:46`, `:149`). By the same value `wait_sim_close` returns
  at once, so that the manager shuts down as soon as it is up, and the simulator
  passes its wait for the manager, which is why `ClosingPasses` holds.
* `occupancy_floors`: a car that leaves triggers the sensor of its exit and of no
  level (`car_park_simulator.c:620`, `:622`), so no level ever counts it out. What
  counts a level down instead is another car with the same plate.
* `alarm_gates`: to "open up all boom gates" (`firealarm.c:175`) the alarm looks
  for the character `'C'` (`:135`) where the state is the number 0 of `C`.

Some more are within what the models show without a run of their own.

* A single noisy sample raises the fire alarm if it is the newest, since the rate
  of rise uses raw samples (`firealarm.c:120`; `GlitchIsNewest` says it does so
  only then).
* The comments at `car_park_simulator.c:327` and `:606` say that a car waits for
  the gate to open. No gate is ever `O`: a car goes on when it is woken, and the
  gate is then rising (`R`). After a spurious wake-up of the monitor, the
  broadcast that goes with the lowering (`manage_hardware.h:91`) wakes it too.
* A manager that maps "LINK" before `sem_init` and blocks on its zero-filled
  `shm_mem_ready` is forgotten by `sem_init`: the post may find no waiter
  (`car_park_manager.c:294`, `car_park_simulator.c:149`). `LeftBehindOnlyEarly`
  says that this happens to no other manager.
* A manager that attaches between `shm_open` and `ftruncate` maps an object of
  length zero and is killed by its first access (`car_park_simulator.c:63`, `:71`).
* A car that waits for the sign after the monitor has signalled it, or whose
  trigger came before the monitor's wait, waits for ever
  (`car_park_simulator.c:276`, `:342`); the code promises nothing else, and
  `SimulationEnds` has the answer as its premise.

## 5. Proofs

Every safety property and every refinement that a passing run checks is also a
theorem, for every value of the constants that satisfies the module's
assumption (an `ASSUME` that TLC evaluates in the runs): sets of threads, cars,
nodes and levels are finite, special values lie outside the sets they extend,
capacities and windows are positive, temperatures are integers. `EntranceProofs` and `HashTableProofs` do
without finiteness. `MaxRuns` and `MaxItems`, which keep TLC's instances small,
are any numbers.

| module | invariants | refinement and other steps |
|---|---|---|
| `ThreadPoolProofs` | `PoolInvariant`, `PoolTypeOK`, `PoolNeverStrands`, `PoolExactlyOnce` | `PoolImplementsWorkQueue` |
| `EntranceQueuesProofs` | `SimulatorInvariant`, `QueuesTypeOK`, `PopsFindCars`, `NoCarLost`, `GeneratorWakes`; without spurious wake-ups `ManagersWait`, `StacksOutliveCars`, `CarsPassInOrder` | `SimulatorUsesPool`, and from it `CarsDrivenOnce`, `NoCarStranded` |
| `EntranceProofs` | `EntranceInvariant`, `EntranceTypes`, `NestedLocksBalance`, `AnswersReachTheirCars`, `MonitorInStep`, `GateSignalReachesAdmitted` | |
| `HandshakeProofs` | `HandshakeInvariant`, `HandshakeTypes`, `RunsHaveFreshObjects`, `ManagerPassesInitialised`, `LateManagersPass`, `ClosingNeverWaits` | |
| `OccupancyProofs` | `OccupancyInvariant`, `OccupancyTypeOK`, `BillsAreForThisVisit`, `TotalCoversCars`, `FullParkTurnsAway`, `MovesNeedSignals` | |
| `LinkedListProofs` | `ListInvariant`, `ListTypes`, `ListsWellLinked`, `RegistriesSafeToDelete` | `ListImplementsSequence` |
| `HashTableProofs` | `TableTypes` | `TableImplementsMap`, `FindsOwnKey` |
| `FireAlarmProofs` | `AlarmInvariant`, `AlarmTypes` | `AlarmRaisedOnEvidence`, `GlitchesAreHidden` |

Each invariant theorem rests on an inductive `IInv`: `Init` implies it, every
action keeps it (one step of the proof per action), and it implies the property.
What it adds to the property, and why that is needed:

**Thread pool.** `TypeOK` alone does not say that the count equals the length of
the list, that only the owner of the mutex is inside the critical section, or
that a request in the list has been submitted; without these, `GetRequest`
could make the count negative and `AddRequest` could add a request twice.
`IInv` adds the mutex discipline, the equation of count and list, that the list
holds distinct submitted requests, disjoint from those being run, and the
accounting of who is awake. For `NoStrandedRequest` the cardinalities matter: a
step moves one thread between the sets *awake*, *signalling* and *waiting*, and a
handler goes to sleep only when the count is zero. The refinement follows because
a handler runs a request from the pop to the return of its function; all other
steps stutter.

**Simulator.** `SimulatorUsesPool` shows each step of the simulator to be a step
of `ThreadPool` or to leave its variables alone; for that, a car must not be
submitted twice, which needs the simulator's own invariant (a car in a queue or
in the hand of an entrance thread has not been submitted). The theorems of the
pool then hold of the simulator. `IInv` relates, per entrance, the semaphore
`full` to the queue: they agree up to a car queued and not yet posted, a post
taken for a car not yet popped, and the one post with which `main` releases the
thread. A thread that takes main's post has still to test `quit`, which is true
by then, so it leaves before the pop; a thread already past the test took a
post that stands for a car. `PopFindsCar` needs both. `CountersInv` keeps the
posts of `cars_simulating` next to the ended cars: a sleeping generator has
taken fewer posts than the ends it waits for, which is `GeneratorNotStranded`. `OrderInv` says that cars are submitted in
the order in which they queue. `WaitInv` holds only when no wait returns without
a signal, so the three theorems that depend on it have `~Spurious` as their
hypothesis, as the run `queues_live` has it: an entrance thread holds
`occupy_mutex` from its pop to its wait, and the car it submitted last is the
only one on its way through the entrance.

**Entrance lane.** `GateInv` says how deep `bgate_mutex` is locked at each place
of the monitor, for each of the three kinds of mutex. `HandOverInv`, which holds
until a wait returns without a signal, pairs the places of the monitor with the
places of the one car in the entrance: the sensor shows that car, the sign its
answer, and the gate works for it. Only the pairing makes the waits without a
predicate safe, so the whole of it is needed for each of the three properties.

**Handshake.** A run creates its objects under its own number, so the mapping of
the simulator is of the present run and the manager's of the present or an
earlier one. `PostInv` bounds each semaphore at the places from which it can
still be posted; `ReadyInv` says that a positive `shm_mem_ready` has been
initialised and that an initialised one stays positive until the manager takes
it, from which `LeftBehindOnlyEarly` follows. `FinishedInv` says the same of
`manager_finished` and `main`.

**Occupancy.** Nothing is locked, so the invariant weighs instead of equating.
The total plus the cars that have left is at least the admitted cars that were
counted plus the exits with a subtraction due (`TotalInv`); total and entrances
about to count stay below the capacity plus those that saw the same free place
(`RoomInv`). Each holds up to the event that breaks it: `raced` (two monitors
between load and store) or `spurious`. A level has moved its count at most as
often as its sensor was signalled, less the signal it is handling (`SignalInv`,
up to `spurious`), and its count lies within its moves (`FloorInv`).
For `BillsThisVisit` the time kept for a plate must be at least the number of
the admission of every car inside with that plate, and a car is admitted by one
monitor once (`AdmitInv`).

**Linked list.** `IInv` says that `Describes(s)` holds of the sequence read from
the pointers: `head`, `next` and `tail` link the distinct nodes of `s`, which
are those allocated and not popped, and in a registry `previous` links them
backwards. The lemma `Reading` shows that the walk along `next` finds any sequence
that is so described, so each operation is proved by naming the sequence after
it. The walk is a recursive function over a bounded interval; its values are
established by taking the least place where they could differ, since the
induction theorems of the library cannot be used.

**Hash table.** Equal hashes put different keys into one chain, so the values of
a key are a subsequence of it. The proof describes that subsequence by an increasing listing of
the positions at which the key occurs, shows the listing to be unique, and follows
it through an addition in front and a removal of the first item with a key
(`InFront`, `TakenOut`). The lemmas `AddPushes` and `DeletePops` say what that
does to every key's values and `FindIsHead` that `htab_find` gives the first of
them, so the same lemmas prove the refinement and `FindsOwnKey`.

**Fire alarm.** `IInv` ties the two windows to the last samples of the level:
the list is their beginning, and each median in its window is the median, by
rank and without sorting, of the samples it was computed from. `CanBeOrdered`
shows that there is an order of any finite list for `qsort` to find,
`MedianUnique` and `SortedMiddle` that its middle is that median.
`GlitchesAreHidden` has the hypothesis `MEDIAN_WINDOW >= 3` (the code's is 5): a
window of one or two samples hides nothing, and TLC shows the property violated
there.

**Only model-checked.** The two liveness properties of the passing runs,
`RequestsServed` and `SimulationEnds`: fairness and `ENABLED` are outside what
the prover handles. The seven runs that end in a violation are counterexamples,
which TLC finds and need no proof.

## 6. Plan

In this order; the first four rows are done.

1. `WorkQueue`, `ThreadPool`, `ThreadPoolProofs`, `EntranceQueues`.
2. `Entrance`, `Handshake`, `LinkedList` with `NodeList`, `HashTable` with
   `KeyValues`.
3. `Occupancy`, `FireAlarm`; `entrance_queue_close` and `llist_close`.
4. Proofs of every safety property and refinement the runs check.
5. What the abstract specifications promise, proved of them and carried over by
   the refinements: that `KeyValues` forgets nothing, that a `NodeList` holds no
   node twice, that a `WorkQueue` starts requests in order of submission.

## 7. Not modelled, and why

* `revenue` and the billing file, which nothing reads back: the amounts are
  numbers of milliseconds, and only the arrival time they start from is modelled.
  What lies behind the arrays that the value 100 indexes: reading there is any
  value, writing has no effect on what is modelled.
* The end of the manager's monitor loops after `quit` in `Occupancy` (a monitor
  that takes no more steps; `Entrance` has the test), and the two text buffers
  that are only displayed.
* `openboomgate` may take a signal that the manager meant for a car, or for
  itself; `MoveGate` has the wake-up, but what the lane loses by it is not
  composed with `Entrance`. Likewise `ShowLetter` changes the signs' letter, and the
broadcast that goes with it (`firealarm.c:197`), which would wake a car waiting
in `info_sign_read` with a letter of the message, is left out. Nobody writes the
temperature sensors.
* `boom_gate_loop` of the simulator, which no thread runs.
* The mutexes, conditions and semaphores that `shm_data_close` and
  `entrance_queue_close` destroy keep working for who still uses them;
  `NoCarUsesDeadStack` says that nobody does on the simulator's stacks.
* A manager that is killed: only the simulator's crash is modelled.
* The display loop of the manager: it only prints, and lines 349 and 354 of
  `car_park_manager.c` are not valid C; the rest of the file is modelled as it
  would behave without them.
* Plates: in the lane a plate names a car. The simulator draws its plates from
  the authorised ones without looking whether the car is in the park already,
  since the test is under `if(false)`; two cars with one plate are in `Occupancy`.
  `atoi(&display)` is taken to read the one digit shown, although the character
  has no terminator.
* Random numbers and delays are nondeterminism; the plates file is the set
  `Authorised`, or the values `Plates` in `Occupancy`. `lp_list` starts its line counter uninitialised, a defect of
  reading a file rather than of the protocols here.
* Failed `malloc`, `shm_open`, `ftruncate` and `mmap` in the simulator end the
  program before anything else runs; in the manager a missing object ends it,
  which is in `Handshake`.
* `llist_find`, `htab_print`: no change of state, or output.
* `timing_manager`: nothing includes it.
