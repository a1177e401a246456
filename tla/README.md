# TLA+ models of cppbackend-pub

The repository holds five small C++20 programs built on Boost.Asio. They are
independent of each other; each is concurrent in its own way. This directory
models them in TLA+, checks the models with TLC on small instances, and proves
the most important facts about them with TLAPS for every size.

## 1. Inventory

| Program | Part | State | Operations | Interaction |
|---|---|---|---|---|
| `cafeteria` | `GasCooker`, `GasCookerLock` (`gascooker.h`) | `burners_in_use_`, `pending_handlers_`, a strand | `UseBurner`, `ReleaseBurner`, lock and unlock | called from any thread; runs lambdas on its strand; posts handlers to `io_` |
| | `Store`, `Cafeteria::OrderHotDog` (`ingredients.h`, `cafeteria.h`) | `next_id_`, `order_id_`, a strand | `GetSausage`, `GetBread`, order | called on the caller's thread *and* on the cafeteria's strand |
| | `Order`, `Sausage`, `Bread`, `HotDog` | start and end times, two timers on the order's strand | `StartFry`/`StartBake`, `StopFry`/`StopBake`, `Complete` | cooker posts the start handler; timers fire the stop handler |
| | `PrepareHotDogs`, `RunWorkers` (`main.cpp`) | a latch, a mutex, the `hotdogs` vector | dispatch, run, return | n threads in `io.run()` |
| `restaurant_single_threaded` | `Hamburger`, `Order`, `Restaurant` | the hamburger's flags, two timers, `delivered_` | `OnRoasted`, `OnOnionMarinaded`, `CheckReadiness`, `Deliver`, `Pack` | timers' handlers on one thread; `Pack` spins for 0.5 s |
| `async_server` | `Listener`, `Session`, `HandleRequest` | acceptor, stream with a deadline, buffer, request | accept, read, handle, write, close, stop on a signal | a strand per session |
| `sync_server` | `HandleConnection`, `main` | a socket per detached thread | read, handle, write, shut down | threads share nothing but the listening socket |
| `radio` | `Recorder`, `Player`, UDP client and server | buffer, offset, frame size | record, play, send, receive | the audio library's thread calls back while the main thread sleeps |

What is hard in this code, part by part, and what makes it correct:

* **Gas cooker.** Requests, grants and releases of different threads
  interleave; a released burner must go to the request that waited longest; a
  queued handler is not known to `io` and would be forgotten if no release
  came. Correct: the count equals the holders, no request is lost or
  overtaken, every request is served, nothing is in use at destruction.
* **Store and numbers.** Two kinds of code increment the same `int`.
  Correct: order numbers and ingredient ids are unique.
* **Orders.** Two timers end on one order; a latch blocks threads of `io`;
  `io.run()` must not return early; a cooking time out of range throws.
  Correct: one answer per order, no rejected hot dog on a timely machine, a
  clean end.
* **Restaurant.** Either timer may end first or fail; the client must hear
  once, of a hamburger as ordered or of an error.
* **HTTP servers.** One operation at a time per session, answers in request
  order, a deadline shared by a read and the write after it, an accept loop
  that one error ends, `ioc.stop()` at any moment, clients that send ahead,
  stall or vanish. Correct: each request gets its answer, in turn, nothing
  follows an answer that ends the connection, and in the asynchronous server
  a session whose client stalls is ended by the deadline.
* **Timing of the cafeteria.** `main` asserts that 20 orders on 8 burners take
  between 7 and 7.5 s: two cooking times that alternate in one queue, and every
  timer on the way may be late.
* **Radio.** An offset advanced by the audio library's thread, a buffer smaller
  than the recording, an unsigned difference that wraps around, datagrams that
  are lost, repeated or late, a server that reads nothing while it plays.
  Correct: no copy leaves a buffer, a recording is complete, a playback is one
  recording from its beginning, and what the socket holds is played.

`PROJECT.json` lists the components and, under `hazards`, each of these points
at the line where it bites with the properties that cover it.

## 2. Modules

| Module | Models | State and actions against the code |
|---|---|---|
| `BurnerPool` | what a cooker promises: a pool of burners | abstract specification, no code of its own |
| `GasCooker` | `gascooker.h` | `strand` is the queue of lambdas dispatched to `strand_`; `UseBurner`/`ReleaseBurner` append to it; `Occupy`, `Enqueue`, `HandOver`, `FreeBurner` are the branches of the two lambdas; `RunHandler` is the posted handler; `use[u]` is the phase of the ingredient and its lock |
| `GasCookerProofs` | theorems about `GasCooker` | |
| `Store` | `OrderHotDog`, `Store` | a job is the caller's or the strand's part of one order; each `++` is `Load`, `Increment`, `Read` |
| `StoreProofs` | theorems about `Store` | |
| `Cafeteria` | `main.cpp`, `cafeteria.h`, `ingredients.h`, `hotdog.h` | instantiates `GasCooker` with two users per order; adds main's lambdas and latch, the cafeteria's and the orders' strands, timers, `Complete`, and the end of `io.run()` |
| `CafeteriaProofs` | theorems about `Cafeteria` | instantiates `GasCookerProofs` and uses its invariant |
| `CafeteriaTiming` | the instance of `main()` as the burners' timetable | `granted` counts the requests that have their burner, `cooking[t]` the burners whose timer's handler runs in `t` ticks at the latest |
| `CafeteriaTimingProofs` | theorems about `CafeteriaTiming` | |
| `Http` | `HandleRequest` and `MakeStringResponse...` of both servers | a request is its verb, target and `keep_alive`; `NeedEof` is the response's `need_eof()` |
| `HttpExchange` | what an HTTP server promises each connection | abstract specification; `phase` is what a client sees of its connection |
| `HttpClients` | clients and the kernel's queue of connections | environment of both servers: connect, send ahead, shut, vanish |
| `AsyncServer` | `http_server.h`, `http_server.cpp`, `main.cpp` | `listener` and `incoming` follow `DoAccept`/`OnAccept`; `session[c]` says which operation or handler of the session is pending; `Start`, `OnRead`, `OnWrite` are its handlers, `ReadArrives` ... `Expire` the completions they wait for |
| `AsyncServerProofs` | theorems about `AsyncServer` | |
| `SyncServer` | `sync_server/solution/src/main.cpp` | `thread[c]` is the blocking call a detached thread is in; an action is the call's return and what follows up to the next call |
| `SyncServerProofs` | theorems about `SyncServer` | |
| `Restaurant` | `restaurant_single_threaded` | one action per handler; `CheckReadiness` is the common tail of both, with its four ways out: `Ignore`, `DeliverError`, `Proceed`, or wait for the other timer |
| `RestaurantProofs` | theorems about `Restaurant` | |
| `Radio` | `radio/solution/src/audio.h`, `main.cpp` | `StartRecording`, `StopRecording`, `Send` are the client's loop, `Receive` and `StopPlaying` the server's; `SendFails` and `ServerFails` are what a socket throws, which ends either loop; `SaveBuffer`, `CountSaved`, `FillBuffer` and `CountFilled` are the audio threads; `net` and `queue` are datagrams on their way and in the server's socket |
| `RadioProofs` | theorems about `Radio` | |
| `MC...` | instances for TLC | symmetry sets and constants |

Conventions:

* A lambda that a strand runs is one action. `net::dispatch` may run it inside
  the call when the strand is idle; that is the dispatching action followed at
  once by the strand's action, one of the interleavings the model has.
* A session's handlers run on its strand and touch only the session, so each is
  one action and threads need not be counted. The stop of `io_context` may fall
  between any two actions. A request in transit and one in `buffer_` are the
  same: what is `sent` and not `taken`. Whether an answer reached the client
  after the socket took it is TCP's affair; `answers` is what was written.
* A thread is counted only while it is between two steps of one job
  (`FreeThread` in `Store` and `Cafeteria`), so a program with one thread has
  only that program's interleavings. Jobs of `io` start in any order, which is
  more than the queue of asio does.
* Time in `Cafeteria` and `Restaurant` passes in ticks of 500 ms: every duration in the
  code (1000, 1500, 2000 ms and 0.5 s of packing) is a whole number of ticks
  and every comparison includes its bound. A timer never fires early. How late
  it may be is the constant `MaxLate` of `Cafeteria`; the operating system,
  not the code, decides it.
* `CafeteriaTiming` has ticks of 100 ms and leaves out threads and strands. It
  rests on two facts, both proved: the cooker grants burners in the order of the
  requests (`NoOvertaking`), and they are given out order by order, the sausage's
  and then the bread's (`ServedInPairs` in `Cafeteria`). It assumes that all requests are
  made before the first timer expires, 1000 ms after the start, and counts the
  time the threads need between a timer and the next grant as lateness of the
  timer that follows.
* In `Radio` a frame is a pair of its recording and its place in it, so that
  frames of different recordings can be told apart; a recording's number is no
  variable of the program. `SaveBuffer` and `FillBuffer` copy in one step, and
  `CountSaved` and `CountFilled` advance the offset in another. A call of a
  device in progress keeps `ma_device_stop` from returning (`copying[c] = 0` in
  `StopRecording`, `filling = 0` in `StopPlaying`), which is what the audio
  library promises. The code depends on it: without it `SaveBuffer` would
  overrun the moved buffer, and `FillBuffer` would read through
  `current_buffer_` after the iteration that owns the buffer, or move the offset
  of the next playback (`InsideBuffers`, `HearsOneRecording`).
* The data race on `next_id_` is undefined behaviour. `Store` lets every
  increment be a load and a store that others may come between, and lets the
  constructor see the value just computed or the counter read again, which is
  what builds of `make_shared<Bread>(++next_id_)` do. The order in which
  `make_shared`'s arguments are evaluated is the constant `ArgOrder`.

## 3. Runs

| Run | Instance | What it shows |
|---|---|---|
| `cooker` | 4 users, 2 burners, fair | burners are accounted for, no request is lost, the asserts at `gascooker.h:35,49,73` hold; first dispatched, first served; every request is served; the cooker implements `BurnerPool` |
| `store_ids` | 3 orders, 2 threads, arguments last to first | order numbers are unique and dense because of the strand |
| `store_one_thread` | 3 orders, 1 thread, arguments first to last | ingredient ids are unique without concurrency |
| `store_race` | 3 orders, 2 threads | **violated**: two hot dogs have an ingredient with the same id |
| `cafeteria_orders` | 2 orders, 3 threads, 2 burners, timers up to 2 ticks late, fair | an order's handler is called at most once; the latch opens although there are more threads than orders, and the program ends, with every order answered or by an exception |
| `cafeteria_queue` | 3 orders, 2 threads, 1 burner, timers up to 1 tick late | with fewer threads than orders the latch never blocks them all; burners are given out in pairs, order by order; waiting for one spoils nothing; clean end |
| `cafeteria_late` | 2 orders, 1 thread, 1 burner, timers up to 2 ticks late, fair | **violated**: a late timer ends the program and other orders are never answered |
| `cafeteria_timing` | the program's 20 orders and 8 burners, timers up to 100 ms late | the whole takes between 7 and 7.5 s |
| `restaurant` | 4 orders, 2 with onion, failing timers, fair | one answer per order, as ordered; no `logic_error`; the program ends |
| `async_server` | 2 clients, 3 and 2 requests, fair | no connection is lost or served twice; answers in turn and in the end; no stalled client holds a session for ever; the server implements `HttpExchange` |
| `sync_server` | the same clients, fair | the blocking server implements `HttpExchange` and answers every request of a connection that does not break |
| `radio` | 2 clients, 2 recordings, a buffer of 3 frames, a device of up to 4 frames in calls of up to 2, a socket that holds 2 datagrams, fair | no copy leaves a buffer or outlives it; a recording is complete; a playback is one recording; what is queued is played unless `receive_from` throws |

*Bounds.* Two burners and four users give every mixture of a free burner, two
holders and a queue of two. Two clients are enough for the servers, whose
sessions meet only in the accept loop; their scripts have a request behind the
one that ends the connection, every kind of verb, and a malformed request.
Three orders suffice for two in flight while a third is late (`Store`)
and for a queue of ingredients of different orders (`Cafeteria`), whose two
instances have fewer threads than orders and more, so that each argument of the
latch's `std::min` decides once.
`CafeteriaTiming` has the program's own numbers. Its bound on lateness is exact:
with timers that are never late the 40 requests take 7.0 s, and with 100 ms at
each timer exactly 7.5 s, so that nothing above 100 ms can be asserted.
In `Radio` the device delivers one frame more than the buffer holds, as 66150
are 1.5 s at 44.1 kHz and 65000 the buffer; calls of one and two frames end at
the edge of the buffer or across it; two recordings give one client a second
one over the remains of the first, and two clients datagrams that overtake each
other; `MaxRecordings` bounds how many are made. `Cafeteria!AgeBound` stops counting an ingredient's age where every comparison
with it has been decided; `Restaurant!ClockBound` is not a guard but an
invariant: the longest timer and one packing per order.

*Deadlock* is checked in the runs of `Cafeteria`, `CafeteriaTiming`,
`Restaurant` and the servers, whose end is a state of its own (`Over`,
`Stopped`, `Quiet`). In `Cafeteria` that says little, as time can always pass;
`CanGoOn` says that a thread can go on or that time brings a timer. `GasCooker` and `Store` may stop: when every user has had
its burner and every order its number nothing is left to do. So may `Radio`:
once every client has ended and nothing is on its way the server waits in
`receive_from` for ever.

*Fairness.* `io`'s threads keep running what is queued and strands keep their
order, so each job that stays ready is run (weak fairness per action), and time
passes (`Tick`). An ingredient that cooks has an armed timer, which justifies
fairness of `ReleaseBurner` in `GasCooker`; nobody is obliged to ask for a
burner. `Restaurant` has a single thread that runs whatever is ready, hence
weak fairness of `Next`. (Its expired handlers run in any order, which is more
than asio's heap of timers does; the invariants do not need that order.)
In `AsyncServer` handlers run because at least one thread is in `ioc.run()`,
data and connections that have arrived are handed over, and the deadline's
timer fires; nothing is assumed of clients, signals or a write's progress. In
`SyncServer` there is no deadline, so a write is assumed to end: the client
takes its answers or vanishes. In `Radio` the server's thread receives what the
socket holds, wakes up after 1.5 s of playing (`Receive`, `StopPlaying`), and a
callback ends (`CountFilled`); `receive_from` may throw instead of returning and
end the server; nothing is assumed of clients, the network or the audio devices.

*Mutants.* Every property has a mutated definition, written next to the
original, with a plausible bug that TLC finds with that property.
`OneLambdaPerUser` (`GasCooker`) and the `TypeOK` of `SyncServer` and of
`CafeteriaTiming` are in no run: they are parts of inductive invariants and proved
for every size.

## 4. What the violated runs show

1. `store_race`: `OrderHotDog` "may be called from an arbitrary thread"
   (`cafeteria.h:93`), and the first thing it does is to take a sausage and a
   bread on that thread, whose ids are then dropped (`cafeteria.h:97-98`). The
   strand's lambda increments the same `next_id_` for another order. A caller
   that has loaded it and stores it back late makes ids come twice, against
   `ingredients.h:158` and `main.cpp:119-129`.
2. `cafeteria_late`: `Complete` (`cafeteria.h:62-69`) constructs the `HotDog`
   with no `try`. A timer that is handled more than 500 ms late makes the
   constructor throw out of `io.run()`, and the process ends with every other
   order unanswered, although handlers take a `Result` that can hold an error.

## 5. Proofs

`GasCookerProofs` proves, for every finite set of users and every positive
number of burners, all safety properties of `GasCooker` that the runs check,
the order of grants, and that it implements `BurnerPool`. The only assumption
is `CookerAssumption`.

The invariants are not inductive one by one. Freeing a burner keeps
`burners_in_use` equal to the number of holders only if the user whose release
runs is a holder; handing one over posts the right user only if the front of
the deque belongs to a user that waits. `OneLambdaPerUser` says both: what is
in the strand and in the deque belongs to users in the matching phase, once
each. The inductive invariant is
`TypeOK /\ OneLambdaPerUser /\ BurnersAccounted /\ NoLostRequest`. `Ran`,
`RanLast`, `RanKeeps` and `RanOne` say what taking the head of the strand does
to it; then there is one lemma per action. `AssertsHold` and `DestroyedIdle`
follow from the invariant in every state. `NoOvertaking` and the refinement
are step properties under it: a request leaves only from the head of the
strand with an empty deque (`OccupyInTurn`) or from the front of the deque
(`HandOverInTurn`).

`AsyncServerProofs` proves, for every set of clients and every script, the
safety properties of `AsyncServer` that its run checks and that it implements
`HttpExchange`. The assumptions are `HttpAssumption` (scripts are sequences of
requests, no target is empty) and `AsyncServerAssumption`. The inductive
invariant has two halves. `Listed` and `Found` place connections: that
`OnAccept` starts a session on a fresh connection holds only because the queue
holds each connection once and none that has a session. `Turn` relates, for
each state of a session, what has been sent, read and answered, what
`safe_response` holds, and what an end of stream says of the client. A step of
one session preserves both by `OneMoves`, so each action's lemma is about its
own session only. The refinement is a step property under the invariant: a
session shows nothing (`ShowsNothing`) until it starts, answers or ends
(`Ends`), and `HandleRequestAnswers` says that what `HandleRequest` makes is
the answer due.

`ForgetsNothing` is the safety half of `EventuallyAccepted` and `SessionsEnd`: a
connection without a session is in the queue of a listener that accepts, or
`OnAccept` is due, or one error has ended the listener; and a session has a
handler that is due or a deadline that will end what it waits for. It needs that
the deadline armed before a read is still armed at every point up to the end of
the write (`Watched`). What fairness adds to it TLC checks.

`SyncServerProofs` proves the same of `SyncServer`: its type and that it
implements `HttpExchange`, from `HttpAssumption` alone. Its invariant is
smaller: `Listed` (the backlog holds each connection once and no thread serves
one of them) and `Turn`, which relates a thread's blocking call to what was
taken, what `response` holds and what was answered. `AnswersInTurn` is proved once, of
`HttpExchange`, and carried over by the refinement. `KeepsConnections` says that a
connection is in the backlog exactly when no thread has it, which the type
invariant and `Listed` give in one direction only (`Queued` is the other).

`StoreProofs` proves, for any number of orders and threads, that order numbers
are unique and dense, however callers and the strand race on `next_id_`. Every
job's program is a list of increments, `Serial` says that of the jobs that
increment `order_id_` only one is between two steps, and `Numbers` says for a
kind of counter that whoever is inside an increment has loaded the current
value and that the numbers handed out are below it; `Dense` says that the
numbers given are 1 up to `order_id`. The type invariant bounds `next_id_` by the
increments there are, four for each order, which races can only lessen. With
`NumThreads = 1` the same `Numbers` holds for ingredients, because then no job
starts while another runs (`OneRunning`): `OneThreadIdsUnique`. That this
assumption is needed is what `store_race` shows.

`CafeteriaProofs` proves, for any number of orders, threads and burners and any
lateness, that each handler is called at most once, that `PrepareHotDogs`
returns only with every order answered and the cooker idle. With `MaxLate <= 1` no hot dog
is rejected; `MaxLate <= 2` keeps `timer` within `AgeBound` and is needed for
the type invariant alone. Nothing of the cooker is proved twice:
`StepUsesCooker` says that each step is one of the cooker's or leaves it alone,
so `GasCookerProofs!NextInv` gives the cooker's half of the invariant. The other
half is: `Line`, that an order that has left the cafeteria's strand has both
ingredients started and one that is still there has at most its sausage, which
makes `io.run()` returning mean that both are done; `Answered`, that an order is
answered when both are cooked and no timer's handler of it is running, and not
before; `Punctual` and `Edible`, that what cooks is as old as its timer; and
`Threads`, that no more threads are inside lambdas than were started and that
the latch counts those that have not come.

Three more theorems build on that invariant. `ServesInPairs`: burners go to one
order after the other. That a bread follows its sausage in the deque is not
enough, for another order's request might come between the two, in the strand or
between the strand and the deque; `InTurn` says that of the requests that wait an
order's two stand one behind the other (`SideBySide`), and that the bread is
before all others once its sausage has a burner (`BreadIsNext`). `NeverStuck`
proves `CanGoOn`, the safety half of `Finishes`: with any numbers of threads and orders, until `io`
has nothing left a thread can take a job or go on with its own, or a timer is to
come. Its crux is `ThreadToSpare`: threads wait at the latch only as long as one
more is free to arrive, because the latch counts `min(num_threads, num_orders)`.
`CookerServes` states what the cooker's theorems say of the cafeteria's cooker.

`CafeteriaTimingProofs` proves `main`'s 7 to 7.5 s and what is behind it. A run is
compared with a schedule, a time for each request. If before its time all
burners must still be busy with earlier requests (`NotBefore`), no run is sooner
(`NoSooner`, by the invariant `Early`); if at its time one must be free again even
with every handler late (`NotAfter`), no run is later (`NoLater`, by `Late`). Both
compare, for every moment to come, how many burners are still in use then with
how many the schedule has in use, so the order in which handlers run drops out.
The schedule is then the only thing to look at: rounds of `NumBurners` requests
give `AnySize`, a bound on the program's time for any orders, burners and
lateness; two tables, the program with every timer on time and with every one a
tick late, give `MainsDuration`. `MainsNumbers` fixes 20 orders, 8 burners and
`MaxLate <= 1`, as the assertion does.

`RestaurantProofs` proves all invariants of `Restaurant`. `Stage` lists, for
each order, the combinations of timers, flags and calls it can be in, `Course`
how `program` depends on the orders, and `OnTime` that the clock is at most the
longest timer and one packing for each order packed so far.

`RadioProofs` proves, for any clients, buffer, device and number of recordings,
that no copy leaves a buffer, that recordings are complete and that a playback
is one recording. While a client records, its offset and what is being copied
are together the smaller of what was heard and the buffer's size, and the buffer
holds those frames and then zeros; a datagram on its way or queued is `Sound`,
the beginning of a recording and then zeros; while the server plays, the offset
and what is being copied are together the smaller of what the speaker was given
and the datagram's size, and nothing is being copied at any other time
(`PlayerInv`). A server or a client that has ended keeps all of it.

What the theorems assume is in the named `ASSUME`s of the modules, which the
runs evaluate, and in the bounds on `MaxLate` and `NumThreads` said above.

Only model-checked: liveness (`EveryRequestServed`, `Finishes`,
`EventuallyAccepted`, `EventuallyAnswered`, `SessionsEnd`, `EveryQueuedPlayed`),
which needs fairness and ENABLED.

## 6. Not modelled

* `Result` (`cafeteria/solution/src/result.h`): a variant of a value and an
  exception, without concurrency; nobody stores an error in it.
* Build files and packaging.
* Logging, wording and the exact thread ids; `DumpRequest` of the synchronous
  server.
* The radio's prompts and command line, and audio formats other than the one
  byte per frame the program uses. A device that does not start is one that
  never calls back; that the code ignores the results of `ma_*` is modelled so.
* A frame of zeros is not silence in `ma_format_u8`: what the tail of a short
  recording sounds like is outside the model, that it is zeros is not.
* Memory and the number of detached threads of the synchronous server: that a
  stalled client's thread stays is modelled, that there may be too many is only
  the exception of `AcceptThrows`.

What could still be added: that `Cafeteria`, with its threads and strands,
implements the timetable of `CafeteriaTiming`, and a model of asio's own strand
under the atomic lambdas used here.
