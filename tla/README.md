# robert-middleware in TLA+

The middleware stands between clients (ZeroMQ + protobuf) and one ABB robot
controller (raw TCP, a RAPID program). A client logs in, acquires the single
hardware lock, sends robot commands, each of which becomes a *task*, and polls
the tasks by id. This directory specifies that program, checks it with TLC and
proves its safety properties with TLAPS.

## 1. Inventory

| component | source | state | operations |
|---|---|---|---|
| Tasker | `src/src/server/tasker.*` | `m_next_task_counter`, `m_task_map` (mutex 1), `m_task_queue`, `m_shutdown`, `m_queue_cv` (mutex 2) | `addTask`, `getTask`, `startTask`, `completeTask`, `failTask`, `removeTask`, `sweepExpiredTasks`, `waitForNextTask`, `stop` |
| Server | `src/src/server/server.*`, `src/src/main.cpp` | `running_`, three threads, the main thread, `g_shutdown_requested` | `loop_`, `robot_worker_loop_`, `sweeper_loop_`, `start`, `stop`, signal handler |
| SessionManager | `src/src/server/session.*` | `sessions_`, `current_lock_`, `users_`, one mutex | `login`, `logout`, `is_valid_token`, `touch_session`, `acquire_lock`, `release_lock`, `has_lock`, `sweep_expired_sessions` |
| RequestHandler | `src/src/server/request_handler.*` | none of its own | one handler per command, each a sequence of calls on the two above |
| Robot | `src/src/robot/robot.*` | `running_`, `connected_`, `socket_fd_`, `request_queue_` with promises | `start_session`, `stop_session`, `queue_request`, `worker_loop` |
| Socket layer | `src/src/network/sock_comm.*` | none | `connect_tcp`, `set_timeouts`, `close_socket` |
| Controller | `src/robert-rapid/*.mod` | listener and client socket, `move_speed`, `move_zone`, the robot's position | accept, receive, parse, `ExecuteAction`, reply |
| Codec | `src/src/commands`, `src/src/core/data.*`, RAPID `ParsingModule`, `ValueModule`, `TelemetryModule` | none | protobuf to request, request to bytes, bytes to RAPID values; status report and back |
| Configuration | `src/src/core/conf_parser.*` | read once | `parse_conf` |

How they interact. The server thread receives one request, runs its handler to
the end (calls on SessionManager, then on Tasker) and replies. The worker thread
blocks on Tasker's condition variable, starts a task, hands it to Robot through
a promise and waits for it at most 90 s. Robot has a thread that connects,
sends one command at a time, waits for its reply and sends a heartbeat after two
idle seconds. The sweeper wakes up every five seconds. Main starts all of it,
waits for a signal and joins the threads.

What is hard. `addTask` and a poll are two critical sections each, with the
worker and the sweeper in between; a handler is up to seven critical sections
with the sweeper in between; shutdown meets each thread at any point of its
loop; connections fail between a command and its reply, time runs out while
the robot still moves, replies carry no number, and requests no frame: what
arrives in two pieces is parsed as two. Two tables of zones, two tables of command
numbers and two descriptions of one layout have to agree. `PROJECT.json` lists the
hazards one by one, with the property that would catch each.

What correctness means, per component:

* Tasker and Server: no task lost, none left IN_PROGRESS, started in order, one
  at a time, finished once, forgotten only when finished; every accepted task is
  finished eventually, finished ones are reclaimed, `stop` returns.
* SessionManager and RequestHandler: one session per user, no command accepted
  while another token holds the lock, the lock never left with an erased session,
  a silent holder loses it.
* Robot and controller: a request is executed at most once and in order, and never
  awaited for ever; it is resolved by its own reply as long as nothing has put the
  replies of the connection out of step, and three things only can; dead links are
  noticed.
* Codec and controller: a command is executed as it was asked or not at all, but for
  the rest of a request that came in pieces; no motion to a position ends outside of
  the workspace; what replies and reports on a connection in step say of speed, zone
  and position is so, and stays so while the connection goes on out of step.
* All of the server: the results of a client that holds the lock are kept for it, and
  polling for one ends.

## 2. Modules

| module | models |
|---|---|
| `Tasker` | the class: one operator per critical section, conditions on entry and early returns as in the code |
| `Server` | EXTENDS `Tasker`; the four threads as program counters over its operators, and the properties |
| `TaskBoard` | abstract: what a client may rely on, with no threads, queue or map; `Server!RefinesTaskBoard` |
| `TaskerProofs` | EXTENDS `Tasker`, TLAPS; lemmas on its operators, for the two modules that use them |
| `ServerProofs` | EXTENDS `Server`, `TaskerProofs`; the inductive invariant and the safety theorems |
| `ServerRefinement` | EXTENDS `ServerProofs`; responses, and `Server` implements `TaskBoard` |
| `Sessions` | SessionManager, the handlers one call at a time, the sweeper, the clock |
| `SessionsProofs` | EXTENDS `Sessions`, TLAPS; its theorems |
| `Middleware` | EXTENDS `Tasker`, INSTANCEs `Sessions`: a request goes through the calls of both while worker, sweeper and clock go on; `Middleware!ImplementsSessions` |
| `MiddlewareProofs` | EXTENDS `Middleware`, `TaskerProofs`, INSTANCEs `SessionsProofs`; its safety properties, the refinement included |
| `RobotLink` | the worker's use of Robot, Robot's thread, TCP connections, the controller |
| `RobotLinkProofs` | EXTENDS `RobotLink`, SequenceTheorems, TLAPS; all its safety properties |
| `Codec` | the names and numbers, the layouts of request and report and the conversions, each side from its own source |
| `CommandPath` | EXTENDS `Codec`: commands from the client's request to the motion of the robot and back, over connections that may cut them and go on when replies are out of step |
| `CodecProofs` | EXTENDS `Codec`, SequenceTheorems, WellFoundedInduction, TLAPS; where the fields of a request are and what is read there |
| `CommandPathProofs` | EXTENDS `CommandPath`, `CodecProofs`; all its properties |
| `MCServer`, `MCSessions`, `MCMiddleware`, `MCRobotLink`, `MCCommandPath` | the modules as TLC checks them, with the .cfg files |
| `MCSessionsQuiet` | `Sessions` observed by a clock of the clients' own |

Variables keep the names of the members they stand for (`m_task_map`,
`current_lock_`, `request_queue_`, ...); `pc` fields say which call of a
function a thread is about to make. The comment over an action names its
function; `map` in `PROJECT.json` gives the lines.

How the models fit. Each leaves the others free to do anything they can do:
`Server` lets a request be accepted or refused as it pleases (`Sessions` decides)
and lets the connection come and go (`RobotLink` decides); the outcome of an
awaited request in `Server` is any of the three that `RobotLink` produces;
`Sessions` lets a task take for ever; `CommandPath` sends any command at any time
and `RobotLink` any reply. So whatever holds in `Server` holds with any behaviour of
sessions and robot. A hung sweeper blocks `Server`'s handlers as it does in
`Sessions`. An exception that leaves a thread's function ends the process
(`Terminated`), and the models stop there.

`Middleware` puts `Sessions` and `Tasker` together: it uses the actions of the one and
the operators of the other, adds the token each task was accepted for, and is shown
to implement `Sessions` with `owners`, a sequence that `Sessions` changes as it
pleases, read off the registry: the tokens of the unfinished tasks, oldest first. Its
worker is that of `Server` reduced to the steps that change a task; it never sleeps
on `m_queue_cv`. Its sweeper takes the sweep of the sessions and that of the tasks in
any order, which includes the order of `sweeper_loop_`.

### Choices a reader should know

* **A mutex held throughout is one step.** The two critical sections of `addTask`
  are two steps, and its `notify_one` a third.
* **Condition variables.** `m_queue_cv` is the set of threads that sleep on it;
  evaluation of the predicate and going to sleep are one step under the mutex.
  Spurious wakeups are steps. The signal handler does not take `g_wait_mutex`,
  hence main's test and its blocking are two steps.
* **Time.** `Task::isExpired` and the session timeout are ages that a `Tick` adds
  to, up to the first that counts as expired (300 s and 60 s in the code). Ticks
  may come at any moment, so no speed of the threads is assumed. The limits of
  blocking waits (500 ms, 2 s, 5 s, 35 s, 90 s) are steps that may be taken while
  the wait lasts.
* **Undefined behaviour.** `sweep_expired_sessions` locks `mutex_` a second time.
  `RelockOutcomes` holds what a build may do: "hang" (glibc) or "recurse" (the
  code goes on). The passing run of `Sessions` allows both.
* **Responses** are reduced to who wrote them; in `RobotLink`, a reply of the controller
  to the request it answers, the connection and whether it starts with NACK, since the
  worker looks at nothing else. In `CommandPath` a reply is an ACK, a NACK, a report with
  its values, or a fragment.
* **Bytes.** `Codec` does not write them out. A structure is the list of its fields
  with their sizes, and what the other side unpacks at an index is the field that
  begins there and is as long as it asks for, or nothing. So a field that is moved,
  widened or left out on one side is missing on the other.
* **Positions and values** of `CommandPath` are numbers: one coordinate stands for all,
  and joint values are the position they lead to. Speeds are in halves of a mm/s, so
  that one of them can have a fraction. A cast of a float to `uint16_t` that does not fit is
  undefined: `uint16` gives the wrapped and both saturated values.
* **Pieces.** TCP keeps bytes, not messages. One `recv` (robot.cpp:109) or
  `SocketReceive` (ServerModule.mod:49) returns several messages at a stroke, of which
  both sides look at the beginning of the first only, or a part of one, whose rest is
  the next message. Both modules have this, in both directions. In `RobotLink` the rest
  of a reply is taken for an ACK, as is the beginning of a NACK that is shorter than the
  word; the rest of a request (`Rest`) is a command of nobody's that is executed and
  answered, passed over as too short, or an error on which `HandleClient` ends. In
  `CommandPath` requests are cut at `Cuts`, which are also where a `send` that fails
  half-way stops, and reports at `ReplyCuts`; text replies are cut too, into `Fragment`s.
  A part shorter than what its command unpacks is an error; the rest of a request is
  parsed as if it were a request (`StrayCalls`: any command that its length suffices
  for, with any of the model's values, since coordinates are arbitrary bytes). A zone
  number above 7 read from such a rest has no `CASE` in `value_to_zone`; the program
  stops, which is `Restart`.
* **Connections that are out of step go on.** After a command that is answered twice, or
  a message in two pieces, the replies of a connection may answer other commands than
  they are taken for. Neither side can see it, and nothing in the code looks for it: in
  both modules the middleware sends the next command whatever is outstanding, and hands
  on whatever `recv` returns, until the connection is lost. `shifted` and `shifts`
  (`RobotLink`) and `slips` (`CommandPath`) record that it happened. They are read by the
  properties, by the bound on how often it happens, and by `Conclude` (next item),
  and by no step of the program. The controller takes a new connection when it has left
  the old one, and a new one starts in step.
* **What is known of the controller.** `known` of `CommandPath` is what follows for speed,
  zone, the end of the last motion, the robot's place and the last report from the
  replies, taken at their word, of connections that had not slipped when they came. A
  client cannot tell those from others; what one believes on a connection that has
  slipped can be false. With `Conclude` learning from every reply, TLC refutes
  `SpeedAsAcknowledged`, `ZoneNeverCoarser`, `PlaceAsTold` and `ReportAgrees`: after NACK, NACK
  a `SETSPEED` gets the leftover NACK and is executed, and the speed acknowledged last is
  not in force. The properties therefore say two things: a reply on a connection in
  step tells the truth, and what it told stays true whatever happens on that connection
  later, until a command of its kind is sent (`Doubted`). `known` is emptied where no
  reply says a word of the change: when the controller is restarted and when it takes
  the rest of a request for a command (`NothingKnown`). After a fly-by point the end of
  the motion is known and the place is not, and an offset from there has no known end.
* **Zones of the protocol.** `decoder.cpp:167` casts the number of a report to
  `protocol::Zone`, whose numbers are in the protocol repository. They are the constant
  `ZoneNumber`; the cast gives the zone with that number, or none (`ZoneReported`), and
  `ReportAgrees` speaks of the zone if the numbers are those of `RapidZone`.
* **`Timeout`** is the `int` of the configuration file; `RobotInfo` keeps its low 16
  bits, and `SO_RCVTIMEO` of 0 means no limit (`TimesOut`), on which `Fairness` depends.
* **`recv` of 11 bytes.** `server.cpp:112` compares the size received with EAGAIN
  outside of the try block; the step `ServerRecv` to "threw" stands for it.

## 3. Runs

| run | bounds | shows |
|---|---|---|
| `server` | 2 tasks, expiry after 1 tick | nine properties of the threads and the registry, the refinement of `TaskBoard` included |
| `sessions` | 2 users, 3 tokens, timeout 1 tick, 1 accepted task | five properties of sessions and lock |
| `middleware` | 2 tasks, 2 users, 2 tokens, expiry after 1 tick, sessions at any tick | sessions and tasks together: the refinement of `Sessions`, results kept for their holder, polling ends |
| `robotlink` | 2 requests, 2 connections, a timeout of 30000 ms, all three causes in `Shifts`, one of them once (`MaxShifts`) | nine properties of the link |
| `commands` | position 2 and offset 2 in a workspace of 2 and 3, the robot's zero at 1; speeds 300.5 and 65556 mm/s; 3 zones; requests cut after 88 and 186 bytes, reports after 12 and 165; one slip per connection | seven properties of commands, motions and reports |
| `server_graceful`, `server_signal`, `sessions_hang`, `sessions_orphan`, `sessions_control`, `sessions_quiet`, `robotlink_own_reply` | the same or one task | each a counterexample to one sentence of the repository (see Findings) |

Why the bounds are enough. Two tasks are what order, overtaking and "another task
meanwhile" need: each property of `server` speaks of one task or of the order of
two, and the theorems of section 4 remove the bound from all its safety properties.
The same goes for the safety properties of the other four passing runs; what rests on
the bounds is liveness. Three tokens let one
user's session end and begin again while another user is active. Two connections
let a connection fail and its successor be used while the controller still works
on a command of the former; a second request can meet the leftovers of the first.

In `middleware` two users with a token each can take the lock from one another with
a task each in the registry, one poll the other's, and the sweep end one's session
with the other's request under way. `RelockOutcomes` is "recurse" there: with "hang"
the server thread stops at the next call on SessionManager, which `sessions` shows.
`SessionTimeout` is 0, so that every tick may end any session.

In `robotlink` one cause of the three puts one connection out of step, with a request
and heartbeats after it on the same connection and one more connection after that: what
the properties have to tell apart. The run has 934,000 states; `RobotLinkProofs` removes
the bound.

In `commands` the robot starts outside of the workspace, where joint values may lead,
and goes to 2, which is inside; the offset takes it from 1 to 3, inside, and from 2 to
4, outside, and from a point on its way. 300.5 mm/s needs both bytes of the field and
loses its fraction, 65556 fits neither and wraps to 20, a speed that the controller
accepts. `FINE`, `Z5` and an unknown zone (`OTHER`) are the first zone, one that the missing
`z0` shifts, and the default of the decoder. A cut after 88 bytes leaves enough for most
commands and a rest of 100 that most commands can be read from; one after 186 a rest of
two bytes, less than a command. A report of 12 bytes ends within the zone, one of 165
within the date. Any number of commands is sent after the slip of a connection, with
its leftovers before their replies; a second slip adds more of them. The run has
1,770,000 states. A larger workspace adds positions between those of the model, more
zones rows of the same tables, and `CommandPathProofs` has no bound.

The timeout is that of the repository's `config.yaml`. With 65536, which becomes 0,
`DeadLinkNoticed` and `StopReturns` fail (`EveryRequestJudged` holds, thanks to the 90 s of the
worker).

Named bounds: `MaxTasks` (ids of `m_next_task_counter`, accepted tasks in
`Sessions`), `Expiration`, `SessionTimeout`, `Tokens`, `MaxRequests`,
`MaxConnections`, `MaxShifts` (how often a connection gets out of step in `RobotLink`),
`MaxSlips` (the same for each connection of `CommandPath`), and in `CommandPath` `Places`,
`Offsets`, `Speeds`, `ProtoZones`, `Cuts` and `ReplyCuts`, which stand for all positions,
speeds, zones and places to cut at; `MaxRobSpeed`, `CornerMin`, `CornerMax` and `ZeroPlace`
are settings of the controller and the robot. When a bound is used up the system may stop, hence `CHECK_DEADLOCK FALSE`; in `Server` it also
stops because the program ends, and in `CommandPath` a controller that has lost a
half-sent command waits for more.

### Fairness

Weak fairness for each thread of the program: a thread that can take its next step
does so, which is what a preemptive scheduler gives, and each blocking call of the
loops has a time limit (`rcvtimeo` 500 ms, `wait_for` 2, 5 and 90 s, `sleep_for`
1 s), except the two waits on condition variables, which are modelled as such, and
`recv` of the robot thread, whose limit is `TimesOut`'s. `Middleware` needs the server and worker
threads only. `CommandPath` has safety properties alone and no fairness.
Time passes. Nothing is assumed of clients, signals, the network, the
controller, spurious wakeups or of the success of a connection. The limits themselves
may end a wait at any moment: the 90 s of the worker while the robot thread sends or
receives, too.

The liveness properties exempt what ends or blocks the process, where the code does
that: those of `Server`, and `DeadLinkNoticed` and `StopReturns` of `RobotLink`, exempt
`Terminated` (an exception that leaves a thread), `TaskFinishes` and `FinishedTaskReclaimed` also a shutdown; `FinishedTaskReclaimed`,
`SilentHolderExpires` and `Server!StopReturns` exempt a sweeper that hangs on its own mutex. What those ends are is
the subject of the violated runs.

### Findings

1. `server_graceful`: `queue_request` throws when `stop_session` has run between
   `is_connected()` and it; nobody catches it, the process terminates.
2. `server_signal`: a signal between main's test and its blocking is lost.
3. `sessions_hang`: the first session that expires makes the sweeper wait for the
   mutex it owns; every later request hangs.
4. `sessions_orphan`: `acquire_lock` for a session swept after its check leaves the
   lock with a token that no sweep, logout or release will ever free.
5. `sessions_quiet`: `last_seen` of a new session is the epoch of the clock.
6. `sessions_control`: the lock changes hands while tasks of its former holder are
   queued or executed.
7. `robotlink_own_reply`: ERR_ROBLIMIT is answered twice; the second NACK resolves
   the next request, and so on until the connection is lost. What a client then
   concludes of speed, zone, place and reports can be false. A message in two pieces
   has the same effect.

Met while modelling, with no sentence of the repository to hold against it: a
fractional speed such as 5.5 is accepted and is 5; every zone but fine is the next
smaller one on the controller (`ZoneNeverCoarser` says that it is never a larger
one); a report of 162 to 170 bytes is accepted and its date read past its end.

## 4. Proofs

`ServerProofs` proves, for every `MaxTasks` and `Expiration` and every value of
`NoTask` outside `Task` (the named assumptions of `Tasker`):

* `TypeCorrect`: `Spec => []TypeOK`.
* `Invariant`: `Spec => []IInv`.
* `NoTaskIsLost`, `QueueAgreesWithMap`, `StartedTaskIsHeld`: the safety
  invariants `NoTaskLost`, `QueuedArePending`, `NoTaskAbandoned`.

None of the three is inductive: that a popped id is still PENDING, say, rests on
the queue holding no id twice, which rests on ids being pushed in the order they
are drawn, which rests on the id between the two sections of `addTask` being the
youngest of all. `IInv` says this: ids not drawn are not in the map (`Drawn`); the
id about to be pushed is PENDING, the last drawn and greater than all queued
(`Pushing`); the popped id is PENDING and smaller than all queued and than the one
about to be pushed (`Starting`); the task the worker has started is IN_PROGRESS
(`Executing`); a task about to be removed by a poll is finished (`Removing`); and
the three properties themselves. TLC checked `IInv` on the instance of run
`server` before it was proved.

The argument: most steps leave queue and counter alone, keep every unfinished task
and change no state of a task (`Kept`), and change the two threads only in ways
that do not matter (`ServerQuiet`, `WorkerQuiet`); lemma `Quiet` deals with all of
them at once. What remains is drawing and pushing an id (`InvServer`), popping and
starting it (`InvWorker`) and finishing it (`InvFinish`).

`ServerRefinement` builds on `IInv`. Lemma `StepKinds` says that whatever thread
moves, the tasks see one of five things: nothing (`Keeping`), a new task
(`Drawing`), the popped one started (`Beginning`), the one in progress finished
with its response (`Finishing`), or finished ones removed (`Dropping`). From it:

* `ResponseAgreesWithState`: `Spec => []ResponseFitsState`.
* `Refinement`: `Spec => RefinesTaskBoard`, each kind of step being one action of
  `TaskBoard` or a stutter under the mapping `Phases`. That a task is started in
  the order of ids needs `Starting` and `Drawn`, that it is alone needs
  `NoTaskAbandoned`.

`SessionsProofs` proves, for all users, tokens, timeouts and both behaviours of
the relocked mutex (the named assumptions of `Sessions`):

* `SessionsTypeCorrect` and `OneSession`: `[]TypeOK`, `[]OneSessionPerUser`.
* `TasksUnderLock`: `AcceptedUnderLock`, from `CheckedForTask`: when the handler is
  about to call `addTask`, the lock is its token's or free. The sweep keeps this
  since it only frees the lock, and no other request is handled meanwhile.
* `OrphanedOnlyByAcquire`: `LockOrphanedOnlyByAcquire`, from `LockGivenBack`: when
  the handler is about to call `logout`, the token no longer holds the lock.

Both rest on `InFlight`, which ties the handler's next call to its command and
token.

`MiddlewareProofs` proves the safety properties of run `middleware`, for all users and
tokens, any number of tasks and either behaviour of the relocked mutex (the named
assumptions of `Tasker` and `Middleware`):

* `MiddlewareTypeCorrect`: `[]TypeOK`.
* `SessionsImplemented`: `Spec => ImplementsSessions`. What `Sessions` calls `owners` is
  read off the registry, so each step has to change it at one end or not at all. The
  unfinished tasks have consecutive ids (`Pipeline`): the popped one, the queue, the
  one about to be pushed. From that, `addTask` appends an owner (`AppendedWindow`) and
  the end of the oldest task drops the first (`DroppedWindow`); that the task which
  ends is the oldest unfinished one needs `Stages`. Lemma `EveryStep` says of each step
  that it keeps this part of the invariant and is a step of `Sessions` or a stutter.
* `SessionsGuarantees`: what `SessionsProofs` proves then holds of the composition. Its
  theorems are used through an instance and not proved again (`AccessKept`).
* `KeptForHolder`: `ResultKeptForHolder`. `getTask` and `removeTask` of a poll come
  after its `has_lock`, with the sweep in between. `Polling` says that the lock is by
  then the poller's or free; so a task of the holder that goes is removed by its own
  poll or has expired.

`CodecProofs` proves `RequestReadAsPacked`: `parse_message` unpacks each of the six parts of a
request at the index that the packed structure gives it. `Codec!Ends` adds up the sizes
of 49 fields by recursion. Its equation follows from a function that satisfies it
(`EndsEquation`); that no other does (`EndsClosed`) follows without induction over an
operator: were there a field at which it differs from the closed form, there would
be a first one (`LeastNumber`, from the library's `WFMin`), and its predecessor does
not differ.

`CommandPathProofs` proves all properties of run `commands`, for every workspace, all
places, offsets, speeds and zones, any number of slips, and every way to cut requests
and reports (the named assumptions of `CommandPath`; `SpeedsAssumption` asks that the
controller's greatest speed be no less than the 100 mm/s it starts with).

* `StaysInside`: `PositionsStayInside`, inductive by itself: the goal of a position motion
  changes in `BeginMotion` only, after `IsSafeTarget`; the restart and the error handler
  do not leave a position motion behind. It needs none of what the commands contain,
  which is why it holds for stray ones.
* `CommandPathInvariant`: `Spec => []IInv`, the conjunction of what follows.
* `CommandPathTypeCorrect`: `TypeOK`, from `Types`, which also says that each request in
  transit is the one made of what was asked, and what replies contain.
* `CommandsExecutedAsAsked`: `ExecutedAsAsked`, on slipped connections too (`Executed`).
  `ParsedRequest` says what a request is parsed as: from `RequestReadAsPacked` and, that
  both tables of command numbers name the same commands, `CommandNumbers`.
* Where things are: on a connection that has not slipped (`Clean`), what is under way of
  the last command is in one place, in transit, executed or answered, and between
  commands there is nothing (`OneAtATime`, `Alone`). This is proved of the steps, which
  have no such guard; the first slip ends it, and nothing is said of such a connection.
* `Doubts`: whatever is in transit or executed, and whoever believes it to be over,
  nothing is known that it may still change (`Lost`). It is what makes knowledge survive
  a slip: the leftovers are of commands whose kind is in doubt, and a command of any
  other kind cannot make false what is known. `Known` leaves out what the command in hand
  may change.
* `SpeedInForce`, `ZonesOnTheSafeSide`, `PlaceKnown`: each has an invariant of one form
  (`SpeedHeld`, `ZoneHeld`, `PlaceHeld`): what is `Known` is so; while the command on a clean
  connection has changed nothing yet (`Pending`) what was known before is so; and once
  its answer is all that is under way (`Answered`) the answer tells the truth. Four
  lemmas carry them through the steps: knowledge only grows when a reply arrives
  on a clean connection (`KnownNext`), pending and answered commands were so before or
  have just become so (`PendingNext`, `AnsweredNext`), and speed, zone and position change
  by a command under way only (`WhoChanges`), of which `Doubts` says that what it changes is
  not known (`Forgotten`). `PlaceHeld` also says that the robot is not on its way
  where its place is known: that is what stop points are for, and why an offset
  adds up. `ZoneHeld` is stronger than its property: the zone is the one that
  both tables give.
* `ReportsAgree`: `ReportAgrees`. A report that is alone under way holds the values that are
  known (`ReportHeld`), and what `unpack_robot_status` finds at the offsets of speed, zone
  and position is what was packed for these fields, of a whole report or the part
  of one that it accepts (`NumberReported`).

TLC checked `IInv` of both modules on the instances of runs `middleware` and `commands`
before they were proved.

`RobotLinkProofs` proves every safety property of run `robotlink`, for any number of
requests and connections (the named assumptions of `RobotLink`), from three
invariants, each with the one before as a part:

* `TInv`, the types by part and the tie of `connected_` to the socket, gives
  `LinkTypeCorrect` and `SocketIfConnected`.
* `OInv` gives `OnceInOrder`. A request moves through stages: executed, in transit
  on an earlier connection, on a later one, in the robot thread's hand, queued, not
  issued yet (`Issued`). All requests at a stage are older than all at the next
  (`Stages`, `WireOrder`), and each step takes the oldest of a stage to the end of
  the one before, or drops it. What makes a reconnection safe is `WireAlive`:
  nothing is in transit on a connection that is lost or not made.
* `RInv` gives `OwnReply`, `NothingMadeUp` and `NothingLeftBehind`. On a connection that is
  not in `shifted`, the command in hand leaves one trace at most: in transit, executing
  or answered; between commands there is none (`OneTrace`, `InStep`). This is proved of
  steps that have no such guard, with messages joined in any way. So the reply that
  recv takes is to the command just sent, the command is over, and it is on no other
  connection (`SentHere`). On one that is in `shifted` nothing is claimed. A promise is
  set for a request that has left queue and hand, hence once (`Promised`); replies on a
  connection in step speak of executed requests (`Answered`); a task is completed by a
  reply (`CompletedByReply`).

TLC checked `OInv` and `RInv` on the instance of run `robotlink` before they were
proved. Without the exception for connections out of step the property is refuted: run
`robotlink_own_reply`.

Only model-checked: liveness, since TLAPS does not do ENABLED. That is `TaskFinishes`,
`FinishedTaskReclaimed` and `StopReturns` of `Server`, `SilentHolderExpires` of `Sessions`,
`PollingEnds` of `Middleware`, and `EveryRequestJudged`, `DeadLinkNoticed` and `StopReturns`
of `RobotLink`. The two refinements are about initial states and steps. Every invariant,
action property and refinement of the passing runs is proved. There is no induction over
data here: what a recursive definition computes is proved where its equation
determines it (`Codec!Ends`). Of the report, the three fields that `CommandPath` is about
are covered. The properties of the violated runs are refuted, not proved.

## 5. Not modelled

Name resolution and the Windows branches of the socket layer; users, name, address
and port of the configuration beyond their being constants; a second `start` after
`stop` (main does not do it); loss of ZeroMQ replies; latency and execution times of
tasks; orientation, configuration and external axes of positions, which are packed
and unpacked with the rest (`Codec`) and moved to as one coordinate
(`CommandPath`); the kinematics, world zones and supervision of the robot, which are
a motion that fails; logging, string conversions for logs,
the helpers of `utils.*`; build files and the RobotStudio project. The protobuf
definitions are a submodule that is not in the repository: their numbers are those
that `decoder.cpp` names.

## 6. Plan

1. `Tasker`, `Server`, `TaskBoard`: the core; type correctness and the inductive
   invariant proved. *(done)*
2. `Sessions`, `RobotLink`: modelled and checked. *(done)*
3. `SessionsProofs`, `ServerRefinement`: the safety of both modules proved, and
   `Server` shown to implement `TaskBoard`. *(done)*
4. `Codec`, `CommandPath`: from the client's values to the motion and back. *(done)*
5. `Middleware`: `Sessions` and `Tasker` composed, with the owner of each task. *(done)*
6. `RobotLinkProofs`: `ExecutedOnceInOrder`, `ReplyBelongsToRequest`,
   `ConnectedHasSocket` from an invariant on where a request is (queue, work item,
   in transit, executing, executed). *(done)*
7. `MiddlewareProofs`: `ResultKeptForHolder`, from an invariant that ties the lock to
   the token of the poll under way, and `ImplementsSessions`. *(done)*
8. `CodecProofs` and `CommandPathProofs`: where the fields of a request are, and the
   properties of commands, motions and reports. *(done)*
9. All fields of a status report, packed by the controller, against
   `unpack_robot_status`, as a theorem like `RequestReadAsPacked`.
