# Verification of ExtendedSwim

ExtendedSwim simulates a web system that adapts itself: a load balancer in
front of servers of three types (A, B, C), which a client program may add,
remove, brown out and feed through a text protocol on a socket.  It is a set
of OMNeT++ modules on top of an extended copy of OMNeT++'s queueing library.
This directory holds TLA+ models of it, the TLC configurations that check
them, and proofs that TLAPS checks.

Paths below are relative to the repository root (`src/` here stands for the
repository's own `src/` directory); line numbers follow the file name.

## 1. The system

OMNeT++ is a discrete-event simulator: one thread takes the next event of the
future event set (FES) and runs its handler to completion.  There are no data
races; what interleaves is the order of handlers.  Handlers call each other
directly (`Enter_Method`) and through signals, both synchronously, and send
each other messages, which are events of their own even without delay.  The
outside world comes in at one place only: while the scheduler waits for the
wall clock it serves a TCP client.

| Part | Code | State | Operations |
|---|---|---|---|
| Execution manager | `managers/execution/` | pending BootComplete messages, the module being removed, `serverRemoveInProgress`, the scheduled `completeRemove`; and the server modules and their gates | add, remove, set brownout, divert, handle BootComplete / completeRemove / busy signal |
| Run-time model | `model/HPModel.cc`, `model/HPConfiguration.cc` | active servers per type, what boots, the expected changes (`events`) with their times, brownout factor, traffic shares, type of the server of each job, rates | called by the manager and the monitor inside their handlers |
| Load balancer | `modules/HPLoadBalancer.cc` | none of its own; reads the shares and walks its gates | route a job |
| Application server | `queueinglib/PassiveQueue.cc`, `modules/MTServer.cc` (+ `MTServerAdvance`) | queue, running jobs with their remaining times, end-execution timer | job arrival, hand-over, end of execution, timeout |
| Monitor | `managers/monitor/HPMonitor.cc`, `util/ServerUtilization.cc` | utilization table, response-time, revenue and inter-arrival sums | two messages per period; busy, completion and arrival signals |
| Utility scorer | `managers/adaptation/UtilityScorer.cc` | none | revenue of a request, utility of a period |
| Adaptation interface | `externalControl/AdaptInterface.cc` | receive buffer | parse commands, call the manager, reply |
| Scheduler | `queueinglib/SocketRTScheduler.cc` | listener, connection, base time | wait for an event, serve the client, insert the notification |
| Job source, prediction | `modules/Predictable*Source.cc`, `model/NotDetEnvModel.cc` | look-ahead buffer, bands of rates | produce jobs, predict rates |
| Probe | `util/TimeWindowStats.cc`, `modules/SimProbe.cc` | windows of entries with cached statistics | record, expire, ask |
| Planning samples | `util/Utils.cc` | a shared directory, one file of rows | copy a solved problem, append its row |
| Queueing library | `queueinglib/` | queues, pools, families of jobs | source, router, queues, servers, pools, fork, join, clone |
| Example client | `examples/simple_am` | - | reads the state, decides, sends commands |

How they interact: a **client command** arrives at the scheduler, which fills
the buffer of `AdaptInterface` and notifies it; it calls the manager; the
manager changes the **model** and the **network** (creates, connects,
disconnects and deletes modules) in one handler, or over several when a boot
takes time or a server has to finish its jobs.  The **load balancer** reads the
shares from the model (kept by *type*) and the servers from its gates (kept by
*module*).  A server tells the manager and the monitor with the signal `busy`
when it starts to run jobs and when it has none left, and writes into the model
which type serves a job; the sink's signals let the monitor turn that into
revenue.

What is hard here:

- The same facts are kept twice: counts by type in the model, modules with
  names and gates in the network; one boot as an expected change in the model
  and as a scheduled message in the manager.  They are updated at different
  moments, and everything that overlaps those moments can separate them.
- Modules are found by a **name computed from the count**
  (`server_A_<count>`), so a count that is wrong for a moment selects a wrong
  module or none.
- A removal ends with a **signal** that somebody must emit.
- One timestamp and one sending time of a message serve several measurements,
  and one completion message stands for all running jobs.
- A handler may call back into its caller (resource pools, destructors of jobs).
- A stream of bytes has no borders between commands, and the client may come
  and go while a command waits.
- `ASSERT`s and `assert`s are the only guards of the commands; a failing one
  ends the simulation.

What makes each part correct is stated by its properties, section 3.

## 2. The modules

| Module | What it is |
|---|---|
| `HPModel` | variables and operations of the run-time model |
| `ExecutionManager` | the manager's handlers and three kinds of client |
| `ManagerProperties`, `ManagerInvariant` | its properties, and the inductive invariants |
| `ServerPool` | what the manager promises: a pool of interchangeable servers |
| `LoadBalancer`, `Swim` | routing; manager, model and load balancer composed |
| `ServerView` | one server as the manager sees it |
| `AppServer`, `AppServerProperties` | queue and threads inside a server, and its removal |
| `Monitor`, `MonitorProperties` | measurement of utilization |
| `Accounting`, `AccountingProperties` | from a served job to response times and revenue |
| `SocketRTScheduler`, `SchedulerProperties` | the scheduler and its one TCP client |
| `AdaptInterface`, `InterfaceProperties` | commands, replies, the dimmer |
| `Arrivals` | job sources, measurement and prediction of arrivals |
| `BootClock` | the run-time model in time: boot countdown, counts an instant ago |
| `WindowStats` | sliding windows and the probe over them |
| `SimpleAM` | the decisions of the example manager, with the model they act on |
| `EnvModel` | bands of arrival rates and the environment of a planner |
| `SampleProblems` | the collection of planning problems, with crashes |
| `ProcessorSharing` | service times of a server whose jobs share its processor |
| `QueueNet` | source, router, queues and servers under every selection strategy |
| `ResourcePools`, `JobFamily`, `JobTimes` | pools with call-backs; fork, clone, join; statistics of a job |
| `MCManager`, `MCSwim`, `MCAppServer` | small instances for TLC |
| `MCSerial`, `MCWorkload`, `MCParts` | selectors, see below |
| `ManagerProofs`, `AppServerProofs`, `MonitorProofs`, `AccountingProofs`, `SchedulerProofs`, `QueueProofs`, `PartsProofs` | theorems |
| `FoldProofs` | lemmas on sums, extremes and loops |

Three modules **select** at the start what a behaviour is about, and change
nothing else afterwards.  `MCSerial` takes the manager with or without a boot
delay (`INSTANCE ... WITH ZeroBootDelay <- TRUE`).  `MCWorkload` takes a server
with timeouts, or one with bursts and a bounded queue.  `MCParts` takes one of
fourteen components that do not interact in the model: each has its own
variables, its own bounds and its own properties, so that one run asks each its
question.  `Swim` chooses its client in the same way.  The composition of
components that do interact is in `Swim`, `Accounting`, `Arrivals`, `SimpleAM` and
`QueueNet` themselves.

### HPModel and ExecutionManager

One handler of the manager is one action, with all that it calls in the model.
`HPModel` therefore has no next-state relation of its own: its operations are
action formulas that `ExecutionManager`, `BootClock` and `SimpleAM` conjoin.
`AddServer(t)` is `addServerLatencyOptional` with a boot delay (create the
module, name it, copy the brownout factor, record the expected change, schedule
BootComplete); `AddServerNow(t)` is the same call when the delay is 0, where
BootComplete is handled at once; `StartServer(t)` the same for the initial
servers; `BootComplete(m)`, `RemoveServer(t)` and `CompleteRemoval` are the
other three handlers, `SetBrownout` and `DivertTraffic` the remaining commands.

- `fault`: a failing assertion, or the use of a module that does not exist,
  ends the simulation, so `...Fails` actions set `fault` and nothing happens
  afterwards.  (The assertions are active in a debug build of OMNeT++.)
- `events` is a multiset in the code, but the assertion of
  `HPModel::addServer` keeps it at one element; a set is enough, and
  `removeExpectedChange` (erase the last) empties it.
- `bootType` stands for `mBootRemain` and `mBootServerType`: the type is NONE
  exactly when the remaining periods are 0.  The countdown itself is in
  `BootClock`.
- `removing` stands for `serverBeingRemovedModuleId` and
  `serverRemoveInProgress`, which change in the same handlers.
- If several modules have one name, `getSubmodule` returns any of them.
- A module id of a deleted module may be used again (the code's ids are never
  reused; nothing in the manager remembers an old one).
- A command may come between any two handlers, and several in a row, since one
  message of the socket can hold several lines.
- Jobs appear as two sets of modules: `busy`, to which the load balancer has
  sent a job that has not left, and `held`, in which a job is queued or runs.
  `isServerBeingRemoveEmpty` sees only the second; between the two a job is on
  its way in a message without delay (`JobEnters`, `JobRequested`).  A removal
  that runs in between takes the module for empty (`missed`), see finding 4.
  That this is a faithful view of a server is not assumed: `AppServer`
  implements `ServerView`, whose steps are those of `ExecutionManager` for one
  module.  One of them is `LastJobTimesOut`: the module becomes empty without a
  signal.

The **clients**: `AnyClientSpec` issues any command at any time.
`CarefulClientSpec` obeys every precondition a client can read through the
protocol.  `SerialClientSpec` runs one adaptation at a time, as comments of
`HPModel` assume ("only one add server tactic at a time"), but may remove the
server that is booting.  The difference between the last two is finding 1.

`BootClock` has what `HPModel` leaves out: the time of the expected change, the
number of periods a boot has left (rounded up, and at least 1 until the server
is active), what was active an instant ago, and the state number that the
planning samples make of it.  The manager is reduced to its serial use there.

### LoadBalancer and Swim

The shares are quarters, so a draw is the quarter it falls in; 0 stands for a
draw of exactly 0.  A job goes to the connected server with the lowest gate
whose type's interval contains the draw.  As in the code, the share of C is not
read: C takes what A and B leave.  `Swim` composes this with the manager under
a client that diverts traffic away from a type before it removes the type's
last server, in the order of `examples/simple_am`.

### The server: AppServer and ProcessorSharing

Queue and server decide and send in one handler, and receive in another:
`inFlight` holds the zero-delay messages of the current instant in order.  In
`AppServer` a removal may come between any two of them, and up to `Burst` jobs
may join those on their way in one instant; any non-empty set of running jobs may end; queueing time is kept as
`late`, always a prefix of the queue, which is what a FIFO queue and a common
timeout allow.  `ProcessorSharing` says *when* jobs end: `runningJobs` sorted by
remaining time, the one `endExecutionMsg`, and the update of the remaining times
from its sending time.  Its property compares this with a history variable that
hands out the processor tick by tick.

### Monitor and Accounting

`periodEvent` reads and `periodPostEvent` resets at the same instants; the
scheduling priorities order them.  Each entry of the utilization table has the
fields of `ServerUtilization`; what a server really worked since the last reset
is a history variable of `MonitorProperties`.  `Accounting` follows a job to its
revenue: the server writes the type into the model, the classifier chooses a
sink by the kind of the job, the sink emits `lifeTime` and then `jobCompletion`,
the monitor pays at the second with the latest value of the first.  The client
may reset the revenue at any time.

### Socket: SocketRTScheduler and AdaptInterface

`SocketRTScheduler` is `takeNextEvent` with its wait in slices of 100 ms, each
a `select` that ends by time, by a new client, by bytes or by the client's
leaving; the wall clock goes on at any moment, so the process may be late.
An event may schedule others at its own time: the messages
without delay by which a job gets from module to module are events that the
scheduler waits for like any other.  When the last `select` of a wait returns
early (an accept, a close), the event runs ahead of the clock, and what a client
sends then is inserted at the wall-clock time: before the messages that the
event has sent, and at a simulated time that may lie before that of the last
event (the code has "TBD assert that it's somehow not smaller",
`SocketRTScheduler.cc:155`).  This is how a command comes between two messages
of one instant.  A stop of the run ends with `executionResumed`.  `AdaptInterface` takes what is
in the buffer apart into lines and executes them; commands may be cut anywhere
on the wire.  A level of the dimmer stands for the factor computed from it.

### Arrivals, EnvModel, WindowStats

`Arrivals` has the three sources with their look-ahead (preloaded trace, file of
rates, random with generation on demand), the monitor that measures, and the
record of the model.  `EnvModel` has `buildModel`, `updateModel`, the search for
the closest band and the environment of the planner's language, in bands and for
a perfect environment.  `WindowStats` has the probe with windows for arrivals,
for each kind of response time and for each server's busy flag.

### SimpleAM and SampleProblems

A handler of `simple_am` reads seven counters with one command each, decides,
and sends its commands; the simulation goes on in between.  The loop of the
program has the calls of the handlers commented out; the model lets either be
called in each period.  `SampleProblems` lets several processes share a
directory; each may die between any two steps and be started again.

### QueueNet, ResourcePools, JobFamily, JobTimes

`QueueNet` is a network rather than a module: `Source` or `SourceOnce`, a
`Router`, two `PassiveQueue`s connected to two servers (one of them a
`BootServer`), a `Queue` and a sink, with each combination of the routing,
sending and fetching strategies chosen at the start.  `ResourcePools` and
`JobFamily` are written as functions on the whole state, because a release calls
a waiting user before it returns, and a job's destructor calls its parent, its
children and the job list.  An assertion of either ends the run of its part:
that of a grant, which fails for a queue of capacity 0, those of the releases,
and that of `Join`, which fails for copies of sub-jobs.  `JobTimes` follows one
job through any sequence of stations and compares the sums it reports with the
ticks it really spent there.

## 3. What is checked

| Run | Asks | Bounds |
|---|---|---|
| `manager_serial` | no assertion fails; names, counts, connections, boot records, brownout factors agree; some server serves | serial client, with and without boot delay; at most 2 A, 1 B, 1 C; 4 module ids; two factors, default 1 against the model's 0; timeouts |
| `manager_live` | removals complete, boots take effect, the manager implements `ServerPool` with its liveness | serial client, with and without boot delay; one server of each type, no job timeouts |
| `swim` | for the client that diverts: every draw but 0 finds a connected server, and a type without share gets no job; for any client: a module that is deleted is disconnected, and holds no job unless one was on its way when it was taken for empty; a draining module gets no job | diverting: at most 2 A, 1 B, 1 C, all 15 diversions; any: one of each type, two diversions, two factors; draws in each quarter, and 0; timeouts |
| `server` | work conservation, FIFO, every job leaves unless it was on its way when the module was taken for empty, the server implements `ServerView`; the limit of the threads; a drain completes in the burst workload | 7 jobs, 2 threads; steady: timeouts, unlimited queue, one message at a time; burst: no timeouts, capacity 1, up to 3 jobs in one instant |
| `scheduler` | no receive into a full buffer or from a missing socket; simulated time is less than two slices ahead; a reply goes to the client that asked; requests are handled, if the simulation keeps up | slice of 1 tick, buffer of 2 units, 2 units on the wire, clock to 4; the client reconnects |
| `parts` | the questions of fourteen components, next table | |
| `careful_boot`, `server_timeout`, `monitor_new`, `lost_request`, `window_busy`, `queue_count` | the findings, each a violation | |

| Part | Property | Bounds |
|---|---|---|
| `Arrivals` | `PredictionComesTrue`: what the source predicts for a period is what the monitor measures in it, except the last entry of a trace, whose job is never created | traces of up to 5 intervals 0, 1 or 3; files of rates; clock to 12 with periods of 4 |
| `AdaptInterface` | `ExecutesOnceInOrder`: the reply a client takes is that to its command; commands are executed once and in order, and no reply says OK without | 4 commands, 2 before a reply is read, cuts in the name, before the argument and before the newline |
| `Monitor` | `MeasuresWork`: measured busy time is worked time; `ReportsOnePeriod`: each report covers one period | 2 servers, one created later; two periods of 3 ticks and part of a third |
| `Accounting` | `NoFault`: the scorer's assertion never fails; `RevenueIsEarned`: revenue and response times are those of the jobs completed since the last reset; `ReportsItsPeriod`: each report covers its period | 2 jobs, 2 types, amounts that tell all cases apart; threshold 1, timeout 2; two periods of 2 ticks |
| `SimpleAM` | `AdaptsSafely`: no assertion fails (no server beyond the maximum or during a boot), no traffic goes to a type whose last server drains, the factor stays in its range, and the client gives up in one case only | at most 2 A, 1 B, 1 C; two dimmer steps |
| `WindowStats` | `WindowIsExact`: arrivals, average response time and busy time are those of what happened in the window, whatever is cached; for the busy time, unless the server has the name of one that worked before it (finding 5) | window of 2 ticks, clock to 5, 5 signals, of which the first 3 may bring a value; one server that leaves and returns |
| `BootClock` | `ClockForeseesBoot` (`BootIsForeseen`): the configuration, the counts asked for a later or earlier instant and the state of a sample agree with the time at which the boot completes | boot of 5, period of 2, clock to 7 |
| `ResourcePools` | `PoolIsSound`: nothing is released that is not held, a grant finds a job unless its user has capacity 0; until then no amount is lost, every other user has one request exactly while its jobs wait, nobody waits when nobody holds anything | 3 queues (of capacity 0, unlimited and LIFO, and 1), 1 allocate, 6 jobs, amount 2 |
| `JobFamily` | `FamilyIsSound`: parents and children name each other, the list holds just the jobs that exist, a job that `Fork` has made has its parent when it comes to the `Join`, a job is kept in the `Fork` only for a sub-job still to come, unless the last was deleted | 5 jobs, 2 gates each |
| `QueueNet` | `NetIsSound`: no job is lost, no server gets a second job unless two came in one instant, no job waits beside an idle server, `roundRobin` passes no queue over twice | 2 queues, 2 servers, 5 jobs |
| `JobTimes` | `TimesAddUp`: the totals are the times really spent waiting, served and delayed, and with the time in `Fork`s they are its life time | 4 stations, 4 ticks |
| `ProcessorSharing` | `ServesByShares`: every job leaves exactly when its share of the processor has served what it asked for | 2 threads, 4 jobs, 2 service times |
| `EnvModel` | `EnvStartsClosest`: the environment written for the planner starts in the band closest to the current rate, and above all bands in none; the index of a time in a perfect environment is the state that has it | rates on, between and above the bands, 2 updates; a table of 10 intervals |
| `SampleProblems` | `SamplesAreWhole`: a row names a directory of its own with all files of its problem, and comes after a header | 2 processes, 2 plans, 1 restart |

Why the bounds are enough: the manager distinguishes servers by type and by
number within a type, so two of one type and one of each other type give every
relation (same type, other type, first and last number), and four ids let all
of them exist together; two removals cannot overlap.  Ids are interchangeable,
hence the symmetry, which is used only in runs without liveness.  Two threads
and five jobs give full threads, a waiting job behind another, and jobs of both
fates at once.  Two periods are needed for a busy span, a job or a reset that
crosses a boundary.  A buffer of two units holds a command and a half.  Two
servers and two queues make every selection strategy choose and every server
have a queue that it did not serve last; five jobs fill the bounded queue while
both servers work.  Five signals are what it takes for a server to work, go, be
added again under its name and work again; `window_busy` needs four.  A queue of
capacity 0 beside two others lets its stale request stand before and behind
those of the others.  A boot of two and a half periods rounds in both directions.
Each part has a mutant of a plausible bug that its property finds within these
bounds.

**Fairness.**  Only what the simulator does by itself is fair: scheduled
self-messages are delivered (`BootComplete`, `CompleteRemoval`, the messages in
flight), an end-execution that is scheduled happens, and a server that is
disconnected, so that it gets no new job, works off its jobs.  No client
command and no arrival is fair.  The last assumption is itself checked, by
`BurstDrainCompletes` in `server`; with timeouts it is false, which is finding
2, so `manager_live` has none.  In `scheduler` the program's own steps are fair
(they are one loop), and the wall clock goes on; the client's are not.  Fairness is not
enough there: a simulation whose events take longer than the time between them
stays behind the clock, and `takeNextEvent` then hands out one event after the
other without a look at the socket (`SocketRTScheduler.cc:228-238`), so that the
client starves.  An event of the model may schedule others at its own time for
ever, which is such a simulation.  `RequestsHandled` therefore has the premise
`KeepsUp`: time and again there is an event to wait for.  It is a premise about
the simulation, which nothing in the code ensures.

Deadlock is checked in `manager_serial` and `manager_live`, where the client can
always go on; it is not in runs that end by a fault, by the last job, or by the
bound on a clock.

### Findings

1. `careful_boot`: a client removes a server while none boots, then adds one of
   another type while the first still finishes its jobs.  When the removal
   completes, `HPModel::removeServer` sees that *some* server boots and takes
   the removed one for it (`HPModel.cc:226`).  The expected change is lost and
   the active count keeps the removed server; when the boot completes, the
   assertion of `HPModel.cc:205` fails.  After such a miscount,
   `getTotalActiveServers() > 1` (`HPExecutionManagerModBase.cc:195`) also
   admits the removal of the last server that is connected.
2. `server_timeout`: the jobs left in a draining server's queue time out; they
   are passed on one after the other without running, `busy = false` is never
   emitted again, and the removal never completes.
3. `monitor_new`: a new server's first signal is `busy = false`; the interval
   since time 0 is added to its busy time (`ServerUtilization.cc:51`), so a
   server added after an hour is reported as fully used until the next reset.
4. `lost_request`: a removal that runs between two messages of one instant
   takes a server for empty to which a job is on its way, since
   `isServerBeingRemoveEmpty` (`HPExecutionManagerMod.cc:287`) asks for running
   and queued jobs only.  The module is deleted at once, and the job with it,
   although a server should be removed "when all requests in the server have
   been processed" (`HPExecutionManagerModBase.h:97`).
5. `window_busy`: `SimProbe` keeps the windows by the name of the server.  A new
   server with the name of a removed one finds its window, and its first
   `busy = false`, which "should not be recorded" (`SimProbe.cc:105`), is; the
   window then begins with an end, and the time before counts as busy.
6. `queue_count`: `queueCount`, "the number of queue modules visited by the job"
   (`Job.msg:27`), counts a job that waits in a `PassiveQueue` twice, and one
   that is served or sent on at once not at all.

Smaller observations, met while the code was translated.  The models behave as
the code does; no run is devoted to them.

- `SocketRTScheduler.cc:155`: simulated time may go back, when bytes come after a
  wait has ended early (section 2); what follows from it for a removal is
  finding 4.
- `AdaptInterface.cc:144`: the parser keeps no rest of a line for the next
  buffer.  A command that arrives in two parts is two commands to it.  Cut before
  the newline this is harmless; cut in the name or before the argument the first
  part is refused, and the client gives up.  Cut *within* the argument the first
  part may get an answer that does not begin with `error:`, the client goes on,
  and the answer to the rest is taken for that to its next command: with
  `"within"` in `Cut`, TLC finds `ExecutesOnceInOrder` violated.  The run has the
  other three cuts.  `SimpleAM`'s client writes each command at once.
- `AdaptInterface.cc:242`: the dimmer commands accept any level; the client has
  to stay in the range, and `simple_am` does.
- `AdaptInterface.cc:24`: the answer to an invalid argument has no prefix
  `error:`, by which a client recognises errors.
- The command `get_arrival_rate` answers the mean inter-arrival time.
- `simple_am` sends a `divert_traffic` without argument when a handler runs
  with one active type; the reply is an error, which ends the client.
- `TimeWindowStats::getVariance` returns the second moment about 0.
- `SimProbe.cc` 35-36: the subscription of `serverRemoved` is commented out.  The
  weighted response time is 0/0 when neither kind of request has a throughput.
- `AppServer` and `QueueNet`: when several messages reach a queue in one
  instant, `isIdle` does not see the job on its way.  A server then runs more
  jobs than `threads`, and a `Server` of the library ends the simulation with
  "job arrived while already servicing one".  The sources of the network
  `SwimExtention.ned` produce one job at a time; `SourceOnce` does not.
- `HPLoadBalancer.cc:159`: a draw of exactly 0 satisfies `u <= 0`, so type A may
  get a job although its share is zero.
- `MTServerAdvance`: the test is `u > brownoutFactor`, so a draw of exactly 0
  is served at low fidelity even at factor 0.
- `ResourcePool`: a queue or an `Allocate` of capacity 0 that is refused the
  resource leaves its request registered although the job is dropped; when the
  request is granted the assertion of `ResourceBasedQueue.cc:183` or
  `Allocate.cc:70` fails.  The model has this, as the end of the run of its part.
  A release grants at most one waiting
  user; the entry it takes from the list may be a newer one of higher priority.
- `Fork` and `Join`: when the last outstanding sub-job is deleted elsewhere, the
  parent stays in the `Fork` for ever.  A copy that `Clone` makes of a sub-job
  has no parent and fails an `ASSERT` in `Join`.
- The time spent in a `Fork` is in no total of a job.
- `Router`: three of the documented algorithms have no branch or end with an
  error (`shortestQueue` in `Router.ned`, `minQueueLength`, `minDelay`,
  `minServiceTime`); `PassiveQueue.ned` names `minDelay`, which
  `SelectionStrategy::create` does not know.  A `BootServer` that has booted
  does not ask for waiting jobs; `PassiveQueueDyn` has to be refreshed.
- `PredictableRandomSource`: `rate` is read before it is set.
- `NotDetEnvModel`: the search in the table of a perfect environment only moves
  forward.
- `Utils.cc`: the copy of a file that is missing is an empty file, without an
  error; each process writes the header of the table again; `get_instance`
  ignores the location of later calls; a row fits the header only with 21 rates.

## 4. What is proved

For every value of the constants, under the assumptions named in the modules:

- `ManagerProofs`.  With the serial client (every set of ids, bound on servers,
  initial assignment with at least one server, set of factors and diversions,
  either boot delay, with or without timeouts): `TypeOK`, `NoFault`,
  `NamesMatchCounts`, `BootRecordsAgree`, `BrownoutAgrees`, `SomeServerServes`,
  `ActiveCountsServingServers`; and the manager implements the safety part of
  `ServerPool`, the abstract specification that `manager_live` checks with its
  liveness.  With the load balancer, for either client of `Swim`:
  `OnlyIdleServersDisappear`, `DrainedServerGetsNoJob`.  For the client that diverts before it removes,
  with any set of diversions that add up to all of the traffic
  (`DiversionAssumption`): `EveryDrawFindsServer`, `ShareIsRespected`, *provided
  that* the simulation starts with a server of type A, since
  `HPConfiguration` gives A all of the traffic at first.  The hypothesis is
  necessary, see section 5; and the two properties leave out a draw of exactly
  0, see the hazard of `HPLoadBalancer.cc:159`.
- `AppServerProofs` (any number of jobs and threads, capacity, timeouts or
  not): `WorkConserving`, `ImplementsView` (the server implements the view of it
  that the manager's model has), and that each job that has come is in one place
  or has left in one way, unless it was on its way when the module was taken for
  empty (`NoJobLost`, `NoJobTwice`, `EmptyInv`).  `ThreadLimit`: never more jobs
  run than there are threads and jobs that joined others on their way (`Burst`);
  with `Burst = 0` that is the limit `maxThreads`.  `FirstComeFirstServed` needs
  that no job joins another on its way, or that the queue holds one job at most
  (`NoPassing`): otherwise a job may overtake.
- `MonitorProofs` (every set of servers and period): `MeasuresWork`,
  `ReportsOnePeriod`.
- `SchedulerProofs` (every slice, buffer size and bound, any client):
  `NoRuntimeError`, `AheadByLessThanTwoChunks`, `ReplyGoesToSender`.
- `AccountingProofs` (every set of jobs and types, price list and period):
  `NoFault`, the assertion of `getRequestUtility` is never reached, *provided
  that* the timeout of the servers is 0 or longer than the threshold of the
  response time (`TimeoutAssumption`).  `SwimExtention.ini` satisfies this; with
  a shorter timeout a job that no server ever took would be paid.  Also
  `RevenueIsEarned` and `ReportsItsPeriod`: what the monitor has added up is
  what the served jobs earned, each once and at the type and fidelity it was
  served with, and a report is about all jobs of its period and no others.
- `QueueProofs`: `NetIsSound` (any number of queues, servers and jobs, any
  capacities, each combination of the five strategies), `PoolIsSound` (any users,
  amounts, priorities and disciplines), `FamilyIsSound` (any jobs, any number of
  gates of `Fork` and `Clone`).  The assumptions are those of the three modules:
  no user asks for more than the pool has, and `Fork` has at least one gate.  Any
  capacity is allowed, also 0, for which `PoolIsSound` says that a grant fails
  there and nowhere else.
- `PartsProofs`: `TimesAddUp` (any number of visits, any times),
  `SamplesAreWhole` (any set of processes, problems, failures and restarts),
  `PredictionComesTrue` (any traces, files of rates and random draws, any
  evaluation period), `ClockForeseesBoot` (any boot delay and evaluation period),
  `AdaptsSafely`
  (any maximum of servers, any number of brownout levels), and
  `ExecutesOnceInOrder` (any commands that have a name, and an argument only
  where one is expected (`CommandAssumption`); any number of them sent ahead),
  *provided that* no command is cut within its argument, which is necessary: see
  section 3.

**The manager.**  None of the properties is inductive.  The key is that the
module that boots, and the module that is removed, always have the *highest
number* of their type (`BootInv`, `RemovalInv`): then a removal, which lowers
the count by one, leaves names `1..count` without a gap (`UniqueNames`,
`NamesCounted`, `CountsNamed`), so every later lookup finds its module.
`RemovalInv` also says that while a removal is under way nothing boots except
the server being removed; that is what makes the guess of
`HPModel::removeServer` right, and it is where the careful client fails.
`ConnectionInv` says that a module is unconnected only if it boots or is being
removed, and gives `SomeServerServes` and, by counting,
`ActiveCountsServingServers`.  `SerialInv` is their conjunction; each handler
has a lemma, with a step per part.

**The pool.**  The manager counts what the model calls active, the pool counts
what the network connects.  `SerialInv` makes one a function of the other
(`ActiveCount`: they differ by the server that drains), and each handler is
then one step of the pool, or none.

**Any client.**  `AnyInv` keeps only what does not depend on names and counts:
the module under removal exists, is unconnected and is not the one booting, and
holds no job once its deletion is scheduled, unless it was taken for empty.

**The diverting client.**  `SwimInv` adds to `SerialInv` that the shares add up
(`SharesAddUp`) and that a type with a share has a connected server
(`SharesAreServed`).  A draw then falls to A, to B or to the rest, which is C's
share because of the sum, though the code never reads it.  A removal keeps
`SharesAreServed` because the client has checked that the type keeps a server or
has no share, where the model's count stands for the connected ones; a diversion
because it sends only to types that have one and no removal is under way.

**The server.**  `AppInv` says what every message of the current instant stands
for: a message to the server is a thread that is kept for a job (`ThreadInv`);
when a thread is free and jobs wait, a request for the next one is on its way
(`RequestInv`), hence work conservation once no message is left; the order of
the jobs in the messages, the queue and those to come is `OrderInv`, and
`OvertakeInv` is its stronger form without jobs that join.  `ThreadInv` counts
the threads that are kept, of which those over `maxThreads` have a job that
joined.  The view is then a matter of one step per handler.

**The monitor.**  `EntryInv` ties the busy flag to the server's running jobs
and `PhaseInv` says that both messages are due together except at their
instant, when the reading one is ahead.

**The scheduler.**  The invariant relates the control state to the sockets (a
connection is selected on only if there is one), the buffer to the notification
(bytes only while the notification is in the FES), and the wait to the clock
(what is left of a slice bounds how far simulated time may be ahead).  While a
notification is pending nothing is waited for, so no other client can be
accepted; that is the step relation `ReplyGoesToSender`.

**The accounting.**  A job that leaves unserved has waited longer than the
timeout, hence longer than the threshold, and the assertion is reached only
below it.  The invariant carries this from the queue to the sink and the
monitor.

**The revenue.**  The reports are sums over the jobs that have left, so the
invariant is about sums: `HistoryInv` says that a job that has left stays as it
was when it left, and `BooksInv` that each account is the sum over its jobs of
what they earned.  A job that leaves adds one term; a job that changes while it
is in the system changes none.

**The queues.**  `NetIsSound` needs two facts more to be inductive.  A server
has one job at most, counting the one on its way to it (`OneJobEach`), hence a
job finds it busy only when two came in one instant.  And the queue that
`roundRobin` serves next is known (`InTurn`): the turns before a queue that
waits fall with each service of another one, so that none is served twice in
between.

**The pools.**  `Sound` is a property of the state that the functions of the
model work on, so that it can be carried through the loop of
`resourceGranted`, whose rounds take jobs from queues, and each of which may
change what the next one finds.  One round keeps it (`MoreIs`), and the loop
keeps it by induction over its rounds.  A user of capacity 0 never has a job in
its queue, so that it is its grants, and no others, that find none; and a queue
that holds the resource has its flag set (`QueuesAllocated`), which is why no
release fails.

**The families.**  `FamilyOK` has one lemma per operation of a job:
construction, adoption, the destructor, a move.  The loops of `Fork`, `Clone` and `Join`
are folds over these; each is shown to be a recursive function on sets of
rounds that keeps what it has to (`ForkLoop`, `CloneLoop`, `DropLoop`).  The key
of `Join` is `HeldIs`: because the children are a list without repetitions, as
many sub-jobs held as there are children means that all of them are held, so
the parent leaves the Fork without any.  That a sub-job has its parent when it
reaches the `Join` (`Parented`) holds because a parent waits in the `Fork`, where
nothing deletes it.

**Loops and sums.**  The induction theorems of the library take an operator as
a parameter, which the provers cannot instantiate.  Induction over a *set* is
available: `FoldProofs` derives from `WFMin` that a set of numbers, or of subsets
of a finite set, that contains whatever it contains everything below of is all
of them (`NatInd`, `SubsetInduction`).  From it follow that the recursive
function behind `FoldLeft` exists and reaches what each of its steps allows
(`FoldExists`, `FoldReaches`), that it is the one `CHOOSE` finds (`SameFold`), and
the laws of sums over a finite set.  An induction is then a lemma about the set
of the rounds, or of the sets of jobs, for which the claim holds.

**The parts.**  A step of another part leaves the state of a part alone.  Each
of six parts has an invariant of its own, next to its property.  `Balanced`
says what the totals of a job lack: the time since the one of its two time
fields that the station it is in measures with, and the second count of a
`PassiveQueue`.  `FillsItsOwn` says that a process alone works on its directory,
that no row names it yet, and that what is in it follows from the step the
process has reached; so a row, written as the last step, names a whole one.
`OneBoot` and `Remembers` tie configuration, expected change, BootComplete and
the counts of the last instant to each other; the state of a sample then
follows by arithmetic on quotients (`PeriodsPassed`).  For the example manager
`ReadingHolds` says what is still true of counters read a while ago: a boot that
ends moves a server from one count to the other, so the servers of a type stay
as read while the active ones only grow, and a handler that sees no boot has the
exact counts (`KnowsEnough`).  `CommandIsSafe` then says of each command that is
still to be sent under which conditions it is safe when its turn comes: a
removal behind a diversion relies on the load of that diversion, a removal at
the head on the traffic itself.

**The conversation.**  `InterfaceInv` says how far the commands are done
(`DoneUpTo`): all before the first part that is still on the wire or in the
buffer.  `InOrder` ties what was executed to that number, and `Paired` the
replies: as long as none is an error, the replies to come are numbered from the
one the client reads next up to it.  The parts are those of the commands sent,
each whole or head before tail (`WellCut`), so the lines that `getline` finds are
consecutive commands, of which the first may be a rest and the last a head
(`LinesAre`), and the loop over them handles one command after the other
(`LineRound`, `HandleLoop`).  A rest is not taken for a command because its head
has been refused, except where only the newline is missing (`RestRefused`).  A
client that waits for each reply never finds two in what it reads, because the
second would belong to a command it has not sent.

**The arrivals.**  `ArrivalsInv` takes a source and the monitor together.  The
entries of a trace come at times that are sums of its gaps (`IsTrace`), and a
source only ever goes on with the trace it has (`Prolongs`).  Generation draws
until the end of the period is passed, which it reaches because each draw takes
time (`GenerateUntilIs`).  `BeganAt(p)` then says that the running period was
predicted from entry p on, and that what the monitor has measured since is what
the entries gone by since then give (`GoneBy`).  At the end of the period the
entries predicted and the entries gone by are the same (`AllPassed`), or differ
by the last one of the trace (`LastNotPassed`).

**Only model-checked.**  All liveness: `RemovalCompletes`, `BootTakesEffect`,
`EveryJobLeaves`, `BurstDrainCompletes`, `RequestsHandled` and the fairness of
`ImplementsPool` (liveness and ENABLED are beyond the prover).  Of the parts,
`WindowIsExact` is about what `SelectSeq` leaves of a sequence, of which the
prover has no definition, compared with a history of ticks; `EnvStartsClosest` is about a table
built with a sort of a sequence (`SortSeq`), of which the prover has no
definition; and `ServesByShares` holds where every service ends on a tick of the
clock, which the amounts of the instance ensure, so it is a claim about the
instance and not about every value of the constants.

## 5. What is not modelled

Parts that keep state or decide something, and are left out:

- Tactics (`managers/execution/*Tactic.cc`): objects whose `execute` calls one operation
  of the manager; nothing in `src/` creates them.
- `HPLoadBalancer`'s algorithms other than `probDist`: stubs, or not configured.
- `HPModel.cc` 480, `getPastInterarrivalRates`: its unsigned start index wraps
  for a short record, before an assertion that always holds; and
  `isServerBooting(type)` (387).  Neither is called.  The parts of `HPModel.cc`
  and of the scorer that are commented out (`HPModel.cc` 260-303, 323-352,
  566-697; `#if 0` in `UtilityScorer.cc`).
- `HPExecutionManagerModBase.cc:143`: an `ASSERT` with a side effect, in a
  function nobody calls.
- An initial configuration without a server of type A: the initial traffic
  goes to A (`HPModel.cc:383`), so that no server would be found.  The runs
  start with one, as `SwimExtention.ini` does.
- `putBackEvent` and `endRun` of the scheduler.
- `removeExpiredEvents` (`HPModel.cc:110`) as a change of the model: its one
  caller is `getActiveServerCountIn`, whose one call is in an `#if` that is off
  (`HPMonitor.cc:233`).  `BootClock` has what the call answers.
- A drain that overlaps an addition, beyond finding 1: the serial client, for
  which names, counts and factors are shown to agree, excludes it.

Nothing to check with TLC or TLAPS: the formulas of `MMcQueue` and `GMcQueue`
in floating point, and distributions (a draw is a choice); the generated
descriptors and the packing in `Job_m.cc`; text of logs, file names and info
strings; the client of HAProxy's socket; and the license headers, about a third
of the lines.

`EnvModel` and `SampleProblems` are code that nothing in `src/` calls: the
planner they belong to is not in the repository.  `SimProbe` is not in the
network.  They are modelled from their own code, under any order of calls that
their interface allows.

## 6. What could follow

1. `WindowIsExact` as a theorem, with the entries of a window as a set of
   signals, each with its instant, in place of a sequence.
2. The whole chain from the socket to the manager as one composition: the
   commands that `AdaptInterface` executes as the client of `ExecutionManager`.
   At present they meet only in `SimpleAM`.
