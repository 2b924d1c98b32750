# Verification of superdemo

TLA+ models of the parts of superdemo that keep state and act concurrently, TLC
configurations that check them on small instances, and TLAPS proofs of the
properties that matter most for every instance. Paths below are relative to the
repository root; `src/x` is the repository's own `src/` directory.

## 1. Inventory

superdemo is a demonstration of a trading system. Per region, a trade flows

    monkey --> trader --POST--> processor-out --Kafka--> processor-in --HTTP-->
      router --> recorder-java | recorder-go | recorder-go-zero --> postgresql | mysql
                        \--> notifier --> postgresql

with an HTTP load balancer (`elb`) in front, a web front end with a chat box, a
chat service that `monkey` calls as well, a log generator, and a Job that loads
the assets (workflows, agents, tools, detectors, dashboards) into Kibana and
Elasticsearch. Section 6 names what is not modelled.

| component | state it keeps | operations | hard behaviour | what makes it correct |
|---|---|---|---|---|
| processor-out (`src/processor`, roles `producer`) | the KafkaProducer's pending records | `POST /queue`, asynchronous send, callback | answers "NOTIFIED" before the broker has the record; a failed send is only logged; records live five minutes in the topic | an accepted trade reaches the log, unless a listed failure took it |
| processor-in (`Consumer.java`) | batch, position, group membership, wakeup flag | poll, relay each record over HTTP, commitSync, wakeup, close | crash or eviction between poll and commit, a failed relay in mid-batch, a wakeup at any call, `auto.offset.reset=latest` | never commits past a record whose fate is open; never repeats one without a new assignment; keeps going; stops when asked |
| router (`app.ts`) | per-service transaction counters | pick a recorder by flags, region or at random; proxy with a 5 s timeout | the timeout races the recorder's late answer | one recorder per call |
| recorder-java, recorder-go, recorder-go-zero | one database row per trade | insert (or JPA merge), notify, answer | overlapping calls for one trade; errors after the write; cancelled contexts | 200 only for a recorded trade; a notification failure does not undo that |
| notifier (`Program.cs`) | none | look the trade up, log it as sold | runs while the recorder's request is open | the lookup finds the trade |
| elb: accumulator (`metrics.go`) | ten counters under no common lock | RecordRequest, Snapshot | adds and swaps interleave | each request counted once per counter; targets never exceed requests |
| elb: pool (`backend.go`, `health.go`) | health flags, round-robin counter | Next, probe, store, count | flags are read one by one while they are stored | no pick staler than its call; a refusal saw every backend down; even shares; flags converge |
| elb: life cycle (`app.go`, `flusher.go`, `logbuffer.go`, `loadbalancer.go`) | log buffers, flushers, listeners, shutdown stage | request handling, ticks, bulk requests, shutdown | one shared deadline, final flush against late handlers, partial bulk failures | nothing dropped or sent twice; drained means flushed; a signalled process ends |
| monkey (`app.py`) | dozens of per-region and per-customer maps | REST switches; a generator thread that reads them | the thread checks a map and reads it later, iterates one while it grows, runs DELETE handlers itself; an exception ends it for good | a trade carries an error only if it was switched on for it; an expired switch goes; what ends the thread: a handler at work on the table it is in, between two of its accesses, a model error's bare record, a stranger's name, and nothing else |
| trader (`app.py`, `model.py`) | per-symbol moving averages | trade_request, trade, reset | shared by the threads of one process | `pop(0)` finds a value; the window keeps its size; a lone thread gets the exact average; an exception has a concurrent cause |
| chat (`src/chat/app`) | teams and clients made so far, the streams on its event loop | make a team, a key, a completion; stream its chunks | synchronous calls inside async generators, failures in mid-stream, callers that hang up, a crash | an error has a cause of its own time; every request ends |
| front end (`ChatBox.js`, `chatapi.js`) | the chat box: loading, which stream it awaits | submit, stop, leave the page and come back, parse a line | callbacks that throw, a connection cut before the last line, a request that outlives its box | an answer read to its end frees the box (it does not) |
| assets loader (`assets/app.py`) | none of its own; what it finds on the servers | list, search, delete, create, fetch and store, one call after the other | refused calls are passed over, a broken one ends the job, jobs overlap, other people edit the same agents | a load repairs what an earlier one broke; little is missing at a time; foreign entries survive |
| logen, install scripts, remote, dockerhost, logstashui, mattermost and wiki.js set-up | none, or none shared | emit, install, run | - | - |

Components interact by HTTP calls (synchronous, with timeouts at the router),
by the Kafka topic `trades-$REGION` (at-least-once at best), by the two
databases, and inside `elb` and `monkey` by shared memory between threads.

## 2. Modules

| module | models | correspondence |
|---|---|---|
| `Processor` | processor-out, the partition and its group, processor-in | `pc` is where the thread stands in `Consumer.run`; one action per call into the KafkaConsumer, split at `httpNotify` (`RelayStart`, `RelayReturn`); what poll, commitSync and close do to membership, position and commit is Kafka's documented behaviour under the properties set at `Consumer.java:52-67` |
| `Delivery` | the abstract promise of a log and its group: publish, deliver, drop, settle | `Processor!D` maps settled to the committed offset, delivered to the offsets whose `httpNotify` returned, dropped to those a failed batch or a reset passed over |
| `Recorders` | router, the three recorders, both databases, the notifier | `call[c]` is one proxied request: its stage, recorder, error and status, and whether the router still waits |
| `TradePath` | `Processor` and `Recorders` composed | both modules are instantiated over the same variables; `Send` joins `RelayStart` to `Route`, `Answered` and `TimedOut` join the answer to `RelayReturn`; `Kill` leaves the call behind |
| `ElbMetrics` | `RecordRequest` against `Snapshot` | one action per shared access; a counter is the set of requests it has counted |
| `ElbPool` | flags, `Next`, the checker, the host counts | `Healthy()` is a scan (`Enter`, `Load`, `Choose`/`Refuse`), the checker a probe and a store |
| `ElbLifecycle` | handlers, buffers, both flushers, `App.Run` | a metric snapshot is one step here; `ElbMetrics` has its inside |
| `Monkey` | the switches of one region, the thread `generate_trade_requests` | `at`/`doing` say which table the thread is asking and how far it is (looked, found, expiring, iterating, drawing); a REST handler is the sequence of its accesses (`Programs`), each a step, and so is the DELETE handler that the thread runs itself (`todo[0]`); a KeyError or RuntimeError of the thread is `Die`, of a handler the end of its sequence |
| `Assets` | the Job of the assets loader, Kibana and Elasticsearch as its calls see them, other people's edits | `job[j]` is a job: its action, the loader (a directory), the file and the call it makes next; `Loader(dir, first)` gives each `load_*` function its directory and first call, `main` the order in which an action runs them; one action per HTTP call, with `ok = FALSE` for a refused one that the code prints and passes over; `Die` for every exception and for a killed pod |
| `Chat` | the chat service's event loop, its model gateway, the chat box, the monkey's chat thread | `req[i]` is one request: where the service is with it, what it has yielded, whether the caller still listens, how many lines the box has parsed; `loop` is the stream that holds the event loop between two yields; `make_team`, `make_client`, `Create`, `Chunk` are the calls of `openai_client.py`; `Read` is a line in `streamChat`; `Reopen` leaves `/chat` and comes back, to a new box |
| `Trader` | `/trade/request`, `/reset`, one symbol's `StreamingMovingAverage` | `pc[h]` is where a server thread is between two calls; averages live in a heap, because a reset drops one that threads still hold |
| `ProcessorProofs`, `RecordersProofs`, `TradePathProofs`, `ElbLifecycleProofs`, `ChatProofs`, `AssetsProofs` | the theorems, each about the module it is named after | section 5 |
| `ElbProofs` | the theorems about one load balancer, `ElbPool` and `ElbMetrics` | section 5 |
| `TraderProofs` | the theorems about `Trader` and about its client, `Monkey` | section 5 |

`ElbMetrics` and `Monkey` name their `Init`, `Next` and `Spec` after themselves, so that
one proof module can extend each of them beside another.

`MC*` modules give the symmetry sets and the constants that need a definition.
Operators named `Mut...` are faulty variants of a definition: each shows that a
checked property notices a plausible mistake in the code, and none is used by a
specification.

Data is abstracted to what the properties tell apart: a trade is a model value
(its uuid), refused or not by the tables' CHECKs; a request is its outcome
class; flags of the router become the set of services a trade may be sent to; an
object on a server is the file it was made from and the job that made it; an
agent's lists become how often it lists each tool and skill; an answer of the
chat service is the number of its lines and whether one of them is an error.

What is external is modelled from how the code uses it, Kafka as said above.
Kibana refuses to create what has the id of an object that exists (tools, skills,
agents, detectors), makes another object for what has none (workflows,
synthetics, rules), answers a search with at most a page, and forgets a tool in
all agents' lists when it is deleted with `force`. The model gateway refuses a
team that exists and makes no key for a team it does not have.

## 3. Runs

| run | bounds | shows |
|---|---|---|
| `processor` | 3 trades, polls of 1-2 records, 2 upsets | the commit is honest, moves only forward, repeats need a new assignment; `Delivery` is implemented; every record settles unless the thread died in poll |
| `processor_shutdown` | 2 trades, 1 upset | violation: a wakeup that lands in `commitSync` is taken by the inner catch, so the process never ends |
| `recorders_panic` | 2 overlapping calls of any callers, 3 kinds of trade, 2 sends each, 1 fault | violation: `recorder-go` panics in `defer res.Body.Close()` when the notifier fails |
| `tradepath` | a trade for either of two recorders, one for the canary and a refused one, polls of 1-2 records, 1 upset, 1 fault, 2 calls | a committed trade is recorded or visibly given up; a 200 means a row, whatever failed; the notifier finds the trade it is asked about; rows in both databases need a second assignment; what a refused trade alone takes down with it stays within its poll |
| `elbmetrics` | 2 requests, all outcomes, unboundedly many windows | each counter counts each request once; targets never ahead |
| `elbpool` | 2 backends, 2 requests, 1 change | a pick is as fresh as its call; a refusal saw every backend down at some time in it; even shares; flags converge |
| `elblifecycle` | 2 servers, one request each | every document is in one place; drained means flushed; the process ends; logs are flushed |
| `monkey` | 2 customers, a stranger's name, 2 calls | no trade carries an error, flag or skew that was not switched on for it; what ends the thread; expired oneshot switches go |
| `assets` | 9 files and two agents of Kibana's own, one without a file; 2 jobs, full loads or loads of the skills; pages of 1; 1 fault | an undisturbed load leaves what the files ask for, whatever the one before left; of the names ever loaded no more are missing than calls failed or are between delete and create; a foreign entry is lost only between a fetch and its store |
| `chat` | the box and 2 customers of one region, 3 requests, 1 chunk, 1 fault | a request fails only for a fault of its own time or a team refused before; every request ends |
| `chat_callbacks` | one request of the box, 1 chunk, no fault | violation: `streamChat` gets the model's name for its callbacks, so the box is still loading when its answer has been read to the end |
| `trader` | 3 threads, a window of 2, 4 requests, 1 reset | the window holds, is emptied only by a crowd, a lone thread's average is exact, exceptions have a cause |

Why the bounds are enough. In `Processor` two upsets allow every pair of
failures in either order (a lost commit and then a kill; an eviction during a
relay and a retention), and three records with polls of two give a batch in the
middle of which a relay fails, with a record before and one after it. `Upset`
counts crashes, evictions, broker errors, lost sends, retention and SIGTERM;
nothing else is bounded there but the number of trades. In `Recorders` a trade's
hazards come from two calls at once, which is the number of calls: one that
processor-in waits for and one it has left behind. `MaxRoutes` bounds how often
the caller repeats a trade and is never reached in `TradePath`. Callers that wait
for several calls at once are in the theorems of `RecordersProofs` only.
In the `elb` modules two handlers against one flusher, or one checker against
one scan of two flags, already produce each order of two accesses to a shared
word; more requests repeat them. `ElbPool`'s `MaxChanges` bounds how often
backends go up and down; initially any subset may be down, so one change on top
lets a flag go wrong in both directions. In `Monkey` one call sets a table and a
second takes it away, resets it or lets it grow, at every access of the thread's
turn and between each other's; a second customer shows that tables are kept apart
and is the one that a POST adds while the thread iterates. In `Trader` three threads are more
than a window of two, so a crowd that empties it is among the behaviours, and
the fourth request meets what it left behind; the real window is five and the
server has no limit of threads.

In `Assets` the nine files take each first call once: a plain put (dashboard), a
POST under an id of the file's choosing with two calls after it (detector), a
POST that makes another object at every load (rule), a search by name (workflow,
synthetic), a forced delete (tool), a delete that is refused when there is nothing
(skill, own agent), and agents that exist without the loader: `builtin`, whose
file updates it, and `assistant`, which no file loads and to which the skill is
added, as the profile `o11y--course--field--elasticon-2026` adds its skills to
`elastic-ai-agent` and loads no agents. Directories that make the same calls are
not repeated. A page of one is exceeded by what a refused delete leaves beside the new
object, as the real page of fifty is by more than fifty objects; two different names in one
search, and so a page that shows the wrong one, are left to the proofs. One job
breaks anywhere, the other one repairs it or runs into it. In `Chat` one refused
team, broken call or crash meets a request before it, one beside it and one
after it; one chunk gives a stream two turns on the loop and a place to be cut
off between them.

`CHECK_DEADLOCK FALSE` stands in the runs of systems that really may stop: all
trades sent and the consumer closed, all calls answered, the process exited, the
jobs done.
`ElbMetrics` has no such state, its flusher runs for ever, and it is checked for
deadlock.

## 4. Fairness

* `Processor`: the thread's next step is taken (weak fairness of `Thread`), the
  relay in flight ends, because the router times out after 5 s or the connection
  breaks, and `poll` does not return empty for ever while records wait (strong
  fairness of `PollRecords`: a long poll of 100 ms in a loop). Kills, failures
  and SIGTERMs are never forced. That the pod is restarted is part of `Thread`
  (`Start`): Kubernetes restarts it.
* `ElbPool`: the checker's goroutine runs, its probes end (they have a timeout),
  its ticker fires.
* `ElbLifecycle`: `App.Run` and the flushers run, the shutdown timer fires, a
  bulk request ends (the client has a timeout), and a select with a cancelled
  context does not prefer the ticker for ever. No request has to end.
* `Monkey`: the thread runs, a customer who can be drawn again and again
  sometimes is, and high throughput of a customer, a matter of chance at every
  turn (`random.randint`), sometimes lets the next turn go to anyone.

* `Chat`: every step of the service on a request that can be taken for good is
  taken (weak fairness of `Serve(i)`): asyncio resumes a ready generator in turn,
  and the gateway answers or breaks the call. The last is an assumption about the
  gateway: `requests.post` is called without a timeout there
  (`openai_client.py`), so a gateway that never answers holds the whole loop.
  Nobody has to ask, to read or to hang up.

`TradePath`, `ElbMetrics`, `Assets` and `Trader` are checked without fairness.
`ReadOutFreesBox` is an invariant and needs none. The loader calls without a timeout, so nothing makes a job end.

## 5. Proofs

`ProcessorProofs`, from `ProcessorAssumption` (finitely many trades, polls of at
least one record), for every such instance:

* `TypeCorrect`, `CommitIsHonest`, `NoRepeatWithoutRejoin`. The commit property
  is not inductive: `commitSync` commits the *position*, so the induction needs
  that everything below the position is accounted for except the open batch
  (`PositionAccounted`), and that the open batch ends right before the position
  and lies above the commit (`BatchShape`). The number of sends needs
  `UnsentAhead`: what this membership still has to send was sent in earlier
  memberships only. `IInv` is the conjunction; `TypeStep`, `BatchStep`,
  `AccountedStep` and `SentStep` prove one conjunct group each, action by action.
* `CommitMovesForward`: an action property from the same invariant.
* `ConsumerImplementsDelivery`: the refinement. `RelayReturn` delivers or drops,
  a reset drops, a successful commit settles (or stutters), an acknowledgement
  publishes, everything else stutters.

`RecordersProofs`, for any number of calls, callers, trades, sends and faults. Its
theorems have `RecordersAssumption` (every trade may be sent to at least one
recorder) as a hypothesis, which `TradePathAssumption` implies (`ConstantsFit`):

* `TypeCorrect`, `OkIsRecorded`, `NotifierFinds`. `OkMeansRecorded` speaks of
  answers and is not inductive. `CallsAreGood` says what a call may rely on at
  every stage: a merge that found a row finds it again, the notifier is called for
  a recorded trade unless a Go recorder kept an error on the way, and a 200 is on
  its way only for a recorded one. `RowsAreAllowed` (no refused trade has a row)
  and the fact that tables only grow (`RowsGrow`) carry the other calls.
* `OneRouteOneDatabase`, from a second invariant: every row, and every call under
  way, stands for a route of its trade (`Traced`), so a trade routed once has rows
  in one database at most. The path needs it.

`TradePathProofs`, from `TradePathAssumption` (the two modules' assumptions, and
that `None` is no call):

* `ImplementsParts`: every step of the path is a step or a stutter of `Processor`
  and one of `Recorders`. So their theorems hold of the path, and `PartsKnown`
  collects what is used of them. It also shows that the composition restricts the
  two modules and invents no behaviour of either.
* `AnswersHold`: the recorders' two properties, by `ImplementsParts`.
* `TypeCorrect`, `CommittedIsRecorded`, `TwoRowsNeedTwoJoins` and
  `CollateralIsBounded`, from an invariant of the seam, `Own`: the thread waits for
  one call, for the trade it relays (`AwaitsOne`); what was relayed with success is
  recorded (`RelayedIsRecorded`); the log and the producer's buffer hold every
  trade once (`NoTradeTwice`, so the log is never longer than there are trades);
  the router sees a trade no more often than the consumer sends it
  (`RoutedIsSent`); and what is left of a batch in mid-relay is shorter than a poll
  (`ShortBatch`). `CommittedIsRecorded` then joins `CommitIsHonest` of the one part
  to `OkIsRecorded` of the other; `TwoRowsNeedTwoJoins` joins `OneRouteOneDatabase`
  to the number of sends per membership.

`ElbProofs` on `ElbPool`, from `PoolAssumption` (at least one backend, finitely
many requests, because the counter is compared with a number of picks):

* `TypeCorrect`, `PickIsFresh`, `RefusalIsFresh`. `PicksAreGood` follows a scan:
  each flag it has read was so at some time since the call entered, and the
  history it is judged by covers the flags as they are now.
* `RoundRobin`. The counter is the number of picks (`CounterIsPicks`); while all
  flags are up every scan sees all backends (`SteadyIsGood`), so the picks are `q`
  full rounds and a begun one (`RoundsAreEven`), with the arithmetic of `%` in
  lemmas of its own.

`ElbLifecycleProofs`, from `LifecycleAssumption`, for any number of servers and
requests: `TypeCorrect`, `NoneDroppedOrDoubled`, `ShutdownFlushes`. The last needs
the order of the shutdown written out: servers close in turn and a server is
closed only when no handler of it can still leave a document (`ClosedInOrder`,
`ClosedAreDrained`), the final flush empties the buffers it has passed
(`FinalFlushEmpties`), and the process exits after both final flushes returned
(`ExitAfterFlush`). `Sorted` keeps a document in its own load balancer's buffer.

`ElbProofs` on `ElbMetrics`, for every set of requests: `MetricsTypeCorrect`, `CountedOnce`,
`TargetsBehindRequests`. The strengthening says that counters not yet read are
empty in the snapshot (`NotYetTaken`, which rests on the swap order being
injective), that only answered requests reach the mutex, and what holds between
the two reads that the property skips (`TargetsCovered`).

`TraderProofs` on `Trader`, for every finite set of threads, every window, every set of
prices and any number of requests and resets:

* `TypeCorrect` and `WindowIsBounded` come from one inductive invariant, types
  and bounds together: `pop(0)` keeps the type of the window only because the
  lower bound counts the thread that pops, and every append is followed by at
  most one pop of the same thread.
* `OnlyACrowdEmpties` needs more. While some thread is about to pop, the window
  has values for all that may pop and for `W + 1 - crowd` more, where `crowd` is
  the most threads that were in `process()` of this average at once
  (`CrowdCounted`): a thread finds more than `W` values when it decides to pop,
  and only those that were inside at that moment pop without appending again.
* `ExceptionsHaveACause`. A request ends in a KeyError only if a reset fell into it,
  and in a ZeroDivisionError only if another request was in the model with it or a
  crowd larger than the window had emptied the list. `Causes` says what a thread at each
  line may have missed: that requests met on the way overlap (`Overlap`), that a
  reset seen by a thread falls into its request (`ResetSeen`), and where the thread
  that put the first average of a symbol stands while others find it unfinished
  (`FirstIsOnItsWay`, `FirstIsMet`, `OwnIsGiven`).
* `AloneTheAverageIsRight`. `AloneStands` says, for an average of which `crowd` is at
  most one, where the only thread in `process()` stands: `Stands(a, n, sum)` has the
  window equal to the last `n` prices given, or to all of them while they are fewer,
  and `sum` equal to their sum. While the thread is between two of its changes,
  `AloneOf` names what is missing: the price to add, the value to pop, the sum to store.
  `SumOf` is a recursive function, and what it yields for every sequence needs an
  induction. The library's induction theorems take an operator and cannot be cited
  here, so `SetInduction` states induction for a *set* of numbers and is proved from
  the well-foundedness of finite sets under inclusion; `SumOfAppend` and `SumOfTail`
  follow from it.

`ChatProofs`, for any callers and regions, any length of an answer and any number
of requests and faults:

* `FailuresHaveACause`. What is needed beside the property: a team the process
  takes for made is at the gateway or was refused to it (`TeamsAccounted`, the
  trace of `make_team`'s ignored status), and faults only grow (`AskedBefore`).
* `TypeCorrect`, with `BoxAwaits`: the request a loading box awaits is one of its
  own that it has not left, also after the page was left and a new box mounted.

`TraderProofs` on `Monkey`, from `MonkeyAssumption`, for any customers, any other
names and any number of calls:

* `ErrorsAreOn`. A trade carries its errors from one drawing to the next, so the
  property alone is not inductive: `SettledAreArmed` says that of the kinds the
  thread has dealt with in this drawing (`Before`) the trade has only such as were
  switched on during it, and `ArmedIsNoted` that whatever is on in the tables now
  has been noted.
* `DeathIsCaused`. Handlers and the thread make one access at a time. The thread dies
  at an access to an entry that was there when it looked, so `FoundIsThere` says that
  what it is using is still there unless a handler has touched it since, that
  there is a key to choose, and that the table it iterates over has
  not grown. `OwnIsGood` describes the DELETE handler that the thread runs itself:
  a test, and a "del" only of what the test found; so its own deletions, of keys
  that others may have taken away long before, do not end it. `BareIsModel` keeps the
  record without a `oneshot` where it belongs, and `UsingIsNext` and `PlaceIsGood` tie what
  the thread is using to the place it is at.

`AssetsProofs`, from `AssetsAssumption` (finitely many files, only Kibana's own agents
are added to, whether or not a file of theirs is loaded) and `ProgramsAssumption` (the programs are actions of `main`), for any
number of jobs, any page size and any faults:

* `ForeignSurvives`, with `HeldIsGiven`: the copy of an agent's lists that a job is
  about to store has what was given before the copy was made.
* `OneIsMissing`. That no more names are missing than faults and jobs between
  DELETE and POST is not inductive, because it does not say which name is missing
  for which reason. `MissingAreAccounted` does: there is a set of at most `faults`
  names such that every missing name is in it or is the one that a job in between is
  about to make. A refused call or a death moves its job's name into the set.
  `JobIsGood` ties what a search found to the name of the file it was made for.
* `TypesHold`. That an agent lists a tool no oftener than there are jobs and once
  more is the hard part: lists grow by what a job holds in its copy. `ListsAreShort` bounds
  each list and each copy by one more than the number of jobs that have that tool *behind* them
  (`Behind`, `Ahead`): a job that stores the agent with the tool once more has passed it
  by that step and never comes to it again, because no action goes to a directory twice
  (`DirsAreApart`) and no file is taken up twice (`FileIsNotComing`, `GoesOn`).
* `LoadIsComplete`. `LoadGoesWell` annotates the program: of an undisturbed load
  that is under way, every file it is past is as the load is to leave it
  (`PastIsDone`, `FileIsDone`), names that are searched for are there once as soon as it
  is at a file of another name (`NameIsThere`), and for the file in hand it has,
  at each call, what the calls before it made (`InHand`). `Framed` is the frame: a call for one
  file touches no other file's object, except those of its name, and adds to the lists
  only that file or only on that agent; so what is done stands (`DoneStands`,
  `NamesStand`). This rests on the order of `main` (`LoadInOrder`, `PlaceInLoad`):
  workflows before the tools that call them, tools and skills before the agents that
  list them, so that storing a shared agent at last finds each of them already on it.
  For an agent that no file loads nothing makes the list a set again: there a skill
  is at least once, and no oftener than `TypesHold` allows.
  Further, a load that was not disturbed was alone (`OrderInvariant`), an id of
  the file's choosing is there once, and an agent lists nothing it was not to be given
  (`KeepsInvariant`). One lemma for each call (`PutWell` to `GearSetWell`) proves the step.

Each of these invariants was an invariant of a TLC run before it was proved: the
larger ones (`Own`, `Causes`, `MissingAreAccounted`, `AloneStands`) over the instances
of section 3, several million states each; `LoadGoesWell` and `ListsAreShort` over those
of `assets` in full with the jobs one after the other, and in part beside each other.

Every invariant and every action property of the passing runs is proved. Only
model-checked:

* All liveness: `EveryRecordSettles`, `FlagsConverge`, `SignalledEnds`,
  `LoggedIsFlushed`, `OneshotEnds`, `EveryRequestEnds`. Fairness and `ENABLED` are
  beyond TLAPS.

## 6. Limits

* `ElbMetrics` and `ElbLifecycle` take a handler to record its request once.
  A proxied protocol upgrade (101) that then fails records it a second time, in
  `ModifyResponse` and in `ErrorHandler`; it is left out, and with it the
  properties speak of ordinary requests.
* The KafkaConsumer is modelled with one partition per topic and one consumer
  per group, as deployed; an eviction stands for every loss of the partition.
* `Monkey` takes every access to a table for a step, as any interpreter may. CPython
  3.12, which the Dockerfile pins, changes threads at calls, function entries and
  backward jumps only; a test and an index or "del" with no call between them
  (`app.py:304-305`, `339-340`, `510-511`, `557-558`) cannot be parted there, so the model has
  behaviours that this build has not. What holds of the model holds of both.
* `Monkey` leaves out `DELETE /err/ua`, which fails before it changes anything
  because the route passes no browser, `/simulation/start`, training and the pool of
  workers that send the trades; the chat thread is a caller in `Chat`. One market skew
  stands for those of a symbol. `HIGH_TPUT_PCT` and the errors' amounts are
  chance; a browser's customers are any non-empty set of them.
* `Trader` relies on CPython 3.12 changing threads at calls and function entries
  only, as its Dockerfile pins it; a build that could change threads inside
  `self.sum += value` would lose more updates. One symbol is modelled: averages of
  different symbols share nothing but the reset.
* recorder-java's artificial garbage-collection delay and the latency options of
  the recorders only stretch time, which the models leave open anyway.
* `Assets` takes the files a profile enables (`check_if_enabled`) and their
  expansion (`substitute`) as the constant `Files`; a file that gives several
  bodies counts as several. What is inside a body is left out but for names, tags
  and the lists that tie assets together. The backup actions only read. A load is
  cut off between two calls only: a call of another job or person comes before or
  after it.
* `UndisturbedLoadIsComplete` speaks of a full load alone. After a `load_workflows` by
  itself the tools still call the workflows it has deleted, and once a search's page is
  full old objects stay beside new ones: both are in the model, and excluded by the
  property, because the code does nothing about them.
* `Chat` has one turn of a conversation: what is said, the markdown and the saved
  history change nothing the properties speak of. The callers' regions are a
  constant; the run has both customers in one region, where they share a team.

Not modelled, and why:

* logen: the image starts it under flask, which imports the module and never
  calls its `main()`, so none of its threads exists and its endpoints find nothing
  they could change.
* remote, dockerhost, logstashui: each request runs one command or one call.
* install scripts, mattermost and wiki.js set-up: external commands and REST
  calls in a fixed order, against servers that are not part of the repository.
* elb's configuration and document layout, start-up of telemetry, string
  formatting, `lib/java/sqlcommenter`: pure functions without state.
* the front end's forms: each posts one of the switches that `Monkey` models.

Seen in the code while modelling, without a run of their own:

* A oneshot request error never ends: at its timeout `src/monkey/app.py:313`
  hands the customer to a handler that expects a browser. A model error's record
  has no `oneshot`, so that line 298 ends the thread; `DeathHasACause` counts it
  among the causes. The same handler iterates over the customers (line 584) and ends
  the thread if a POST adds one meanwhile.
* Nothing guards monkey's tables: a DELETE or a reset between two accesses of the
  thread ends it, and so does the name of another region's customer in high
  throughput. These are causes that `DeathHasACause` permits.
* `assets/app.py:431` runs a workflow with the tag `superdemo-authrun`, the
  files have `superdemo-autorun` (`com-example-setup.yaml:7`,
  `fis-automation-1.yaml:23`): no file's workflow is ever run by a load. The run
  `assets` gives its workflow the tag the code asks for.
* `assets/app.py:391` reads `remote_host`, which nothing defines; a workflow
  with that constant would end the job.
* Rules are posted anew by every load, without a search for the old ones: the
  objects of earlier loads stay beside the new ones.
* Leaving `/chat` does not abort the stream of its box (`ChatBox.js` has no
  `componentWillUnmount`): the request is read on for a box that is gone, and holds
  the service's loop in its turns. Coming back is, beside Stop, the only way to a free box.
* The chat service answers 200 whatever happens and puts errors into the body;
  monkey's chat thread looks at the status only.

## 7. Status

All modules of section 2 are modelled and checked, and all their safety properties are proved.
What could follow:

1. Delivery from monkey to processor-out: the trade that the producer answered for and
   whose send then fails (`Producer.java:79`) is in `Processor` as a lost send, and no
   property speaks of it, because the code promises nothing about it.
2. The parts of section 6 that keep state of their own and are left out: the
   protocol upgrades of elb.
3. Liveness without TLC: the temporal properties are as far as the instances of
   section 3 go.
