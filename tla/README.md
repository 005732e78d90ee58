# HAT: models, checks and proofs

TLA+ specifications of the agents of HAT, the house automation system in
`src/agents`. They are written from the code; where a comment or the paper
`src/docs/HAT-Architecture.pdf` says something else, a run shows the difference.

## 1. The system

A HAT installation is a set of *agents*, processes on small boards. Every agent
is built on `minilibs`: a set of threads that communicate through message
queues. A thread publishes with `SubjectSet::notify(type, subtype)`; the queues
of the threads that observe this subject get the message. Agents find each
other by multicast and forward messages over HTTP. An agent may have copies on
several hosts, of which one should serve.

| Part | State | Operations | Talks to | What is hard | What makes it correct |
|---|---|---|---|---|---|
| `MMessageQueue` | vector, mutex, condition, limit | send, receive, purge | every thread | a wake-up missed or without reason, a full queue | nothing lost, doubled or overtaken |
| `RpcWaitTable` | tags, pending entries with queues | callRegister, signal, checkTimeOut, wait | HTTP threads, devices, trigger | late and double answers, reuse of tags, time read before the lock | each caller gets the answer or the timeout of its own call, and gets one |
| `SubjectSet` | subjects with their observers, status of the agent | add/remove observer, notify | all | drops everything while the agent is OFF | handlers survive a half delivered series |
| `Timer` | timed conditions | wait set, wait reset, poll | devices | pending conditions of earlier commands | an output with a duration goes back |
| `BinaryOutput`, GPIO thread | value, file; level, file | command, wait end, setCurrentValue | Timer, SubjectSet | a stop between any two calls, restart | relay, file and timer agree with the device |
| `BinaryInput`, GPIO watcher | value, table of delayed events | edge, setstatus, wait end | Timer, SubjectSet | bounces, keys of one second, ends and changes that cross | the last change is the last one announced |
| `TriStateOutput` | status, file, two buttons | command, button, wait end | the same | two relays by two messages | never both relays closed |
| `AgentNet`, own name | myinfo, AgentConf::status, its file | send_status, recv_status, setStatus | the copies | two threads without a lock, lost datagrams, crashes | one copy serves, control migrates |
| `AgentNet`, other names | foreign_agents, tcp_observers | update, check_expired, (dis)activateObserverTCP | peers, SubjectSet | peers that change, vanish and come back | one served observer per known peer |
| Rule engine (Manager) | counters, delay queues, conditions, rules | trigger, event, prgstatus, commands | devices, programme and action engine | time, edges, uninitialised flags, several rules at once | rules fire when and only when they should, and all their actions are sent |
| Programme engine (Manager) | CURRENTP, SWAPPEDOUT, programme in force | setprogram, prgupdate | rule and action engine | crash between file operations, a file that cannot be written, dropped announcements | an acknowledged programme is kept, the rules know it |
| Action engine (Manager) | status of the actions | setactions, rlcmd | rule engine, devices | stale status | only actions that are ON are commanded |
| Timed rules (Manager) | active, validity, status | trigger, prgstatus, commands | programme and action engine | midnight, restart inside a window | each rule switches once per window |
| Push service (WSServer) | vector of connections, two mutexes, sockets | accept and register, poll, notifyEvent, drop | TCP clients, SubjectSet | three threads, each with another mutex; descriptors that come back; answers out of step; accept and read that fail unnoticed | each event once to each registered client, nobody who answers dropped, nobody gone kept |
| `PwrControl` | modes, loads, priorities, meter | reading, command, checkalignement | meter, outputs | an open loop: lost commands, late readings, loads learned from differences | overloads are shed, switching settles |
| `FSMDevice` | state, conditions | event, wait end | Timer, devices | tables from a file | transitions as written |
| `ArchiveManager` | directories | register, rotation | HTTP | limits | no event is lost early |
| Other parts of WSServer, NetDevices, MDetector, Player, loggers, tools | registries, device tables | HTTP, polling | the agents | remote failures | see `PROJECT.json` |

`PROJECT.json` lists every part with what is modelled of it, the lines behind
every definition, and the hazards of the code with the properties that cover
them.

## 2. Modules

| Module | Models | State and actions |
|---|---|---|
| `MMessageQueue` | the vector operations of `MMessageQueue.h` | operators `Enqueue`, `Purge`, `Received`, `Remaining` |
| `MessageQueue` | a queue between senders and one receiver | `Send`; `ReceiveNow`, or `ReceiveWait` and `Resume`, because `cond.wait` releases the mutex; `SpuriousWakeup` |
| `RpcCall` | what a synchronous command promises | a call is open, settled once, returned |
| `RpcWaitTable` | `/cmdw` with the table, the devices and the trigger thread | one action per critical section: `callRegister`, `notify`, `getEntry`, `receive`, `clearEntry`; `signal`, `checkTimeOutRead` (the clock, before the lock) and `checkTimeOut` |
| `Timer` | `Timer.cpp`, its conditions | operators |
| `TimedOutput` | `BinaryOutput` and `BinaryInput` in `VrtDevices`, `Timer`, GPIO threads, files | a handler is a list `todo` of calls still to make, and `due` the ends `Timer` has still to send; any thread, a switch of the agent or a restart may come between two of them |
| `TriStateOutput` | a shutter in the same surroundings | the same form |
| `NetPeriods` | what the next two share | `validityTime` and the count of lost datagrams; `AgentNetProofs` is about both, so their definitions have distinct names |
| `AgentTwins` | copies of one agent | every read and write of `myinfo` and `AgentConf::status` by the two network threads is a step |
| `AgentNet` | the peers of one agent | the steps of `update`, `check_expired` and `disactivateObserverTCP`, the dispatcher threads (`wait`, `dispatch`, `interrupted`), `notify` by other threads |
| `RuleEngine` | `RuleEngine::do_work` and what it calls | one action per kind of message; the thread shares nothing while it handles one |
| `ManagerAgent` | programme engine, a timed rule and the action engine of one manager, composed through their queues | a message received per thread; `setprogram` file operation by file operation, with a crash, a switch of the agent or a failure of the file system (`DiskFails`) between any two |
| `PushService` | the three threads of the push service and its clients | one action per critical section, write or read, each with its failure: `AcceptFails` puts a connection with descriptor -1 in the vector, a failed `read` gives any line or `Overrun`, which kills the process; `peer` says whose socket a descriptor is |
| `PowerControl` | the Controller thread with meter, loads and client | one action per kind of message; delivery of its commands, time |

`MC...` modules only give values to constants. `...Proofs` modules hold the
theorems.

The models compose by what one shows the next may assume: `RpcWaitTable` takes
queues as first-in first-out (`NoOvertaking` of `MessageQueue` for equal
priorities); `TimedOutput`, `TriStateOutput` and `ManagerAgent` take the
switches of the status from what `AgentTwins` does to it; `RuleEngine` takes any
sequence of programme announcements, which `ManagerAgent` produces.

Definitions whose comment begins with "Mutant" are plausible bugs, kept to show
that a property can fail.

## 3. Runs

| Run | Question | Answer |
|---|---|---|
| `queue` | five messages of mixed priority, limit 3, spurious wake-ups | nothing lost but what purge erases, nothing doubled or overtaken; what is kept is received |
| `rpc` | 2 threads, 3 calls, 2 tags, devices that answer or not, agent ON or OFF | own answer, entry present, no leak; every call returns; the table implements `RpcCall` |
| `timed_output` | 2 outputs, or an output and an input; 1 switch, 1 restart | relay and file follow the output; if the agent is ON again and again, it goes back to its default unless its timer was lost, and the last change of the input is the last announced |
| `tristate` | 2 inputs, 1 switch, 1 restart | relays never both closed, they follow the device; the motor stops |
| `twins` | 3 copies, 2 crashes, 2 losses | the greatest ip serves; being ON beside a greater copy that is heard lasts at most a period; then the lesser copies stand by |
| `twins_migrate` | 2 copies | **violated**: a race leaves a copy OFF for ever, finding 1 |
| `net` | a peer with 2 addresses, 2 subjects, 2 changes, 1 loss, 3 observers, 1 event | table, observers and SubjectSet agree; what is queued is sent, also after `stop()`, unless the dispatcher dies waiting; silent is dropped, running is connected |
| `rules` | 2 counters, one delayed, 7 units of time; or a rule on the start of the night and a cyclic one, 5 units, 1 restart | leaky bucket, delays over a change of programme, history; rules without events fire when their conditions begin to hold |
| `rule_actions` | two rules on one event | **violated**: the second overwrites the first, finding 2 |
| `manager` | 5 installations, one with a disk that fails, 2 commands, 1 crash or switch, days without end | if every file could be written, an acknowledged programme survives a crash and the one put aside comes back; the rules know the programme in force; if the agent is ON again and again they catch up and a timed rule acts every day |
| `push` | 2 clients, 2 descriptors, 1 registration, 1 event, failing accepts and reads | no event to a wrong socket, twice or past a registered client; who answers stays; while the process lives, who is gone is dropped and there is no lock-up |
| `power` | 2 loads, a changing base, one command, loss, late reading and restart, a latency below the period of the alignment | an overload is shed, switching settles, relays follow the modes |

**Bounds.** All are constants of the modules. Two tags and three calls make a
tag come round while an older call is alive; more calls repeat this. `rpc`
lets a device answer a call once, which with the timeout makes two messages
for one wait; a device that answers more often is covered by the theorems.
`TagWindow` keeps the number of calls during the life of one below
`MAXTAG + 1`: with the values of the code (20 s, a million) it leaves out
50 000 calls a second. In `timed_output` two outputs and three commands let a
command meet the pending condition of an earlier one and of another device;
three or four edges with a delay of one second, a duration of two and a
debounce of one or none make an end cross a change, a key come twice and an
edge be ignored. Two inputs move a shutter and reverse or stop it, or let a
second command meet the timeout of the first, with a switch and a restart
anywhere between; for longer series the interlock is proved. Three copies are
needed for a copy that is greater than one and less than another. Two changes
and three observers let a peer be dropped and come back with another address;
an event meets a dispatcher that is stopped while it sends or waits.
Seven units of time let events age out of histories of length 2 and pass a
delay of 2 in several orders, and with `MAXDELAYQSZ` of 1 the delay queue fills.
In `manager` a day has four units, of which the last is the minute after
23:59:00, so that windows end at midnight and wrap over it; two commands switch
a programme there and back; one fault is a crash or an OFF between any two
steps, and time has no end. One installation has a file system that
may become read-only in any step; one command meets it there. `MaxQueue` of 0 makes a client wait for an empty
queue, while the messages of the threads themselves pile up freely. In `push`
one client answers in time and the other may do anything; two descriptors for
two clients that come and go make a number be reused and, while both are
connected, `accept` fail at once and again. `MaxVector` ends this at three
connections, where the code would go on until the memory is full; the theorems
hold for any value of it. `MaxGone` of 1 leaves one client to take the place
of the other, and `maxttl` of 2 lets one missed answer be forgiven. For more clients and events the safety properties
are proved. In `power` the two loads (6 and 4) say they take 3, so that
learning matters; with the bases 2 and 5 and a threshold of 10 one, both or
none have room; alignments come every three units.

**Deadlock** is checked except where the program may stop: senders that have
nothing more to send, a shutter that gets no input, `RuleEngine`, whose
clock ends at `maxTime`, and the push service, whose process may be killed by
a read outside an array.

**Fairness.** Threads are scheduled (weak fairness of their steps); boost
threads and the kernel provide it. The clock and the trigger thread go on
(`nanosleep` in `Trigger::exec`). Devices, commands, crashes, restarts and
switches of the agent, OFF or ON, get none. An agent that stays OFF for ever
delivers nothing, so `AutoOff`, `InputReported`, `RulesCatchUp` and `DailyCycle`
have the premise that it is ON again and again (`[]<>(status = "ON")`): whether
`send_status` brings it back depends on its twins. In `AgentNet` receiving and the passing of time get
strong fairness: poll() may time out before an announcement comes, but it does
not lose one that is there for ever, and `Period` is only enabled between
rounds. In `PushService` taking a mutex gets strong fairness: `do_poll` sleeps
for `pollperiod` and `do_signal` waits for events with the mutexes free, so a
waiting thread gets them; a client in `Prompt` answers while it runs, by the
meaning of the word, and the other one need not. In `PowerControl` readings are
handled, commands are carried out unless lost and time goes on.

## 4. Proofs

All theorems hold for every value of the constants.

`RpcWaitTableProofs` proves the invariants of the run `rpc`, and
`RegisteredCallHasEntry` (no registered call is reported as no_entry) and
`TimeoutOnlyWhenDue`. The argument is
the inductive invariant `IInv`: `TypeOK`; `TagInv`, tags advance by one round a
circle of `MAXTAG + 1`, and all live calls lie within one turn, so two live
calls differ in their tags (`LiveTagsDistinct`) and the first entry with the
tag of a live call is its own (`FirstIsOwn`); `ServeInv` and `PendingIsServed`,
each entry belongs to the thread that serves its call; `QueueInv`, `AnswerInv`
and `ResultInv`, the queue of an entry, the message a thread took out and the
result of a call are about that call; `OverdueInv`, what the trigger found
overdue is still so when it has the lock. `OwnAnswer` alone is not inductive:
it says nothing of the messages on their way. Each conjunct is a lemma with one
step per action. Assumptions: `MAXTAG`, `RPC_TIMEOUT` and the bounds are natural
numbers (`MaxQueued` positive), and `TagWindow`, a guard of `callRegister`.

The second part of it proves that the table implements `RpcCall`. What has
decided a call (`Settled`) is its result, or the message its thread holds, or
the first one in its queue; `SettledIs` states these three cases, `DecidedNext`
carries them over a step, and `SettledKept` says when a step leaves them.
Besides `IInv` it needs `ReturnInv`: a call in the table has no result yet, and
a queue outside it is empty. `callRegister` is then `Open`; `signal` is
`AnswerOne`, or unseen when something had decided the call; `checkTimeOut` is
`TimeoutSome` for the undecided among the overdue; `clearEntry` is `Return`;
`receive` moves the deciding message from the queue to the thread and is unseen,
like all other steps.

`TriStateOutputProofs` proves `Interlock`. The relays are far from the handler,
so the invariant speaks of the calls still to make (`TodoPaired`: a closing
comes just after the opening of the other relay), of the queue of the GPIO
thread (`QueuePaired`), of the moment between two calls (`HeadPaired`) and of
the relays (`Apart`). `Interlock` exempts a move between whose two calls the
agent came back ON: there the code does close both relays. For `RelaysFollow`,
`FollowInv` compares what the handler will make of the device (the one
assignment of `currentStatus` still in its list, or what is there already) with
the last devcmd for each relay, be it still to send, on its way, carried out or
missed.

`TimedOutputProofs` proves `RelayFollows` and `SavedWhenIdle` for any number of
outputs and any scenario. `TodoInv` lists the points a handler can have reached:
it has to tell the relay, then to save, then to tell `Timer`; all other devices
are saved. `RelayInv` says that only a devcmd the handler has not made yet may be
missing on the way to the relay. Nothing is assumed of the messages queued for
`VrtDevices` or in `Timer`: late, repeated or overtaken "set" and "reset" messages
cannot bring relay, device and file apart, wherever the agent is switched between
two ends that `Timer` sends.

`AgentNetProofs` proves `ObserversMatchTable` and `RegisteredIsServed`. The
thread changes `foreign_agents`, `tcp_observers`, the observer and `SubjectSet` one
after the other, so `EntryInv`, `ObserverInv` and `SubjectInv` state how they agree
at each of its points, with the peer it is working on exempted: `MsgInv` and
`KillInv` say which peer that is. That a dispatcher may die with a message in its
queue disturbs none of them. Assumption: "none", which stands for no entry,
is no address.

The second part of `AgentNetProofs` is about the copies of an agent. It proves
`GreatestServes` and `DoubleIsShort` for any set of ips and any positive
`validityTime`. `GreatestInv` adds to the first that neither
network thread is on its way to change the status of the greatest copy. The
second rests on a race: the sender may take over with an old timestamp just as
the receiver hears a greater copy, and the copy stays ON. `DoubledInv` says why
this cannot happen in the next period too: the message that came has renewed the
timestamp, `silence` is at most 1 and so not above `validityTime`, the
sender has no reason to take over and what is heard switches the copy OFF.

`ManagerAgentProofs` proves `AckIsDurable`, `ResumesTheLast` and
`RulesKnowProgram` for any programmes, commands and rule. `PhaseInv` lists the
points at which a restart may find the engine: idle, answering, setting a named
programme, putting the current one aside for OFF, taking it back; and for each
what CURRENTP and SWAPPEDOUT hold. `FreshInv` is why one restart is harmless to
`ResumesTheLast`: before the first, SWAPPEDOUT is not stale. With two, it can be:
`ResumesTheLast` is not claimed there. All that is said of the files holds unless
a call could not write (`unsaved`), which the engine does not notice: it goes on
and answers. `KnowInv` follows an announcement through
the queue of the rules. Assumptions: no programme has the name of the constant
that stands for a missing file, and the agent starts with SWAPPEDOUT empty or
with OFF in force, as `_SWITCH` leaves them.

`PushServiceProofs` proves `OwnSocket`, `EveryoneOnce` and `AnsweringStays` for
any number of clients, descriptors, registrations and events, and any failures of
`accept` and `read`. `Sockets` ties descriptors, connections and the connection
`do_register` is building to one session each, but for the connections of failed
accepts, which have descriptor -1 and no session; `Locked` says which thread owns `mutexsignal`, so that the vector
does not change under `do_signal`; `AnswerInv`, that a prompt client `do_poll`
waits for owes an answer or has sent one, although a registration in front of
an answer makes it be thrown away; `SignalInv`, that the events written went to
connections before the index and what is owed lies behind it. The erasure of a
connection moves all later ones: `RemoveAtProperties` says
where to. Assumption: `PushAssumption` on the constants.

`MessageQueueProofs` proves `Conservation` and `NoOvertaking` for any messages,
priorities and limit. The loops of `receive` and `purge` look for different
elements, and both take the first one of its priority (`FirstOfItsPriority`);
this keeps `InOrder`, the vector is in the order of sending, and `Fair`, what
the first of two equals has not left the second has not left either. That the
loops find an element at all is a fact about least elements of finite sets,
taken from the library through strict inclusion.

`RuleEngineProofs` proves the properties of the run `rules` for any
configuration of counters, conditions and rules and any length of a run. For the
counters the invariant is `CountersInv`: each counter with its history, its queue
and the ghost of what it counted satisfies `CounterInv` at `last_time` and at the
time of the last change of programme. Its parts: what waits in the queue came
after that change and has its own time plus the delay as deadline (`Waiting`),
and the queue points at one of its messages (`Pointed`); what was counted was
counted by these rules (`Past`); the history is in order and has the young events
(`Ordered`, `Keeps`); the counter bounds the level of every suffix of the counted
events, and is one of the levels, or 0, when it has no delay (`Leaky`). A handler
is a composition of three changes, each with a lemma: an event is counted
(`Count`), time leaks out (`Leak`), old events are erased (`Forget`).
`TimeUpdateGood` and `EventUpdateGood` put them together as the code does, so that
`doEvent`, which brings the counters up to date twice, needs nothing of its own.
A counter without a delay is a bucket only because it is brought to the time of
the event before the event is counted; a delayed one takes its message without
leaking, and stays above. `EvList::update` is a function defined by recursion over
the history. No induction is used: `ErasedExists` gives the function explicitly
(of a run of old events every second one is erased, the first included) and shows
that it satisfies the recursion, and `EvListKeeps` needs nothing but that.

For the rules the invariant is `RulesInv`. A rule without events fires when one of
three stored times is the present one, so `Edge` says that all three flags are on
after a match at which the rule was enabled, and that one is off after a match at
which it was not, if it was `Listed`; and every stored time is past. Without
`Listed` this is false: such a match returns before it clears a flag, which is the
start `FiresOnEdge` exempts. `cycleactive` is not initialised, but the match that
finds the rule enabled fires and clears it.

Assumptions (`RuleEngineAssumption`): increments, decrements and memories are
natural numbers (the code has doubles; a configuration with a negative one makes no
bucket), a delay is one or absent, clauses are finite, and the clock advances
between two messages.

Only model-checked: everything temporal under fairness, which this prover does
not do (the three properties of `PowerControl` are among them). Every invariant and
every action property of the passing runs is a theorem.

## 5. Findings

1. `send_status` and `recv_status` race: a copy may announce itself as active
   while `AgentConf::status` is OFF, and no later step corrects it
   (`agentnet.cpp:450`; run `twins_migrate`).
2. `Rule::match` pushes its messages at the end of the vector that all rules
   share and writes their fields from its start: of two rules that fire
   together, the first loses its alarm and actions (`rule.cpp:178`; run
   `rule_actions`).

Other things are modelled as the code does them, and the properties say what
remains true; no document promises otherwise, so there is no run against them:

- `MMessageQueue::receive` tests the size once and reads an empty vector after
  a spurious wake-up (`MMessageQueue.h:78`); `Delivered` exempts it.
- The status saved in `CURRENTSTATUS` is overwritten with ON by
  `AgentNet::init` (`agentnet.cpp:272`).
- `AgentNet::update` compares "events" while announcements carry "observe", so
  a changed list of subjects is not noticed (`agentnet.cpp:577`).
- `setrules`, `setrulemode` and `resetrules` do not reach the member that
  `Rule::match` reads, so a rule set OFF fires until the next start
  (`rule.cpp:101`).
- `do_register` does not test `accept`: while no descriptor is free it inserts
  connections with descriptor -1 as fast as it can, which the polls remove one by
  one (`PushThread.cpp:71`).
- `getJsonMessage` keeps the result of `read` in a `size_t`: the -1 of a
  connection that was reset counts as data and the loop leaves the buffer
  (`PushConnection.cpp:36-43`). `GoneIsDropped` and `SignalsGoOn` exempt the
  process this kills.
- `do_register` reads the last connection for the status page after the mutexes
  are free, when `do_poll` may have erased it (`PushThread.cpp:77`).
- An observer that is stopped while its dispatcher waits loses the message that
  wakes it: `cond.wait` throws the interruption on leaving
  (`MMessageQueue.h:78-79`), and what is notified until `remove_observer` is lost
  as well.
- `setprogram` ignores that a file could not be written and acknowledges; the next
  start takes what is in the file (`filemanager.cpp:494-497`). `AckIsDurable` and
  `ResumesTheLast` exempt it.
- An edge within the debounce time is ignored and the pin is not read again: an
  input may keep a level its pin has left (`GPIOThread.cpp:78`).
- A timer condition that an early OFF leaves behind ends the next ON early
  (`Timer.cpp:125`), and each delayed event of an input adds a condition that
  the vector keeps (`Timer.cpp:147`).

Two limits of the code lie outside the models: five HTTP threads, each of which
`/cmdw` may hold for `RPC_TIMEOUT` (`RestHttpServer.cpp:267`), and a push client
that is alive and reads nothing, on which a write blocks with a mutex held.

## 6. Limits and what is not modelled

Some properties exempt the harm of a hazard, because the code does not repair it;
the note of the hazard says so: a devcmd dropped in the middle of a handler, a
crash inside one, a motor or an input at a restart, a message lost by an
interruption, a write that failed. There the properties show that nothing else
goes wrong.

In `PushService` a line arrives whole, the map of events of a connection is read
or written whole, descriptor 0 is in use (`getJsonMessage` takes it for none), and
what a read outside an array does is one of two things: it yields any line, or it
ends the process. In `ManagerAgent` a file system that fails takes no write from
then on. `PowerControl` assumes `Latency < AlignPeriod` (10 and 29 s as shipped):
with a greater latency every alignment would renew `wait_until` before it is over.

Texts, XML, pages and encryption are left out. Time is discrete. A handler of
`RuleEngine` or `PowerControl` takes no time. HTTP deliveries succeed or fail as
a whole. The status of a single device is ON, as in the configurations of the
repository.

Not modelled, with the reason for each in `PROJECT.json`: the vendored
libraries (tinyxml, libjson, libhttpserver and what it brings), which are most
of the lines of the repository and not HAT's own; the forks of modelled code
(`MqttBBDevices` of BBDevices, `Player` of Manager, `WSServerWS` and parts of
`logger` of WSServer), whose models would repeat the ones here; pages, JSON and
XML (most of `hsrv`, WSServer and the configuration classes), archives and
encodings, which are input and output with no protocol; analog inputs, meters
and PWM, which sample and scale; `FSMDevice` and `NetDevices`, interpreters
whose behaviour is the text of a configuration file.

## 7. Plan

1. Done: queues, synchronous commands, timed outputs and inputs, shutters,
   copies, peers, rules, the manager with programmes and timed rules, the push
   service, power control.
2. Models that could follow: `FSMDevice` on the `Timer` that is there; the choice
   of a subject by wildcards in `SubjectSet` against a reference definition; the
   polling thread of `NetDevices`; rotation in `ArchiveManager`; cyclic timed
   rules.
