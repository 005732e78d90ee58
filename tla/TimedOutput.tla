---------------------------- MODULE TimedOutput -----------------------------
(***************************************************************************)
(* Binary outputs with a duration and a binary input with a delay:         *)
(* BinaryOutput and BinaryInput devices run by the VrtDevices thread, the  *)
(* Timer thread that sends them "wait end", and the GPIO threads that      *)
(* drive the relays and watch the input's pin.  The threads share nothing  *)
(* but their message queues, through SubjectSet::notify, which silently    *)
(* drops a message while AgentConf::status is OFF.  An output keeps its    *)
(* value, and its GPIO the level, in a file each; both are read at a       *)
(* restart.  An input starts from "0" whatever its pin is.                 *)
(*                                                                         *)
(* execcmd makes several notify calls and a save; between any two of them  *)
(* the other threads run, the agent may be switched OFF or ON, and the     *)
(* process may die.  The calls still to be made are kept in "todo".        *)
(*                                                                         *)
(* Left out: the "event" messages of outputs and publish(), which change   *)
(* nothing here; remap(), which renames values; rpcNotify, which is the    *)
(* business of RpcWaitTable; and Timer's test msg_time > period/2 +        *)
(* last_update_time, which every poll passes unless the wall clock is set  *)
(* back.                                                                   *)
(***************************************************************************)
EXTENDS Timer, FiniteSets

CONSTANTS Devices,      \* the outputs; each has its own wait_condition
          Duration,     \* seconds after which an output goes back
          Scenarios,    \* what the world does and how the input is configured:
                        \* [outputs, cmds, sets, edges, delay, waitfor]
          MaxPolls,     \* bound: polls waiting in the Timer's queue
          MaxFlips,     \* bound: times AgentConf::status becomes OFF
          MaxRestarts   \* bound: restarts of the process

ASSUME OutputAssumption ==
    /\ Duration \in Nat \ {0}
    /\ {MaxPolls, MaxFlips, MaxRestarts} \subseteq Nat
    /\ \A c \in Scenarios :
          /\ c.outputs \subseteq Devices        \* the outputs that get commands
          /\ {c.cmds, c.sets, c.edges} \subseteq Nat  \* bounds: commands, "set"
                                                 \* messages and edges of the pin
          /\ {c.delay, c.waitfor} \subseteq {0, 1}  \* seconds

Values  == {"ON", "OFF"}
Default == "OFF"

VARIABLES
    conf,       \* the scenario
    value,      \* currentValue of a device
    saved,      \* the value in its file
    level,      \* what its relay is set to
    levelSaved, \* the value in the file of its GPIO
    devQ,       \* queue of VrtDevices: commands, "set", local events, "wait end"
    todo,       \* the rest of the handler VrtDevices is in
    timerQ,     \* queue of Timer: polls, "wait set" and "wait reset"
    condition,  \* Timer's vector
    due,        \* the keys of the conditions whose "wait end" Timer has still to send
    gpioQ,      \* queue of GPIOThread::do_work1
    status,     \* AgentConf::status
    lostRelay,  \* devices whose relay missed the last value (history)
    lostTimer,  \* devices that are ON and were forgotten by Timer (history)
    pin,        \* the input's GPIO: [level, known, since], the level of the pin,
                \* Gpio::currentValue and the second of the last reported edge (-1:
                \* wait_until is still 0)
    input,      \* the input: [status, current, table], the device's status,
                \* currentValue and delay_table
    seen,       \* the last value its observers got
    mute,       \* the last change of the input will not be announced (history)
    sec,        \* the second of the last edge
    ncmds, nsets, nedges, nflips, nrestarts

outputVars == <<value, saved, level, levelSaved, todo, gpioQ, lostRelay, lostTimer>>
inputVars  == <<pin, input, seen, mute, sec>>
counters   == <<conf, ncmds, nsets, nedges, nflips, nrestarts>>
vars == <<outputVars, inputVars, devQ, timerQ, condition, due, status, counters>>

Op(op, d, v) == [op |-> op, dev |-> d, val |-> v]
Poll         == [op |-> "poll"]
-----------------------------------------------------------------------------
Init ==
    /\ conf \in Scenarios
    /\ value = [d \in Devices |-> Default]
    /\ saved = value
    /\ level = value
    /\ levelSaved = value
    /\ devQ = <<>> /\ todo = <<>> /\ timerQ = <<>> /\ condition = <<>> /\ due = <<>> /\ gpioQ = <<>>
    /\ status = "ON"
    /\ lostRelay = {} /\ lostTimer = {}
    /\ pin = [level |-> "0", known |-> "0", since |-> -1]
    /\ input = [status |-> "ON", current |-> "0", table |-> <<>>]
    /\ seen = "0" /\ mute = FALSE /\ sec = 0
    /\ ncmds = 0 /\ nsets = 0 /\ nedges = 0 /\ nflips = 0 /\ nrestarts = 0

(* A client sends a command; it too goes through SubjectSet::notify.       *)
Command(d, v) ==
    /\ ncmds < conf.cmds
    /\ ncmds' = ncmds + 1
    /\ devQ' = IF status = "ON" THEN Append(devQ, Op("cmd", d, v)) ELSE devQ
    /\ UNCHANGED <<outputVars, inputVars, timerQ, condition, due, status, conf, nsets,
                   nedges, nflips, nrestarts>>

(* Mutant of AfterCmd: save() only where a timer is started.               *)
AfterCmdUnsaved(d, v) ==
    IF value[d] = v THEN <<>>
    ELSE IF v # Default
         THEN <<Op("devcmd", d, v), Op("save", d, v), Op("set", d, v)>>
         ELSE <<Op("devcmd", d, v), Op("reset", d, v)>>

(* Mutant of AfterCmd: the devcmd is sent only for a value that is not the *)
(* default.                                                                *)
AfterCmdOnly(d, v) ==
    IF value[d] # v /\ v # Default
    THEN <<Op("devcmd", d, v), Op("save", d, v), Op("set", d, v)>>
    ELSE <<Op("save", d, v)>>

(* Mutant of AfterCmd: the wait message of the two branches swapped.       *)
AfterCmdSwapped(d, v) ==
    IF value[d] # v
    THEN <<Op("devcmd", d, v), Op("save", d, v),
           Op(IF v # Default THEN "reset" ELSE "set", d, v)>>
    ELSE <<>>

(* The calls execcmd makes for a command, after setting currentValue: a    *)
(* changed value goes to the relay and to the file, then Timer is told;    *)
(* the same value, if it is not the default, only restarts the timer.      *)
AfterCmd(d, v) ==
    IF value[d] # v
    THEN <<Op("devcmd", d, v), Op("save", d, v),
           Op(IF v # Default THEN "set" ELSE "reset", d, v)>>
    ELSE IF v # Default THEN <<Op("set", d, v)>> ELSE <<>>

(* VrtDevices::do_work receives a command for one of its devices.          *)
execcmd ==
    /\ todo = <<>>
    /\ devQ # <<>>
    /\ Head(devQ).op = "cmd"
    /\ Head(devQ).dev \in Devices
    /\ LET m == Head(devQ)
       IN /\ value' = [value EXCEPT ![m.dev] = m.val]
          /\ todo' = AfterCmd(m.dev, m.val)
          /\ lostTimer' = IF m.val = Default THEN lostTimer \ {m.dev} ELSE lostTimer
    /\ devQ' = Tail(devQ)
    /\ UNCHANGED <<saved, level, levelSaved, timerQ, condition, due, gpioQ, status,
                   lostRelay, inputVars, counters>>

(* VrtDevices::execwait: "wait end" takes an output back to its default.   *)
execwait ==
    /\ todo = <<>>
    /\ devQ # <<>>
    /\ Head(devQ).op = "end"
    /\ Head(devQ).dev \in Devices
    /\ LET d == Head(devQ).dev
       IN /\ value' = [value EXCEPT ![d] = Default]
          /\ todo' = IF value[d] # Default
                     THEN <<Op("devcmd", d, Default), Op("save", d, Default)>>
                     ELSE <<>>
          /\ lostTimer' = lostTimer \ {d}
    /\ devQ' = Tail(devQ)
    /\ UNCHANGED <<saved, level, levelSaved, timerQ, condition, due, gpioQ, status,
                   lostRelay, inputVars, counters>>

(* The next call of the handler is SubjectSet::notify of a devcmd ...      *)
notifyDevcmd ==
    /\ todo # <<>>
    /\ Head(todo).op = "devcmd"
    /\ gpioQ' = IF status = "ON" THEN Append(gpioQ, Head(todo)) ELSE gpioQ
    /\ lostRelay' = IF status = "ON" THEN lostRelay \ {Head(todo).dev}
                                     ELSE lostRelay \cup {Head(todo).dev}
    /\ todo' = Tail(todo)
    /\ UNCHANGED <<value, saved, level, levelSaved, devQ, timerQ, condition, due, status,
                   lostTimer, inputVars, counters>>

(* ... or save() ...                                                       *)
save ==
    /\ todo # <<>>
    /\ Head(todo).op = "save"
    /\ saved' = [saved EXCEPT ![Head(todo).dev] = Head(todo).val]
    /\ todo' = Tail(todo)
    /\ UNCHANGED <<value, level, levelSaved, devQ, timerQ, condition, due, gpioQ, status,
                   lostRelay, lostTimer, inputVars, counters>>

(* ... or SubjectSet::notify of a wait message.                            *)
notifyWait ==
    /\ todo # <<>>
    /\ Head(todo).op \in {"set", "reset"}
    /\ timerQ' = IF status = "ON" THEN Append(timerQ, Head(todo)) ELSE timerQ
    /\ lostTimer' = IF Head(todo).op = "reset" THEN lostTimer
                    ELSE IF status = "ON" THEN lostTimer \ {Head(todo).dev}
                    ELSE lostTimer \cup {Head(todo).dev}
    /\ todo' = Tail(todo)
    /\ UNCHANGED <<value, saved, level, levelSaved, devQ, condition, due, gpioQ, status,
                   lostRelay, inputVars, counters>>

(* A client sends "set" to the input, to take it out of service or back.   *)
SetInput(v) ==
    /\ nsets < conf.sets
    /\ nsets' = nsets + 1
    /\ devQ' = IF status = "ON" THEN Append(devQ, Op("status", "in", v)) ELSE devQ
    /\ UNCHANGED <<outputVars, inputVars, timerQ, condition, due, status, conf, ncmds,
                   nedges, nflips, nrestarts>>

(* The seconds that matter are bounded with the edges.                     *)
Clock(s) == s <= conf.edges + 1

(* May an edge in second s be "late", wait_until <= tt, or not?  waitfor   *)
(* is counted from the instant of the last edge, not from its second.      *)
Debounced(s, late) ==
    IF pin.since = -1 \/ conf.waitfor = 0 THEN late
    ELSE CASE s = pin.since     -> ~late
           [] s = pin.since + 1 -> TRUE
           [] OTHER             -> late

(* An edge of the pin wakes poll() in GPIOThread::do_work.  An edge that   *)
(* comes too early leaves currentValue alone; the first one after a start  *)
(* finds wait_until = 0 and is not announced.                              *)
Edge(s, late) ==
    /\ nedges < conf.edges
    /\ nedges' = nedges + 1
    /\ Clock(s) /\ Debounced(s, late)
    /\ sec' = s
    /\ LET v        == IF pin.level = "0" THEN "1" ELSE "0"
           reported == late /\ v # pin.known
       IN /\ pin' = IF reported THEN [level |-> v, known |-> v, since |-> s]
                    ELSE [pin EXCEPT !.level = v]
          /\ devQ' = IF reported /\ pin.since # -1 /\ status = "ON"
                     THEN Append(devQ, Op("event", "in", v)) ELSE devQ
    /\ UNCHANGED <<outputVars, input, seen, mute, timerQ, condition, due, status, conf,
                   ncmds, nsets, nflips, nrestarts>>

(* BinaryInput::setstatus.                                                 *)
setstatus ==
    /\ todo = <<>>
    /\ devQ # <<>>
    /\ Head(devQ).op = "status"
    /\ input' = [input EXCEPT !.status = Head(devQ).val]
    /\ devQ' = Tail(devQ)
    /\ UNCHANGED <<outputVars, pin, seen, mute, sec, timerQ, condition, due, status, counters>>

(* BinaryInput::update in second s: a change is announced at once, or      *)
(* put in delay_table under a key made of the delay, the name and s, for   *)
(* which Timer is asked to send "wait end"; a change in a second that has  *)
(* its key is kept but never announced.                                    *)
update(s) ==
    /\ todo = <<>>
    /\ devQ # <<>>
    /\ Head(devQ).op = "event"
    /\ Clock(s)
    /\ LET v       == Head(devQ).val
           key     == <<"in", s>>
           changed == input.status = "ON" /\ v # input.current
           fresh   == changed /\ conf.delay > 0 /\ key \notin DOMAIN input.table
       IN /\ input' = [input EXCEPT !.current = IF changed THEN v ELSE @,
                                   !.table = IF fresh THEN (key :> v) @@ @ ELSE @]
          /\ seen' = IF changed /\ conf.delay = 0 /\ status = "ON" THEN v ELSE seen
          /\ timerQ' = IF fresh /\ status = "ON" THEN Append(timerQ, Op("set", key, v))
                       ELSE timerQ
          /\ mute' = IF ~changed THEN mute
                     ELSE status = "OFF" \/ (conf.delay > 0 /\ ~fresh)
    /\ sec' = s
    /\ devQ' = Tail(devQ)
    /\ UNCHANGED <<outputVars, pin, condition, due, status, counters>>

(* Mutant of Erased: the whole table is cleared.                           *)
ErasedAll(table, key) == <<>>

Erased(table, key) == Restrict(table, DOMAIN table \ {key})

(* VrtDevices::execwait with the key of a delayed event: BinaryInput sends *)
(* the event and forgets it.                                               *)
execwaitInput ==
    /\ todo = <<>>
    /\ devQ # <<>>
    /\ Head(devQ).op = "end"
    /\ Head(devQ).dev \notin Devices
    /\ LET key  == Head(devQ).dev
           sent == input.status = "ON" /\ key \in DOMAIN input.table
       IN /\ seen' = IF sent /\ status = "ON" THEN input.table[key] ELSE seen
          /\ mute' = (mute \/ input.status = "OFF" \/ (sent /\ status = "OFF"))
          /\ input' = IF sent THEN [input EXCEPT !.table = Erased(@, key)] ELSE input
    /\ devQ' = Tail(devQ)
    /\ UNCHANGED <<outputVars, pin, sec, timerQ, condition, due, status, counters>>

(* Trigger::exec sends the poll of this second.                            *)
triggerPoll ==
    /\ status = "ON"
    /\ Cardinality({i \in DOMAIN timerQ : timerQ[i] = Poll}) < MaxPolls
    /\ timerQ' = Append(timerQ, Poll)
    /\ UNCHANGED <<value, saved, level, levelSaved, devQ, todo, condition, due, gpioQ,
                   status, lostRelay, lostTimer, inputVars, counters>>

(* Timer::do_work on a poll: update all conditions by one period, and      *)
(* message() marks those that are due as expired ...                       *)
timerUpdate ==
    /\ due = <<>> /\ timerQ # <<>>
    /\ Head(timerQ) = Poll
    /\ LET updated == UpdateAll(condition, 1)
       IN /\ condition' = ExpireDue(updated)
          /\ due' = DueKeys(updated)
    /\ timerQ' = Tail(timerQ)
    /\ UNCHANGED <<outputVars, inputVars, devQ, status, counters>>

(* ... sending "wait end" for one after the other.  It is marked before    *)
(* the notify, so an end that is dropped is not sent again.                *)
timerNotify ==
    /\ due # <<>>
    /\ LET key     == Head(due)
           dropped == status = "OFF"
       IN /\ devQ' = IF dropped THEN devQ ELSE Append(devQ, Op("end", key, Default))
          /\ lostTimer' = IF dropped /\ key \in Devices /\ value[key] # Default
                          THEN lostTimer \cup {key} ELSE lostTimer
          /\ mute' = (mute \/ (dropped /\ key \notin Devices))
    /\ due' = Tail(due)
    /\ UNCHANGED <<value, saved, level, levelSaved, todo, gpioQ, timerQ, condition, status,
                   lostRelay, pin, input, seen, sec, counters>>

(* Timer::do_work on "wait set" or "wait reset".                           *)
timerStart ==
    /\ due = <<>> /\ timerQ # <<>>
    /\ Head(timerQ) # Poll
    /\ LET m  == Head(timerQ)
           tc == TimedCondition(m.op, m.dev,
                                IF m.dev \in Devices THEN Duration ELSE conf.delay)
       IN condition' = IF m.op = "set" THEN StartTimer(condition, tc)
                       ELSE ResetTimer(StartTimer(condition, tc), tc)
    /\ timerQ' = Tail(timerQ)
    /\ UNCHANGED <<value, saved, level, levelSaved, devQ, todo, due, gpioQ, status,
                   lostRelay, lostTimer, inputVars, counters>>

(* GPIOThread::do_work1: Gpio::setCurrentValue saves the level and writes  *)
(* it to the port.                                                         *)
setCurrentValue ==
    /\ gpioQ # <<>>
    /\ level' = [level EXCEPT ![Head(gpioQ).dev] = Head(gpioQ).val]
    /\ levelSaved' = level'
    /\ gpioQ' = Tail(gpioQ)
    /\ UNCHANGED <<value, saved, devQ, todo, timerQ, condition, due, status, lostRelay,
                   lostTimer, inputVars, counters>>

(* AgentConf::setStatus(OFF), when the network thread hears a twin of this *)
(* agent.                                                                  *)
setStatusOFF ==
    /\ status = "ON"
    /\ nflips < MaxFlips
    /\ nflips' = nflips + 1
    /\ status' = "OFF"
    /\ UNCHANGED <<value, saved, level, levelSaved, devQ, todo, timerQ, condition, due,
                   gpioQ, lostRelay, lostTimer, inputVars, conf, ncmds, nsets,
                   nedges, nrestarts>>

(* AgentConf::setStatus(ON): AgentNet::send_status takes over again when   *)
(* the twin has been silent for validityTime.                              *)
setStatusON ==
    /\ status = "OFF"
    /\ status' = "ON"
    /\ UNCHANGED <<value, saved, level, levelSaved, devQ, todo, timerQ, condition, due,
                   gpioQ, lostRelay, lostTimer, inputVars, counters>>

(* The process dies or exits (doReboot, devConfigure, doMemoryCheck) and   *)
(* starts again: devices and GPIOs read their files, do_work1 writes the   *)
(* saved levels to the ports, queues and timed conditions are gone.        *)
Restart ==
    /\ nrestarts < MaxRestarts
    /\ nrestarts' = nrestarts + 1
    /\ value' = saved
    /\ level' = levelSaved
    /\ devQ' = <<>> /\ todo' = <<>> /\ timerQ' = <<>> /\ condition' = <<>> /\ due' = <<>>
    /\ gpioQ' = <<>>
    /\ status' = "ON"
    /\ lostRelay' = {d \in Devices : saved[d] # levelSaved[d]}
    /\ lostTimer' = {d \in Devices : saved[d] # Default}
    /\ pin' = [pin EXCEPT !.known = pin.level, !.since = -1]
    /\ input' = [input EXCEPT !.current = "0", !.table = <<>>]
    /\ mute' = (seen # "0")
    /\ UNCHANGED <<saved, levelSaved, seen, sec, conf, ncmds, nsets, nedges, nflips>>

DeviceThread == \/ execcmd \/ execwait \/ notifyDevcmd \/ save \/ notifyWait
                \/ \E s \in {sec, sec + 1} : update(s)
                \/ execwaitInput \/ setstatus
TimerThread  == timerUpdate \/ timerNotify \/ timerStart

Next ==
    \/ \E d \in conf.outputs, v \in Values : Command(d, v)
    \/ \E v \in Values : SetInput(v)
    \/ \E s \in {sec, sec + 1}, late \in BOOLEAN : Edge(s, late)
    \/ DeviceThread
    \/ TimerThread
    \/ triggerPoll
    \/ setCurrentValue
    \/ setStatusOFF
    \/ setStatusON
    \/ Restart

Spec == Init /\ [][Next]_vars

(* Each thread is scheduled as long as it has something to do; commands,   *)
(* the agent being switched OFF or ON and restarts need not happen.        *)
Fairness ==
    /\ WF_vars(DeviceThread)
    /\ WF_vars(TimerThread)
    /\ WF_vars(triggerPoll)
    /\ WF_vars(setCurrentValue)

FairSpec == Spec /\ Fairness
-----------------------------------------------------------------------------
(* The last devcmd for device d in a queue says v; there is none.          *)
LastFor(q, d, v) ==
    \E i \in 1..Len(q) : /\ q[i].op = "devcmd" /\ q[i].dev = d /\ q[i].val = v
                         /\ \A j \in 1..Len(q) : j > i => ~(q[j].op = "devcmd" /\ q[j].dev = d)
NoneFor(q, d)    == \A i \in 1..Len(q) : ~(q[i].op = "devcmd" /\ q[i].dev = d)

(* The relay of d is set to v when the devcmds sent have arrived, and when *)
(* the handler has sent its own too.                                       *)
Queued(d, v)  == LastFor(gpioQ, d, v) \/ (NoneFor(gpioQ, d) /\ level[d] = v)
Arrives(d, v) == LastFor(todo, d, v) \/ (NoneFor(todo, d) /\ Queued(d, v))

(* The relay follows the device: unless a devcmd was dropped while the     *)
(* agent was OFF, or a restart found the two files apart, the relay is on  *)
(* its way to currentValue; and the next value that does change repairs    *)
(* the rest.                                                               *)
RelayFollows == \A d \in Devices \ lostRelay : Arrives(d, value[d])

(* The file agrees with the device whenever no handler is under way, so a  *)
(* restart then takes every output up where it was.                        *)
SavedWhenIdle == todo = <<>> => saved = value

(* In an agent that does not stay OFF for ever, an output with a duration  *)
(* goes back to its default by itself.                                     *)
AutoOff ==
    []<>(status = "ON") =>
        \A d \in Devices :
            (value[d] # Default /\ d \notin lostTimer)
                ~> (value[d] = Default \/ d \in lostTimer)

(* The observers of the input come to know its value: every change is      *)
(* announced when its delay is over, and in the order of the changes, so   *)
(* that the last one announced is the last there was.  It is not where a   *)
(* message was dropped, the input is out of service, the process died or   *)
(* two changes fell into one second; then the next change tells them.  An  *)
(* agent that stays OFF for ever announces nothing.                        *)
InputReported ==
    []<>(status = "ON") => ((seen # input.current) ~> (seen = input.current \/ mute))
=============================================================================
