--------------------------- MODULE TriStateOutput ---------------------------
(***************************************************************************)
(* BBDevices/TriStateOutput.cpp: a shutter, moved by the relays out1 (up)  *)
(* and out2 (down) on a command, by two buttons, or back by "wait end".    *)
(* Its handlers run in the VrtDevices thread and reach the relays, the     *)
(* Timer thread and the file by separate calls, kept in "todo"; between    *)
(* any two of them the GPIO thread runs, the agent may be switched OFF or  *)
(* ON (SubjectSet::notify then drops the message) and the process may die. *)
(*                                                                         *)
(* Timer is reduced to what TimedOutput shows of it: one condition of this *)
(* device, started by "wait set" and ended by one "wait end".  Left out:   *)
(* events and publish(), which change nothing here; remap, ON to ON and    *)
(* OFF to OFF in every configuration of the repository; and the attribute  *)
(* status, ON in all of them: Device::setstatus never changes it.          *)
(***************************************************************************)
EXTENDS Integers, Sequences

CONSTANTS MaxInputs,    \* bound: commands and button events received
          MaxFlips,     \* bound: times AgentConf::status becomes OFF
          MaxRestarts   \* bound: restarts of the process

ASSUME TriStateAssumption == {MaxInputs, MaxFlips, MaxRestarts} \subseteq Nat

Outputs == {"out1", "out2"}
Other(o) == IF o = "out1" THEN "out2" ELSE "out1"

Moves          == {"UP", "DOWN", "OFF"}
Commands       == Moves \cup {"other"}      \* any other word a client may send
States         == Commands \cup {"none"}    \* the file has no currentStatus
default_status == "OFF"

VARIABLES
    currentStatus, \* of the device
    saved,         \* currentStatus in its file
    ing,           \* ing[i]: ing1v and ing2v, the last values of the buttons
    devQ,          \* queue of VrtDevices: commands, button events, "wait end"
    todo,          \* the rest of the handler VrtDevices is in
    gpioQ,         \* queue of GPIOThread::do_work1
    level,         \* what the relays are set to, saved in the files of the GPIOs
    timerQ,        \* number of "wait set" in the queue of Timer
    running,       \* its condition of this device has not expired
    status,        \* AgentConf::status
    half,          \* the relay whose devcmd OFF was dropped just now, or none
    torn,          \* relays closed although it was (history)
    lostTimer,     \* the shutter moves and Timer does not know (history)
    lostRelay,     \* relays that missed their last devcmd (history)
    ninputs, nflips, nrestarts

device   == <<currentStatus, saved, ing, todo>>
history  == <<half, torn, lostTimer, lostRelay>>
timer    == <<timerQ, running>>
counters == <<ninputs, nflips, nrestarts>>
vars     == <<device, devQ, gpioQ, level, timer, status, history, counters>>

Devcmd(o, v)  == [op |-> "devcmd", out |-> o, val |-> v]
Assign(v)     == [op |-> "assign", out |-> "none", val |-> v]
Set           == [op |-> "set", out |-> "none", val |-> "none"]
Save          == [op |-> "save", out |-> "none", val |-> "none"]
Devcmds       == {Devcmd(o, v) : o \in Outputs, v \in {"ON", "OFF"}}
Cmd(v)        == [op |-> "cmd", arg |-> v]
Button(i, v)  == [op |-> i, arg |-> v]
End           == [op |-> "end", arg |-> "none"]

TypeOK ==
    /\ currentStatus \in States
    /\ saved \in States
    /\ ing \in [{"ing1", "ing2"} -> {"0", "1"}]
    /\ devQ \in Seq({Cmd(v) : v \in Commands} \cup {End}
                    \cup {Button(i, v) : i \in {"ing1", "ing2"}, v \in {"0", "1"}})
    /\ todo \in Seq(Devcmds \cup {Assign(v) : v \in Commands} \cup {Set, Save})
    /\ gpioQ \in Seq(Devcmds)
    /\ level \in [Outputs -> {"ON", "OFF"}]
    /\ timerQ \in Nat /\ running \in BOOLEAN
    /\ status \in {"ON", "OFF"}
    /\ half \subseteq Outputs /\ torn \subseteq Outputs /\ lostRelay \subseteq Outputs
    /\ lostTimer \in BOOLEAN
    /\ ninputs \in 0..MaxInputs /\ nflips \in 0..MaxFlips /\ nrestarts \in 0..MaxRestarts
-----------------------------------------------------------------------------
Init ==
    /\ currentStatus = "none" /\ saved = "none"
    /\ ing = [i \in {"ing1", "ing2"} |-> "1"]
    /\ devQ = <<>> /\ todo = <<>> /\ gpioQ = <<>>
    /\ level = [o \in Outputs |-> "OFF"]
    /\ timerQ = 0 /\ running = FALSE
    /\ status = "ON"
    /\ half = {} /\ torn = {} /\ lostTimer = FALSE /\ lostRelay = {}
    /\ ninputs = 0 /\ nflips = 0 /\ nrestarts = 0

(* A command, or a button event of GPIOThread::do_work, for this device.   *)
Receive(m) ==
    /\ ninputs < MaxInputs
    /\ ninputs' = ninputs + 1
    /\ devQ' = IF status = "ON" THEN Append(devQ, m) ELSE devQ
    /\ UNCHANGED <<device, gpioQ, level, timer, status, history, nflips, nrestarts>>

(* Mutant of docmdaction: the relay to be closed is closed first.          *)
docmdactionOnFirst(v) ==
    IF currentStatus = v THEN <<Save>>
    ELSE CASE v = "UP"    -> <<Devcmd("out1", "ON"), Devcmd("out2", "OFF"), Assign(v), Set, Save>>
           [] v = "DOWN"  -> <<Devcmd("out2", "ON"), Devcmd("out1", "OFF"), Assign(v), Set, Save>>
           [] v = "OFF"   -> <<Devcmd("out1", "OFF"), Devcmd("out2", "OFF"), Assign(v), Save>>
           [] v = "other" -> <<Assign(v), Set, Save>>

(* Mutant of docmdaction: "OFF" opens one relay only.                      *)
docmdactionOneOff(v) ==
    IF currentStatus = v THEN <<Save>>
    ELSE CASE v = "UP"    -> <<Devcmd("out2", "OFF"), Devcmd("out1", "ON"), Assign(v), Set, Save>>
           [] v = "DOWN"  -> <<Devcmd("out1", "OFF"), Devcmd("out2", "ON"), Assign(v), Set, Save>>
           [] v = "OFF"   -> <<Devcmd("out1", "OFF"), Assign(v), Save>>
           [] v = "other" -> <<Assign(v), Set, Save>>

(* Mutant of docmdaction: only the default status starts the timer.        *)
docmdactionUntimed(v) ==
    IF currentStatus = v THEN <<Save>>
    ELSE CASE v = "UP"    -> <<Devcmd("out2", "OFF"), Devcmd("out1", "ON"), Assign(v), Save>>
           [] v = "DOWN"  -> <<Devcmd("out1", "OFF"), Devcmd("out2", "ON"), Assign(v), Save>>
           [] v = "OFF"   -> <<Devcmd("out1", "OFF"), Devcmd("out2", "OFF"), Assign(v), Set, Save>>
           [] v = "other" -> <<Assign(v), Save>>

(* The calls of docmdaction, for a device with a duration: the relay of    *)
(* the other direction is opened first; an unknown word moves nothing;     *)
(* what is not the default starts the timer; notifyEvent saves.            *)
docmdaction(v) ==
    IF currentStatus = v THEN <<Save>>
    ELSE CASE v = "UP"    -> <<Devcmd("out2", "OFF"), Devcmd("out1", "ON"), Assign(v), Set, Save>>
           [] v = "DOWN"  -> <<Devcmd("out1", "OFF"), Devcmd("out2", "ON"), Assign(v), Set, Save>>
           [] v = "OFF"   -> <<Devcmd("out1", "OFF"), Devcmd("out2", "OFF"), Assign(v), Save>>
           [] v = "other" -> <<Assign(v), Set, Save>>

(* What the buttons ask for; a pressed one reads "0", and up wins.         *)
Wanted(g) == IF g["ing1"] = "0" THEN "UP" ELSE IF g["ing2"] = "0" THEN "DOWN" ELSE "OFF"

(* VrtDevices::do_work receives a command ...                              *)
execcmd ==
    /\ todo = <<>>
    /\ devQ # <<>>
    /\ Head(devQ).op = "cmd"
    /\ todo' = docmdaction(Head(devQ).arg)
    /\ devQ' = Tail(devQ)
    /\ UNCHANGED <<currentStatus, saved, ing, gpioQ, level, timer, status, history, counters>>

(* ... or a local event of a button ...                                    *)
execLocalEvent ==
    /\ todo = <<>>
    /\ devQ # <<>>
    /\ Head(devQ).op \in {"ing1", "ing2"}
    /\ ing' = [ing EXCEPT ![Head(devQ).op] = Head(devQ).arg]
    /\ todo' = docmdaction(Wanted(ing'))
    /\ devQ' = Tail(devQ)
    /\ UNCHANGED <<currentStatus, saved, gpioQ, level, timer, status, history, counters>>

(* ... or "wait end".  dowaitaction calls notifyEvent, and with it save(), *)
(* before it sets currentStatus: the file keeps the old value.             *)
dowaitaction ==
    /\ todo = <<>>
    /\ devQ # <<>>
    /\ Head(devQ) = End
    /\ todo' = IF currentStatus # default_status
               THEN <<Devcmd("out1", default_status), Devcmd("out2", default_status),
                      Save, Assign(default_status)>>
               ELSE <<>>
    /\ devQ' = Tail(devQ)
    /\ UNCHANGED <<currentStatus, saved, ing, gpioQ, level, timer, status, history, counters>>

(* The next call of the handler is SubjectSet::notify of a devcmd ...      *)
notifyDevcmd ==
    /\ todo # <<>>
    /\ Head(todo).op = "devcmd"
    /\ LET m == Head(todo)
       IN /\ gpioQ' = IF status = "ON" THEN Append(gpioQ, m) ELSE gpioQ
          /\ lostRelay' = IF status = "ON" THEN lostRelay \ {m.out} ELSE lostRelay \cup {m.out}
          /\ half' = IF m.val = "OFF" /\ status = "OFF" THEN {m.out} ELSE {}
          /\ torn' = IF m.val = "ON" /\ status = "ON" /\ half # {} THEN torn \cup {m.out} ELSE torn
    /\ todo' = Tail(todo)
    /\ UNCHANGED <<currentStatus, saved, ing, devQ, level, timer, status, lostTimer, counters>>

(* ... or the assignment of currentStatus ...                              *)
assign ==
    /\ todo # <<>>
    /\ Head(todo).op = "assign"
    /\ currentStatus' = Head(todo).val
    /\ lostTimer' = (lostTimer /\ Head(todo).val # default_status)
    /\ todo' = Tail(todo)
    /\ UNCHANGED <<saved, ing, devQ, gpioQ, level, timer, status, half, torn, lostRelay,
                   counters>>

(* ... or SubjectSet::notify of "wait set" ...                             *)
notifyWait ==
    /\ todo # <<>>
    /\ Head(todo) = Set
    /\ timerQ' = IF status = "ON" THEN timerQ + 1 ELSE timerQ
    /\ lostTimer' = (status = "OFF")
    /\ todo' = Tail(todo)
    /\ UNCHANGED <<currentStatus, saved, ing, devQ, gpioQ, level, running, status, half,
                   torn, lostRelay, counters>>

(* ... or save().                                                          *)
save ==
    /\ todo # <<>>
    /\ Head(todo) = Save
    /\ saved' = currentStatus
    /\ todo' = Tail(todo)
    /\ UNCHANGED <<currentStatus, ing, devQ, gpioQ, level, timer, status, history, counters>>

(* Timer::do_work starts the condition, or starts it anew ...              *)
timerStart ==
    /\ timerQ > 0
    /\ timerQ' = timerQ - 1
    /\ running' = TRUE
    /\ UNCHANGED <<device, devQ, gpioQ, level, status, history, counters>>

(* ... and when its time has passed marks it expired and sends "wait end". *)
timerEnd ==
    /\ running
    /\ running' = FALSE
    /\ devQ' = IF status = "ON" THEN Append(devQ, End) ELSE devQ
    /\ lostTimer' = (lostTimer \/ (status = "OFF" /\ currentStatus # default_status))
    /\ UNCHANGED <<device, gpioQ, level, timerQ, status, half, torn, lostRelay, counters>>

(* GPIOThread::do_work1 and Gpio::setCurrentValue.                         *)
setCurrentValue ==
    /\ gpioQ # <<>>
    /\ level' = [level EXCEPT ![Head(gpioQ).out] = Head(gpioQ).val]
    /\ gpioQ' = Tail(gpioQ)
    /\ UNCHANGED <<device, devQ, timer, status, history, counters>>

(* AgentNet hears a greater copy of this agent, or takes over from one.    *)
setStatus ==
    /\ \/ status = "ON" /\ nflips < MaxFlips /\ status' = "OFF" /\ nflips' = nflips + 1
       \/ status = "OFF" /\ status' = "ON" /\ UNCHANGED nflips
    /\ UNCHANGED <<device, devQ, gpioQ, level, timer, history, ninputs, nrestarts>>

(* The process starts again: the device reads its file, the relays are set *)
(* to their saved levels, queues and timers are gone.                      *)
Restart ==
    /\ nrestarts < MaxRestarts
    /\ nrestarts' = nrestarts + 1
    /\ currentStatus' = saved
    /\ ing' = [i \in {"ing1", "ing2"} |-> "1"]
    /\ devQ' = <<>> /\ todo' = <<>> /\ gpioQ' = <<>>
    /\ timerQ' = 0 /\ running' = FALSE
    /\ status' = "ON"
    /\ half' = {}
    /\ lostTimer' = (saved # default_status)
    /\ lostRelay' = {o \in Outputs : level[o] # (IF <<saved, o>> \in {<<"UP", "out1">>, <<"DOWN", "out2">>}
                                                 THEN "ON" ELSE "OFF")}
    /\ UNCHANGED <<saved, level, torn, ninputs, nflips>>

DeviceThread == execcmd \/ execLocalEvent \/ dowaitaction \/ notifyDevcmd \/ assign
                \/ notifyWait \/ save

Next ==
    \/ \E v \in Commands : Receive(Cmd(v))
    \/ \E i \in {"ing1", "ing2"}, v \in {"0", "1"} : Receive(Button(i, v))
    \/ DeviceThread
    \/ timerStart
    \/ timerEnd
    \/ setCurrentValue
    \/ setStatus
    \/ Restart

Spec == Init /\ [][Next]_vars

(* The threads are scheduled; inputs, flips of the agent's status and      *)
(* restarts need not happen.                                               *)
Fairness ==
    /\ WF_vars(DeviceThread)
    /\ WF_vars(timerStart)
    /\ WF_vars(timerEnd)
    /\ WF_vars(setCurrentValue)

FairSpec == Spec /\ Fairness
-----------------------------------------------------------------------------
(* The relays of the two directions are never closed together, whatever    *)
(* commands, buttons and restarts do, unless the agent came back ON        *)
(* between the two notify calls of one move.                               *)
Interlock == level["out1"] = "ON" /\ level["out2"] = "ON" => torn # {}

(* The last devcmd for relay o in a queue sets it to v; there is none.     *)
LastFor(q, o, v) ==
    \E i \in 1..Len(q) : /\ q[i].out = o /\ q[i].val = v
                         /\ \A j \in 1..Len(q) : j > i => q[j].out # o
NoneFor(q, o)    == \A i \in 1..Len(q) : q[i].out # o

(* Relay o is set to v when everything on its way has arrived, and what it *)
(* should be set to.                                                       *)
Arrives(o, v) == LastFor(gpioQ, o, v) \/ (NoneFor(gpioQ, o) /\ level[o] = v)
Position(v)   == CASE v = "UP"   -> [out1 |-> "ON", out2 |-> "OFF"]
                   [] v = "DOWN" -> [out1 |-> "OFF", out2 |-> "ON"]
                   [] OTHER      -> [out1 |-> "OFF", out2 |-> "OFF"]

(* Between two handlers the relays are on their way to what the device     *)
(* says, whichever way it got there, except for devcmds that were dropped  *)
(* or a restart that found device and relays apart; an unknown word leaves *)
(* them where they were.                                                   *)
RelaysFollow ==
    (todo = <<>> /\ currentStatus # "other") =>
        \A o \in Outputs \ lostRelay : Arrives(o, Position(currentStatus)[o])

(* A motor that runs is switched off in the end.                           *)
MotorStops ==
    \A o \in Outputs :
        level[o] = "ON" ~> (level[o] = "OFF" \/ lostTimer \/ o \in lostRelay)
=============================================================================
