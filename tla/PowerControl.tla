---------------------------- MODULE PowerControl ----------------------------
(***************************************************************************)
(* The load controller (PwrControl/): a Controller thread that receives    *)
(* the readings of a meter, switches loads OFF when the consumption is     *)
(* over the threshold and ON again when there is room for them, learns     *)
(* from each stop how much the load takes, and repeats the commands at     *)
(* every checkalignement trigger.  The loop is open: Scheduler registers   *)
(* for the events of the sensors only, so the mode of a control is what    *)
(* was last asked for and not what the device says.                        *)
(*                                                                         *)
(* A unit of time is the period of the meter.  Normally a reading is       *)
(* handled and its command carried out within the unit; a bounded number   *)
(* of times it is not, and the next reading is taken too early.  Commands  *)
(* may be lost.  The meter, the relays and the consumption are external.   *)
(*                                                                         *)
(* Left out: the pages, the change of the controlling sensor (one sensor), *)
(* and the creation of device files.                                       *)
(***************************************************************************)
EXTENDS Integers, Sequences, SequencesExt

CONSTANTS Load,         \* what each control really takes: a sequence
          Nominal,      \* nominalload of each control at the start
          Priority,     \* priority of each control at the start
          Bases,        \* consumption that is not controlled
          Threshold,    \* threshold of the sensor at the start
          Latency,      \* latency of the controls, in units
          AlignPeriod,  \* period of checkalignement, in units
          Commands,     \* what a client may ask for
          MaxCmds,      \* bound: commands of the client
          MaxBase,      \* bound: changes of the other consumption
          MaxLost,      \* bound: lost commands
          MaxLate,      \* bound: readings taken before the last was handled
          MaxRestarts   \* bound: restarts of the process

Controls == DOMAIN Load

ASSUME PowerAssumption ==
    /\ Load \in Seq(Nat) /\ Nominal \in Seq(Nat) /\ Priority \in Seq(Nat)
    /\ Len(Nominal) = Len(Load) /\ Len(Priority) = Len(Load)
    /\ Latency \in Nat /\ AlignPeriod \in Nat
    /\ Latency < AlignPeriod     \* 10 s and 29 s as shipped
    /\ {MaxCmds, MaxBase, MaxLost, MaxLate, MaxRestarts} \subseteq Nat

VARIABLES
    enabled,        \* status of the scheduler
    threshold,      \* of the sensor, saved in its file
    status, mode, priority, nominalload, \* attributes of the controls, saved in files
    load_estimate,  \* learned at a stop, 0 when not known
    wait,           \* units until wait_until
    stopped,        \* <<>>, or last_stopped and targetvalue_atstop
    events,         \* queue of the Controller
    commands,       \* commands on their way to the relays
    on,             \* the relays
    base,           \* consumption that is not controlled
    align,          \* units since the last alignment
    ncmds, nbase, nlost, nlate, nrestarts

attributes == <<enabled, threshold, status, mode, priority, nominalload>>
memory     == <<load_estimate, wait, stopped>>
world      == <<on, base>>
counters   == <<ncmds, nbase, nlost, nlate, nrestarts>>
vars == <<attributes, memory, events, commands, world, align, counters>>

Total == base + MapThenSumSet(LAMBDA c : IF on[c] THEN Load[c] ELSE 0, Controls)

Init ==
    /\ enabled = "ON" /\ threshold = Threshold
    /\ status = [c \in Controls |-> "ON"]
    /\ mode = [c \in Controls |-> "UN"]
    /\ priority = [c \in Controls |-> Priority[c]]
    /\ nominalload = [c \in Controls |-> Nominal[c]]
    /\ load_estimate = [c \in Controls |-> 0]
    /\ wait = [c \in Controls |-> 0]
    /\ stopped = <<>>
    /\ events = <<>> /\ commands = <<>>
    /\ on \in [Controls -> BOOLEAN] /\ base \in Bases
    /\ align = 0
    /\ ncmds = 0 /\ nbase = 0 /\ nlost = 0 /\ nlate = 0 /\ nrestarts = 0
-----------------------------------------------------------------------------
(* What Control::stop and start do for the controls in S: the mode, the    *)
(* time until which they are left alone, and the commands, of which some   *)
(* may be lost on the way.                                                 *)
Switch(S, to) ==
    LET cmds == SetToSeq({[control |-> c, value |-> to[c] = "ON"] : c \in S})
    IN  /\ mode' = [c \in Controls |-> IF c \in S THEN to[c] ELSE mode[c]]
        /\ wait' = [c \in Controls |-> IF c \in S THEN Latency ELSE wait[c]]
        /\ \/ commands' = commands \o cmds /\ UNCHANGED nlost
           \/ /\ S # {} /\ nlost < MaxLost
              /\ nlost' = nlost + 1
              /\ UNCHANGED commands

MayStop(c) == wait[c] = 0 /\ status[c] = "ON" /\ mode[c] = "ON"

(* Mutant of Needs: what was learned is not used.                          *)
NeedsNominal(c) == nominalload[c]

Needs(c) == IF load_estimate[c] = 0 THEN nominalload[c] ELSE load_estimate[c]

(* mayStart leaves a tenth of what is available: available * 0.9 >= load.  *)
MayStart(c, available) ==
    /\ wait[c] = 0 /\ status[c] = "ON" /\ mode[c] # "ON"
    /\ 9 * available >= 10 * Needs(c)

(* Mutant of MinPriority: the search starts from priority 1.               *)
MinPriorityOne == 1

(* The priority from which reduceLoad starts its search: loads at or above *)
(* it are never shed.                                                      *)
MinPriority == 1000

(* reduceLoad: the first of the lowest priority.                           *)
reduceLoad(current) ==
    LET may  == {c \in Controls : MayStop(c) /\ priority[c] < MinPriority}
        low  == {c \in may : \A d \in may : priority[c] <= priority[d]}
        m    == Min(low)
    IN  IF may = {} THEN Switch({}, mode) /\ stopped' = <<>>
        ELSE /\ Switch({m}, [mode EXCEPT ![m] = "OFF"])
             /\ stopped' = <<[control |-> m, value |-> current]>>

(* tryIncreaseLoad: the last of the highest priority that fits.            *)
tryIncreaseLoad(available) ==
    LET may  == {c \in Controls : MayStart(c, available)}
        high == {c \in may : \A d \in may : priority[d] <= priority[c]}
        m    == Max(high)
    IN  /\ IF may = {} THEN Switch({}, mode) ELSE Switch({m}, [mode EXCEPT ![m] = "ON"])
        /\ stopped' = <<>>

(* checkControl first learns from the last stop: the difference of two     *)
(* readings, if the consumption went down.                                 *)
Learned(current) ==
    IF stopped # <<>> /\ stopped[1].value > current
    THEN [load_estimate EXCEPT ![stopped[1].control] = stopped[1].value - current]
    ELSE load_estimate

checkControl(current) ==
    /\ load_estimate' = Learned(current)
    /\ CASE current > threshold -> reduceLoad(current)
         [] current < threshold -> tryIncreaseLoad(threshold - current)
         [] OTHER -> Switch({}, mode) /\ stopped' = <<>>

(* Mutant of aligneControl: only what has not been asked for is repeated.  *)
aligneControlUnforced == Switch({}, mode) /\ UNCHANGED <<load_estimate, stopped>>

(* aligneControl: every control that is ON or OFF is told so again.        *)
aligneControl ==
    /\ Switch({c \in Controls : status[c] = "ON" /\ mode[c] # "UN"}, mode)
    /\ UNCHANGED <<load_estimate, stopped>>

(* Controller::do_work; nothing is controlled while the scheduler is OFF.  *)
Receive ==
    /\ events # <<>>
    /\ events' = Tail(events)
    /\ IF enabled # "ON" THEN UNCHANGED <<mode, memory, commands, nlost>>
       ELSE IF Head(events).op = "reading" THEN checkControl(Head(events).value)
       ELSE aligneControl
    /\ UNCHANGED <<enabled, threshold, status, priority, nominalload, world, align, ncmds, nbase,
                   nlate, nrestarts>>

(* setcontrol and resetcontrol change the attributes and command nothing;  *)
(* resetcontrol without a name is for every control.  setschedulerstatus   *)
(* sets the status of the scheduler, settarget the threshold.              *)
Command(m) ==
    /\ ncmds < MaxCmds
    /\ ncmds' = ncmds + 1
    /\ LET set(f, op, v) ==
             [c \in Controls |-> IF m.op = op /\ c \in m.controls THEN v ELSE f[c]]
       IN  /\ status' = set(status, "status", m.value)
           /\ mode' = set(set(mode, "mode", m.value), "reset", "OFF")
           /\ priority' = set(set(priority, "priority", m.value), "reset", 0)
           /\ nominalload' = set(nominalload, "nominalload", m.value)
           /\ enabled' = IF m.op = "scheduler" THEN m.value ELSE enabled
           /\ threshold' = IF m.op = "threshold" THEN m.value ELSE threshold
    /\ UNCHANGED <<memory, events, commands, world, align, nbase, nlost, nlate, nrestarts>>
-----------------------------------------------------------------------------
(* A command reaches its relay.                                            *)
Deliver ==
    /\ commands # <<>>
    /\ commands' = Tail(commands)
    /\ on' = [on EXCEPT ![Head(commands).control] = Head(commands).value]
    /\ UNCHANGED <<attributes, memory, events, base, align, counters>>

(* A unit of time: the meter sends a reading, and at the end of a period   *)
(* the Trigger sends checkalignement.                                      *)
Tick ==
    /\ \/ events = <<>> /\ commands = <<>> /\ UNCHANGED nlate
       \/ /\ events # <<>> \/ commands # <<>>
          /\ nlate < MaxLate /\ nlate' = nlate + 1
    /\ wait' = [c \in Controls |-> IF wait[c] = 0 THEN 0 ELSE wait[c] - 1]
    /\ align' = (align + 1) % AlignPeriod
    /\ events' = Append(events, [op |-> "reading", value |-> Total])
                 \o IF align' = 0 THEN <<[op |-> "align"]>> ELSE <<>>
    /\ UNCHANGED <<attributes, load_estimate, stopped, commands, world, ncmds, nbase, nlost,
                   nrestarts>>

BaseChanges ==
    /\ nbase < MaxBase
    /\ nbase' = nbase + 1
    /\ base' \in Bases \ {base}
    /\ UNCHANGED <<attributes, memory, events, commands, on, align, ncmds, nlost, nlate,
                   nrestarts>>

(* The attributes of the controls are saved, what was learned is not, and  *)
(* the status of the scheduler is the configured one.                      *)
Restart ==
    /\ nrestarts < MaxRestarts
    /\ nrestarts' = nrestarts + 1
    /\ enabled' = "ON"
    /\ load_estimate' = [c \in Controls |-> 0]
    /\ wait' = [c \in Controls |-> 0]
    /\ stopped' = <<>>
    /\ events' = <<>>
    /\ UNCHANGED <<threshold, status, mode, priority, nominalload, commands, world, align, ncmds,
                   nbase, nlost, nlate>>

Next ==
    \/ Receive \/ Deliver \/ Tick \/ BaseChanges \/ Restart
    \/ \E m \in Commands : Command(m)

(* The Controller runs, time passes and what is not lost arrives.          *)
Fairness == WF_vars(Receive) /\ WF_vars(Deliver) /\ WF_vars(Tick)

Spec == Init /\ [][Next]_vars /\ Fairness
-----------------------------------------------------------------------------
(* An overload does not last while a load can be shed: alignment puts      *)
(* wait_until off again and again, but never for its whole period, since   *)
(* Latency < AlignPeriod (Control.cpp:39, 54, Scheduler.cpp:78).           *)
OverloadIsShed ==
    LET sheddable == \E c \in Controls : status[c] = "ON" /\ mode[c] = "ON" /\ priority[c] < 1000
    IN  Total > threshold /\ sheddable /\ enabled = "ON" ~>
            Total <= threshold \/ ~sheddable \/ enabled # "ON"

(* When consumption and configuration stay the same, the controller stops  *)
(* switching: a load that did not fit is learned and not tried again and   *)
(* again, even after lost commands and untimely readings gave wrong        *)
(* estimates (Scheduler.cpp:71-77, Control.cpp:25-36).                     *)
Settles == <>[][on' = on]_on

(* The relay of a control follows its mode in the end, although the loop   *)
(* is open and commands are lost: alignment repeats them                   *)
(* (Scheduler.cpp:83-91).                                                  *)
RelayFollowsMode ==
    \A c \in Controls :
        <>[](enabled = "ON" /\ status[c] = "ON" /\ mode[c] # "UN")
            => []<>(on[c] = (mode[c] = "ON"))
=============================================================================
