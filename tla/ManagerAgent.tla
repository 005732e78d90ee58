---------------------------- MODULE ManagerAgent ----------------------------
(***************************************************************************)
(* The programmes and the timed rules of a manager agent (Manager/): the   *)
(* ProgramEngine thread, which keeps the programme in force and its files, *)
(* the TimedRuleEngine thread with one timed rule, and the ActionEngine    *)
(* thread, which turns what the rule asks for into commands to a device.   *)
(* They talk through SubjectSet::notify, which drops a message while       *)
(* AgentConf::status is OFF or while nobody observes it yet.               *)
(*                                                                         *)
(* Time is the time of the day in units that are longer than the periods   *)
(* of the two triggers: in every unit the Trigger thread sends prgupdate   *)
(* and timedruleupdate at least once, and the threads handle them.  The    *)
(* calls a handler of ProgramEngine still has to make are kept in "todo":  *)
(* the process may die, or the agent be switched OFF, between any two.     *)
(*                                                                         *)
(* Left out: the pages, PREVIOUSP (which nobody reads), cyclic rules, and  *)
(* tr_conditions (checkCondition(NULL) holds when the directory is absent).*)
(***************************************************************************)
EXTENDS Integers, Sequences, FiniteSetsExt

CONSTANTS Day,            \* units of time in a day
          Plan,           \* the files in programs/: the periods of each one
          StartProgram,   \* global.startprogram, "" when it is not given
          Configurations, \* the rule of an installation, the commands and their bound
          MaxQueue,       \* bound: messages a queue holds when a client sends one
          MaxFaults       \* bound: restarts, and times the agent is switched OFF

Missing == "missing"    \* contents of a file that is not there
Empty   == ""           \* ... of one that is empty; no name
NoAck   == "none"

ASSUME ManagerAssumption ==
    /\ Day \in Nat \ {0}
    /\ {"OFF", "MANUAL"} \subseteq DOMAIN Plan
    /\ Missing \notin DOMAIN Plan \cup {StartProgram}
    /\ {MaxQueue, MaxFaults} \subseteq Nat
    /\ \A c \in Configurations :
          /\ c.maxCmds \in Nat /\ c.disk \in {"works", "fails"}
          /\ c.swp # Missing /\ (c.swp = Empty \/ c.cur = "OFF")  \* put aside by _SWITCH

VARIABLES
    conf,       \* the installation: mode, program, from, to; cmds, maxCmds; disk: may
                \* the file system fail
    tod, due,   \* the time of the day, triggers still to be sent in this unit
    status,     \* AgentConf::status
    current,    \* Program::current
    previous,   \* previous_program, the programme last announced
    al,         \* "active": the list last announced
    cur, swp,   \* the files CURRENTP and SWAPPEDOUT ("": nothing to read)
    disk,       \* the file system: rw, or ro, which lets nothing be written
    todo,       \* the rest of the handler ProgramEngine is in
    progQ, trQ, acQ, \* the queues of the three threads
    timedOn,    \* TimedRuleEngine has been started, so it observes
    view,       \* its copy of the programme: name and alarm_on
    rule,       \* the timed rule: active, status, from, to
    enabled,    \* status of the rule's actions
    device,     \* what the actions drive (external)
    acked,      \* the programme acknowledged to the last client (history)
    lastOn,     \* the last one acknowledged or found at a start, but OFF (history)
    missed,     \* the last announcement did not reach the rules (history)
    unsaved,    \* the calls that could not write (history)
    ncmds, nflips, nrestarts

files    == <<cur, swp>>
program  == <<current, previous, al>>
counters == <<ncmds, nflips, nrestarts>>
clock    == <<tod, due>>
history  == <<acked, lastOn, missed, unsaved>>
timed    == <<timedOn, view, rule>>
action   == <<enabled, device>>
vars == <<conf, clock, status, program, files, disk, todo, progQ, trQ, acQ, timed,
          action, history, counters>>
-----------------------------------------------------------------------------
(* Program::isActive: what the first period that holds now lists.  A name  *)
(* without a file, and a period without events, list nothing.              *)
Listed(p, t) ==
    LET on == IF p \notin DOMAIN Plan THEN {}
              ELSE {i \in DOMAIN Plan[p] : /\ Plan[p][i].from <= t
                                           /\ t <= Plan[p][i].to
                                           /\ Plan[p][i].event # {}}
    IN  IF on = {} THEN {} ELSE Plan[p][Min(on)].event

Call(op, p) == [op |-> op, prog |-> p]

(* FileManager::readFile.                                                  *)
Contents(f) == IF f = Missing THEN Empty ELSE f

(* FileManager::saveFile: opening truncates, the line follows.             *)
SaveFile(op, p) == <<Call(op, Empty), Call(op, p)>>

(* The constructor of ProgramEngine: install() writes CURRENTP when it is  *)
(* missing, load() reads it, and takes OFF if it is still missing.  The    *)
(* agent is started for the first time, or after it was left OFF by        *)
(* _SWITCH.                                                                *)
Installed(f) == IF f # Missing THEN f
                ELSE IF StartProgram = Empty THEN "OFF" ELSE StartProgram

Loaded(f) == IF f = Missing THEN "OFF" ELSE f

Init ==
    /\ conf \in Configurations
    /\ tod = 0 /\ due = {}
    /\ status = "ON"
    /\ cur = Installed(conf.cur) /\ swp = conf.swp /\ disk = "rw"
    /\ current = Loaded(cur) /\ previous = Empty /\ al = {}
    /\ todo = <<Call("notify", Empty)>>
    /\ progQ = <<>> /\ trQ = <<>> /\ acQ = <<>>
    /\ timedOn = FALSE
    /\ view = [program |-> Empty, on |-> FALSE]
    /\ rule = [active |-> FALSE, status |-> "ON", from |-> conf.from, to |-> conf.to]
    /\ enabled = "ON" /\ device = "OFF"
    /\ acked = NoAck /\ lastOn = IF current = "OFF" THEN swp ELSE current
    /\ missed = FALSE /\ unsaved = {}
    /\ ncmds = 0 /\ nflips = 0 /\ nrestarts = 0
-----------------------------------------------------------------------------
(* A client's command, through SubjectSet::notify, to the thread it is for.*)
Command(c) ==
    /\ ncmds < conf.maxCmds
    /\ {Len(progQ), Len(trQ), Len(acQ)} \subseteq 0..MaxQueue
    /\ ncmds' = ncmds + 1
    /\ LET to(ops, q) == IF status = "ON" /\ c.op \in ops THEN Append(q, c) ELSE q
       IN  /\ progQ' = to({"setprogram"}, progQ)
           /\ trQ' = IF timedOn THEN to({"rulestatus", "validity"}, trQ) ELSE trQ
           /\ acQ' = to({"setactions"}, acQ)
    /\ UNCHANGED <<conf, clock, status, program, files, disk, todo, timed, action, history,
                   nflips, nrestarts>>

(* Mutant of SetByName: SWAPPEDOUT is kept.                                *)
SetByNameKept(p) ==
    <<Call("load", p), Call("move", Empty)>> \o SaveFile("current", p)

(* ProgramEngine::setprogram: the calls it makes.  A name that is found in *)
(* programs/ is loaded, then the files are written.                        *)
SetByName(p) ==
    <<Call("load", p), Call("move", Empty)>> \o SaveFile("current", p)
    \o <<Call("delete", Empty)>>

(* _SWITCH puts the programme in force aside.                              *)
SwitchToOff ==
    <<Call("move", Empty)>> \o SaveFile("current", "OFF")
    \o SaveFile("swapped", Contents(cur)) \o <<Call("load", "OFF")>>

(* _SWITCH and _ON take it back when the current one is OFF.               *)
Resumed == IF swp \in {Empty, "OFF"} THEN "MANUAL" ELSE swp

Resume ==
    <<Call("move", Empty)>> \o SaveFile("current", Resumed)
    \o <<Call("delete", Empty), Call("load", Resumed)>>

SetProgram(p) ==
    CASE p = "_SWITCH" /\ cur # "OFF" -> SwitchToOff
      [] p \in {"_SWITCH", "_ON"} /\ cur = "OFF" -> Resume
      [] p \in DOMAIN Plan -> SetByName(p)
      [] OTHER -> <<>>

(* Mutant of Handle: the client is answered before the files are written.  *)
AnswerFirst(c) ==
    <<Call("ack", Empty)>> \o SetProgram(c.prog) \o <<Call("notify", Empty)>>

(* The branch of do_work for setprogram.                                   *)
Handle(c) ==
    SetProgram(c.prog) \o <<Call("ack", Empty), Call("notify", Empty)>>

(* Mutant of Announced: a programme that lists the same is not announced.  *)
AnnouncedIfListed(change, list) ==
    \/ change /\ current = "OFF"
    \/ list # al

(* Mutant of Announced: the end of a period is not looked at.              *)
AnnouncedIfActive(change, list) ==
    \/ change /\ (current = "OFF" \/ previous # current)
    \/ list \notin {{}, al}

(* program_notify, has_changed: OFF is always announced on a command, a    *)
(* new programme too, and otherwise only what changes the list.            *)
Announced(change, list) ==
    \/ change /\ current = "OFF"
    \/ change /\ previous # current
    \/ list # al

(* Its effect: previous_program and al are updated, and the rules hear of  *)
(* it if they observe and the agent is ON.                                 *)
ProgramNotify(change) ==
    LET list  == IF change /\ current = "OFF" THEN {} ELSE Listed(current, tod)
        heard == status = "ON" /\ timedOn
    IN  IF Announced(change, list)
        THEN /\ al' = list /\ previous' = current
             /\ missed' = ~heard
             /\ trQ' = IF heard
                       THEN Append(trQ, [op |-> "prgstatus", prog |-> current, list |-> list])
                       ELSE trQ
        ELSE UNCHANGED <<al, previous, missed, trQ>>

(* ProgramEngine::do_work takes its next message.                          *)
ProgramReceive ==
    /\ todo = <<>> /\ progQ # <<>>
    /\ progQ' = Tail(progQ)
    /\ \/ /\ Head(progQ).op = "prgupdate"
          /\ ProgramNotify(FALSE)
          /\ UNCHANGED <<todo, acked>>
       \/ /\ Head(progQ).op = "setprogram"
          /\ todo' = Handle(Head(progQ))
          /\ acked' = NoAck
          /\ UNCHANGED <<al, previous, missed, trQ>>
    /\ UNCHANGED <<conf, clock, status, current, files, disk, unsaved, acQ, timed, action, lastOn,
                   counters>>

(* It makes the next call of the handler it is in.  The calls that move,   *)
(* write or delete a file return false when they cannot, and nobody looks. *)
ProgramStep ==
    /\ todo # <<>>
    /\ todo' = Tail(todo)
    /\ LET c     == Head(todo)
           fails == disk = "ro" /\ c.op \in {"move", "current", "delete", "swapped"}
       IN  /\ cur' = CASE fails -> cur
                       [] c.op = "move" -> Missing [] c.op = "current" -> c.prog [] OTHER -> cur
           /\ swp' = CASE fails -> swp
                       [] c.op = "delete" -> Empty [] c.op = "swapped" -> c.prog [] OTHER -> swp
           /\ unsaved' = IF fails THEN unsaved \cup {c.op} ELSE unsaved
           /\ current' = IF c.op = "load" THEN c.prog ELSE current
           /\ acked' = IF c.op = "ack" THEN current ELSE acked
           /\ lastOn' = IF c.op = "ack" /\ current # "OFF" THEN current ELSE lastOn
           /\ IF c.op = "notify" THEN ProgramNotify(TRUE)
              ELSE UNCHANGED <<al, previous, missed, trQ>>
    /\ UNCHANGED <<conf, clock, status, disk, progQ, acQ, timed, action, counters>>
-----------------------------------------------------------------------------
(* TimedRule::isInRange and checkProgramName.                              *)
InRange(t) == rule.from <= t /\ t <= rule.to

Applies == conf.program \in {"ALL", view.program}

(* What the rule waits for, for the modes timed and program_timed.         *)
Holds == CASE conf.mode = "timed" -> InRange(tod)
           [] conf.mode = "program_timed" -> Applies /\ view.on /\ InRange(tod)

(* Mutant of TimeUpdate: the branch that resets is missing.               *)
TimeUpdateSticky == rule.status = "ON" /\ (rule.active \/ Holds)

(* TimedRule::timeUpdate: whether the rule is active after it; a change    *)
(* asks for the set or the reset actions.                                  *)
TimeUpdate == rule.status = "ON" /\ Holds

(* setValidityTime accepts two times of the day, in any order.             *)
ValidTimes(from, to) == from \in 0..Day-1 /\ to \in 1..Day

(* TimedRuleEngine::do_work.                                               *)
TimedReceive ==
    /\ timedOn /\ trQ # <<>>
    /\ LET m == Head(trQ)
           change == m.op = "update" /\ TimeUpdate # rule.active
       IN  /\ trQ' = Tail(trQ)
           /\ view' = IF m.op = "prgstatus"
                      THEN [program |-> m.prog, on |-> m.prog # "OFF" /\ m.list # {}]
                      ELSE view
           /\ rule' = CASE m.op = "update" -> [rule EXCEPT !.active = TimeUpdate]
                        [] m.op = "rulestatus" -> [rule EXCEPT !.status = m.val]
                        [] m.op = "validity" /\ ValidTimes(m.from, m.to) ->
                             [rule EXCEPT !.from = m.from, !.to = m.to]
                        [] OTHER -> rule
           /\ acQ' = IF change /\ status = "ON"
                     THEN Append(acQ, [op |-> "rlcmd", val |-> IF TimeUpdate THEN "ON" ELSE "OFF"])
                     ELSE acQ
    /\ UNCHANGED <<conf, clock, status, program, files, disk, todo, progQ, timedOn, action,
                   history, counters>>

(* ActionEngine::do_work; Action::exec sends the command to the device     *)
(* only if the action is ON.                                               *)
ActionReceive ==
    /\ acQ # <<>>
    /\ acQ' = Tail(acQ)
    /\ enabled' = IF Head(acQ).op = "setactions" THEN Head(acQ).val ELSE enabled
    /\ device' = IF Head(acQ).op = "rlcmd" /\ enabled = "ON" /\ status = "ON"
                 THEN Head(acQ).val ELSE device
    /\ UNCHANGED <<conf, clock, status, program, files, disk, todo, progQ, trQ, timed, history,
                   counters>>
-----------------------------------------------------------------------------
Quiet == timedOn /\ todo = <<>> /\ progQ = <<>> /\ trQ = <<>> /\ acQ = <<>>

(* Trigger::exec: in each unit of time both triggers are due.              *)
Tick ==
    /\ due = {} /\ Quiet
    /\ tod' = (tod + 1) % Day
    /\ due' = {"prgupdate", "update"}
    /\ UNCHANGED <<conf, status, program, files, disk, todo, progQ, trQ, acQ, timed, action,
                   history, counters>>

SendTrigger(x) ==
    /\ x \in due
    /\ due' = due \ {x}
    /\ progQ' = IF status = "ON" /\ x = "prgupdate" THEN Append(progQ, [op |-> x]) ELSE progQ
    /\ trQ' = IF status = "ON" /\ timedOn /\ x = "update" THEN Append(trQ, [op |-> x]) ELSE trQ
    /\ UNCHANGED <<conf, tod, status, program, files, disk, todo, acQ, timed, action, history,
                   counters>>

(* The constructor of Agent starts the timed rules last, when the programme*)
(* engine may already have announced its programme.                        *)
StartTimed ==
    /\ ~timedOn
    /\ timedOn' = TRUE
    /\ UNCHANGED <<conf, clock, status, program, files, disk, todo, progQ, trQ, acQ, view, rule,
                   action, history, counters>>

(* AgentNet switches the agent OFF for a greater copy of it, and ON again. *)
SwitchOff ==
    /\ status = "ON" /\ nflips + nrestarts < MaxFaults
    /\ status' = "OFF" /\ nflips' = nflips + 1
    /\ UNCHANGED <<conf, clock, program, files, disk, todo, progQ, trQ, acQ, timed, action,
                   history, ncmds, nrestarts>>

SwitchOn ==
    /\ status = "OFF"
    /\ status' = "ON"
    /\ UNCHANGED <<conf, clock, program, files, disk, todo, progQ, trQ, acQ, timed, action,
                   history, counters>>

(* The file system is mounted read-only after an error.                    *)
DiskFails ==
    /\ disk = "rw" /\ conf.disk = "fails"
    /\ disk' = "ro"
    /\ UNCHANGED <<conf, clock, status, program, files, todo, progQ, trQ, acQ, timed, action,
                   history, counters>>

(* The process dies and is started again: the files, the attributes of the *)
(* rule and the status of the actions are what is left.                    *)
Restart ==
    /\ nflips + nrestarts < MaxFaults
    /\ nrestarts' = nrestarts + 1
    /\ cur' = IF disk = "ro" THEN cur ELSE Installed(cur)
    /\ unsaved' = IF cur' = Missing THEN unsaved \cup {"install"} ELSE unsaved
    /\ current' = Loaded(cur') /\ previous' = Empty /\ al' = {}
    /\ todo' = <<Call("notify", Empty)>>
    /\ progQ' = <<>> /\ trQ' = <<>> /\ acQ' = <<>>
    /\ timedOn' = FALSE
    /\ view' = [program |-> Empty, on |-> FALSE]
    /\ rule' = [rule EXCEPT !.active = FALSE]
    /\ status' = "ON"
    /\ missed' = FALSE
    /\ lastOn' = IF current' = "OFF" THEN lastOn ELSE current'
    /\ UNCHANGED <<conf, clock, swp, disk, action, acked, ncmds, nflips>>

Next ==
    \/ \E c \in conf.cmds : Command(c)
    \/ ProgramReceive \/ ProgramStep
    \/ TimedReceive \/ ActionReceive
    \/ Tick \/ \E x \in due : SendTrigger(x)
    \/ StartTimed \/ SwitchOff \/ SwitchOn \/ DiskFails \/ Restart

(* The threads run and the Trigger does not stop.  Nobody has to send      *)
(* commands, or to switch the agent ON again.                              *)
Fairness ==
    /\ WF_vars(ProgramReceive) /\ WF_vars(ProgramStep)
    /\ WF_vars(TimedReceive) /\ WF_vars(ActionReceive)
    /\ WF_vars(Tick) /\ WF_vars(\E x \in due : SendTrigger(x))
    /\ WF_vars(StartTimed)

Spec == Init /\ [][Next]_vars /\ Fairness
-----------------------------------------------------------------------------
(* What setprogram has acknowledged with rpcNotify is the programme in     *)
(* force and the one in CURRENTP, whatever restarts follow, until the      *)
(* engine takes the next command (ProgramEngine.cpp:43-46); unless a file  *)
(* could not be written, which setprogram does not notice                  *)
(* (filemanager.cpp:494-497).                                              *)
AckIsDurable == acked # NoAck /\ unsaved = {} => cur = acked /\ current = acked

(* From OFF, _SWITCH and _ON bring back the last programme that was in     *)
(* force, or MANUAL when it is not known, and never an older one: CURRENTP *)
(* and SWAPPEDOUT are not written together, but it takes two crashes, or a *)
(* file that cannot be written, to leave a stale SWAPPEDOUT behind         *)
(* (ProgramEngine.cpp:78-107).                                             *)
ResumesTheLast ==
    current = "OFF" /\ todo = <<>> /\ nrestarts <= 1 /\ unsaved = {} => Resumed \in {lastOn, "MANUAL"}

(* Unless an announcement was dropped, the timed rules know the programme  *)
(* in force and whether its list is empty, once the threads are idle       *)
(* (program_notify, ProgramEngine.cpp:120-179).                            *)
RulesKnowProgram ==
    Quiet /\ ~missed =>
        /\ view.program = current
        /\ view.on = (current # "OFF" /\ al # {})

(* A programme with periods repairs a dropped announcement by itself: the  *)
(* list changes during the day and is announced again.  (MANUAL and AUTO   *)
(* owe this to the minute that their period, ending at 23:59:00, leaves    *)
(* out, program.cpp:202; OFF is never repaired.)  An agent that stays OFF  *)
(* for ever announces nothing.                                             *)
RulesCatchUp ==
    LET changes == \E t, u \in 0..Day-1 : Listed(current, t) # Listed(current, u)
    IN  []<>(status = "ON") => (missed /\ changes ~> ~missed \/ ~changes)

(* A rule that stays ON, with a window that is not the whole day and meets *)
(* the periods of the programme in force for longer than one unit (until   *)
(* both triggers have come), switches its device ON and OFF every day:     *)
(* what drops, restarts and commands left behind is repaired, although     *)
(* "active" is not saved (timedrule.cpp:30), if the agent does not stay    *)
(* OFF for ever.                                                           *)
DailyCycle ==
    LET lists(t) == InRange(t) /\ (conf.mode = "timed" \/ Listed(current, t) # {})
        works == /\ rule.status = "ON" /\ enabled = "ON"
                 /\ conf.mode = "timed" \/ conf.program \in {"ALL", current}
                 /\ \E t \in 0..Day-1 : ~InRange(t)
                 /\ \E t \in 0..Day-2 : lists(t) /\ lists(t + 1)
    IN  []<>(status = "ON") /\ <>[]works => []<>(device = "ON") /\ []<>(device = "OFF")
=============================================================================
