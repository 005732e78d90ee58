----------------------------- MODULE RuleEngine -----------------------------
(***************************************************************************)
(* The rule engine of a manager agent (Manager/RuleEngine.cpp with         *)
(* rule.cpp, ruleset.cpp, eventcounter.cpp, eventcounterset.cpp and        *)
(* BooleanCondition.cpp).  One thread takes the messages of its queue: the *)
(* periodic trigger "eventupdate", events of the devices, the status of    *)
(* the programme and commands.  Events feed leaky counters, some through a *)
(* delay queue, and conditions; after every event and every trigger all    *)
(* the rules are matched and those that fire put an alarm and their        *)
(* enabled actions into one vector, which is then notified.                *)
(*                                                                         *)
(* hsrv::gettime() has the resolution of a microsecond: two messages are   *)
(* never handled at the same time, so each handler starts by letting time  *)
(* pass, and lasts no time.  Time 0 is midnight.  The name tests of        *)
(* EventCounter::match and BooleanCondition::match are the relations       *)
(* "accepts" and "hears" of the configuration.  Left out: texts (comment,  *)
(* video, alias), web pages, and state no code reads: wait_until and       *)
(* wforbid (only RuleSet::isON reads them and nobody calls it), validity   *)
(* times (only Rule::isActive) and the status of counters and conditions.  *)
(* The attributes min_enabling_..._conditions are absent, as in every      *)
(* configuration of the repository.                                        *)
(***************************************************************************)
EXTENDS Integers, Sequences, FiniteSets, SequencesExt

CONSTANTS
    Configurations,\* the configurations looked at, each with the inputs it gets:
                   \*   counter, condition, rule: the XML files (see below),
                   \*   events, lists: events and lists "active" it may get,
                   \*   steps, maxTime: times between two messages, length of a run
    MAXDELAYQSZ,   \* 100 in eventcounter.cpp
    MaxRestarts    \* bound: restarts of the process

None == -1         \* an attribute that is absent: no delay, latency or cycle

ASSUME RuleEngineAssumption ==
    /\ {MAXDELAYQSZ, MaxRestarts} \subseteq Nat
    /\ \A f \in Configurations :
        /\ f.maxTime \in Nat /\ f.steps \subseteq Nat \ {0}
        /\ \A c \in DOMAIN f.counter :
              /\ {f.counter[c].inc, f.counter[c].dec, f.counter[c].memory} \subseteq Nat
              /\ f.counter[c].delay \in Nat \cup {None}
        /\ \A r \in DOMAIN f.rule :
              /\ f.rule[r].mode \in {"always", "programon", "programoff"}
              /\ f.rule[r].clause \subseteq DOMAIN f.counter
              /\ IsFiniteSet(f.rule[r].clause) /\ f.rule[r].cycle \in Int
              /\ f.rule[r].trues \cup f.rule[r].falses \subseteq DOMAIN f.condition

VARIABLES
    conf,       \* the configuration of this manager
    now,        \* the clock
    last_time,  \* last_time of the counters: timeUpdate() treats them together
    counter,    \* counter[c]
    history,    \* history[c]: the EvList, events [at, time] received and counted
    dq,         \* dq[c]: the DelayQueue, [msgs, next_message, next_deadline]
    value,      \* value[b] of the conditions
    rules,      \* rules[r]: status, the flags of the rule and their times
    alarm_on,   \* the programme is not OFF
    active,     \* its list "active"
    saved,      \* saved[r]: attribute "status" of the rule, kept in its file
    restarts,   \* number of restarts
    sent,       \* what the last handler notified
    fired,      \* ghost: rules that fired in the last handler
    counted,    \* ghost: counted[c]: every event c counted since the start
    changed,    \* ghost: time of the last change of programme
    was         \* ghost: was[r]: what held at the last match of r

cvars  == <<counter, history, dq, counted>>
vars   == <<conf, now, last_time, cvars, value, rules, alarm_on, active, saved,
            restarts, sent, fired, changed, was>>

CounterConf   == conf.counter    \* of each: threshold, inc, dec, delay, memory, accepts
ConditionConf == conf.condition  \* threshold and the event names it hears
RuleConf      == conf.rule       \* a sequence: mode, clause, minimum, trues, falses,
                                 \*   latency, cycle, alarm, actions
Counters   == DOMAIN CounterConf
Conditions == DOMAIN ConditionConf
Rules      == DOMAIN RuleConf
Mode(r)    == RuleConf[r].mode
Actions(r) == RuleConf[r].actions

-----------------------------------------------------------------------------
(* Event counters *)

EmptyQueue == [msgs |-> <<>>, next_message |-> 0, next_deadline |-> 0]

\* Index and deadline of the message that is due first.
deadlineUpdate(ms) ==
    LET first == CHOOSE i \in DOMAIN ms :
                    \A j \in DOMAIN ms : \/ ms[i].deadline < ms[j].deadline
                                         \/ ms[i].deadline = ms[j].deadline /\ i <= j
    IN  IF ms = <<>> THEN EmptyQueue
        ELSE [msgs |-> ms, next_message |-> first, next_deadline |-> ms[first].deadline]

Due(q, t) == q.msgs # <<>> /\ t >= q.next_deadline

\* DelayQueue::messageGet: the message and the queue without it.
Got(q)  == q.msgs[q.next_message]
Rest(q) == deadlineUpdate(RemoveAt(q.msgs, q.next_message))

messageAppend(q, c, t) ==
    IF Len(q.msgs) > MAXDELAYQSZ THEN q
    ELSE deadlineUpdate(Append(q.msgs, [at |-> t, deadline |-> t + CounterConf[c].delay]))

\* Mutant: an event of the age of the memory is erased too.
EvListUpdateEager(h, limit) == SelectSeq(h, LAMBDA e : e.time > limit)

\* EvList::update erases while it iterates: the event after an erased one is
\* not looked at.
EvListUpdate(h, limit) ==
    LET erased[i \in 0..Len(h)] == i > 0 /\ h[i].time < limit /\ ~erased[i - 1]
    IN  [j \in 1..Cardinality({i \in DOMAIN h : ~erased[i]}) |->
            h[CHOOSE i \in DOMAIN h :
                /\ ~erased[i]
                /\ Cardinality({k \in 1..i : ~erased[k]}) = j]]

\* One counter as a record, so that its updates compose.
State(c) == [counter |-> counter[c], history |-> history[c], dq |-> dq[c],
             counted |-> counted[c]]

Update(k, c, at, t) ==
    [k EXCEPT !.counter = @ + CounterConf[c].inc,
              !.history = Append(@, [at |-> at, time |-> t]),
              !.counted = Append(@, [at |-> at, time |-> t])]

\* EventCounter::timeUpdate at time t, when "since" has passed.
timeUpdate(k, c, t, since) ==
    LET got     == Due(k.dq, t)
        k1      == IF got THEN [Update(k, c, Got(k.dq).at, t) EXCEPT !.dq = Rest(@)] ELSE k
        left    == k1.counter - CounterConf[c].dec * (IF got THEN 0 ELSE since)
    IN  [k1 EXCEPT !.counter = IF left < 0 THEN 0 ELSE left,
                   !.history = EvListUpdate(@, t - CounterConf[c].memory)]

\* EventCounter::eventUpdate for an event that arrived at time t.
eventUpdate(k, c, e, t) ==
    LET k1 == [k EXCEPT !.dq = messageAppend(@, c, t)]
    IN  IF e \notin CounterConf[c].accepts THEN k
        ELSE IF CounterConf[c].delay = None THEN Update(k, c, t, t)
        ELSE IF Due(k1.dq, t) THEN [Update(k1, c, Got(k1.dq).at, t) EXCEPT !.dq = Rest(@)]
        ELSE k1

\* The counters become k[c].
SetCounters(k) ==
    /\ counter' = [c \in Counters |-> k[c].counter]
    /\ history' = [c \in Counters |-> k[c].history]
    /\ dq'      = [c \in Counters |-> k[c].dq]
    /\ counted' = [c \in Counters |-> k[c].counted]

\* EventCounterSet::clearDQ
clearDQ == dq' = [c \in Counters |-> [dq[c] EXCEPT !.msgs = <<>>]]

-----------------------------------------------------------------------------
(* Rules *)

\* Rule::isNotMember, negated
Enables(r, name, act) ==
    \/ Mode(r) \in {"always", "programoff"}
    \/ name \in act \/ "ALL" \in act

isRuleActive(r, act) ==
    "ALL" \in act \/ RuleConf[r].clause \cup {RuleConf[r].alarm} \subseteq act

\* Not the case that rule r waits for a place on the list of a running programme.
Listed(r) == Mode(r) = "programon" /\ alarm_on => isRuleActive(r, active)

\* The programme lets the rule be matched.
ModeHolds(r) ==
    CASE Mode(r) = "programon"  -> isRuleActive(r, active) /\ alarm_on
      [] Mode(r) = "programoff" -> ~alarm_on
      [] OTHER                  -> TRUE

Active(b, val) == val[b] > ConditionConf[b].threshold

\* mine_t_cond and mine_f_cond when their attributes are absent
TruesHold(r, val)  == \A b \in RuleConf[r].trues : Active(b, val)
FalsesHold(r, val) == \A b \in RuleConf[r].falses : ~Active(b, val)

ClauseHolds(r, cnt) ==
    Cardinality({c \in RuleConf[r].clause : cnt[c] >= CounterConf[c].threshold})
        >= RuleConf[r].minimum

\* Mutant: a flag is never cleared.
LowerNot(flag) == flag

\* prcondition, tcondition or fcondition with its time: set when it was not,
\* cleared when it does not hold
Raise(flag, t) == IF flag.on THEN flag ELSE [on |-> TRUE, since |-> t]
Lower(flag)    == [flag EXCEPT !.on = FALSE]

\* Flags of r after Rule::match: each is looked at only if the ones before hold.
flagsUpdate(r, s, t, val) ==
    LET p == [s EXCEPT !.pr = Raise(@, t)]
        q == [p EXCEPT !.tr = Raise(@, t)]
    IN  CASE ~ModeHolds(r) ->
               IF Mode(r) = "programon" /\ alarm_on THEN s ELSE [s EXCEPT !.pr = Lower(@)]
          [] ModeHolds(r) /\ ~TruesHold(r, val) -> [p EXCEPT !.tr = Lower(@)]
          [] ModeHolds(r) /\ TruesHold(r, val) /\ ~FalsesHold(r, val) ->
               [q EXCEPT !.fa = Lower(@)]
          [] OTHER -> [q EXCEPT !.fa = Raise(@, t)]

\* What the programme and the conditions say of r.
Enabled(r, val) == ModeHolds(r) /\ TruesHold(r, val) /\ FalsesHold(r, val)

\* Rule::match returns true.
Matches(rs, r, t, val, cnt) ==
    LET s == flagsUpdate(r, rs[r], t, val)
    IN  /\ s.status = "ON"
        /\ Enabled(r, val)
        /\ ClauseHolds(r, cnt) \/ s.cycleactive
        /\ RuleConf[r].minimum > 0 => t >= s.latentUntil
        /\ RuleConf[r].minimum = 0 =>
              s.cycleactive \/ t \in {s.pr.since, s.tr.since, s.fa.since}

\* State of r after Rule::match.
matchUpdate(rs, r, t, val, cnt) ==
    LET s == flagsUpdate(r, rs[r], t, val)
        c == RuleConf[r]
    IN  IF rs[r].status # "ON" THEN rs[r]
        ELSE IF ~Matches(rs, r, t, val, cnt) THEN s
        ELSE [s EXCEPT !.cycleactive = FALSE,
                       !.latentUntil = IF c.minimum > 0 /\ c.cycle <= 0 /\ c.latency # None
                                       THEN t + c.latency ELSE @]

EnabledActions(r, act) == SelectSeq(Actions(r), LAMBDA a : Enables(r, a, act))

\* The messages a rule pushes and the fields it writes: it pushes at the end
\* of the vector and writes from the start of it.
addAnswer(answer, r) ==
    LET todo   == EnabledActions(r, active)
        alarm  == [type |-> "alarm", sub |-> RuleConf[r].alarm, alarm |-> "", action |-> "", rule |-> 0]
        rlcmd  == [type |-> "rlcmd", sub |-> "todo", alarm |-> "", action |-> "", rule |-> 0]
        pushed == Append(answer, alarm) \o [j \in 1..Len(todo) |-> rlcmd]
    IN  [i \in DOMAIN pushed |->
            CASE i = 1 -> [pushed[i] EXCEPT !.alarm = RuleConf[r].alarm, !.rule = r]
              [] i \in 2..(Len(todo) + 1) ->
                    [pushed[i] EXCEPT !.action = todo[i - 1], !.rule = r]
              [] OTHER -> pushed[i]]

\* RuleSet::match of the rules rs at time t on the conditions val and the
\* counters cnt, and the notification of the answer.
match(rs, t, val, cnt) ==
    LET firing == {r \in Rules : Matches(rs, r, t, val, cnt)}
    IN  /\ rules' = [r \in Rules |-> matchUpdate(rs, r, t, val, cnt)]
        /\ sent' = FoldLeft(addAnswer, <<>>, SelectSeq([r \in Rules |-> r], LAMBDA r : r \in firing))
        /\ fired' = firing
        /\ was' = [r \in Rules |-> [all |-> Enabled(r, val), listed |-> Listed(r)]]

\* Rule::cycleUpdate
cycleUpdate(s, r, t) ==
    LET cycle == RuleConf[r].cycle
    IN  CASE cycle <= 0 -> [s EXCEPT !.cycleactive = FALSE]
          [] cycle > 0 /\ s.nextcyclestart < 0 ->
                [s EXCEPT !.cycleactive = FALSE,
                          !.nextcyclestart = ((t + cycle - 1) \div cycle) * cycle]
          [] cycle > 0 /\ s.nextcyclestart >= 0 /\ t >= s.nextcyclestart ->
                [s EXCEPT !.cycleactive = TRUE, !.nextcyclestart = @ + cycle]
          [] OTHER -> s

-----------------------------------------------------------------------------
(* The thread *)

\* A constructed rule.  The constructor leaves cycleactive and fcondition
\* uninitialised.
NewRule(st, cyc, fa) ==
    [status |-> st, pr |-> [on |-> FALSE, since |-> 0], tr |-> [on |-> FALSE, since |-> 0],
     fa |-> [on |-> fa, since |-> 0], cycleactive |-> cyc, latentUntil |-> 0,
     nextcyclestart |-> None]

\* State of the process after its start, with the rules as their files say.
Start ==
    /\ last_time' = now' /\ changed' = now'
    /\ SetCounters([c \in Counters |-> [counter |-> 0, history |-> <<>>, dq |-> EmptyQueue,
                                     counted |-> <<>>]])
    /\ value' = [b \in Conditions |-> 0]
    /\ \E g \in [Rules -> BOOLEAN \X BOOLEAN] :
          rules' = [r \in Rules |-> NewRule(saved[r], g[r][1], g[r][2])]
    /\ alarm_on' = FALSE /\ active' = {}
    /\ sent' = <<>> /\ fired' = {}
    /\ was' = [r \in Rules |-> [all |-> FALSE, listed |-> TRUE]]

Init ==
    /\ conf \in Configurations
    /\ now = 0 /\ last_time = 0 /\ changed = 0
    /\ counter = [c \in Counters |-> 0]
    /\ history = [c \in Counters |-> <<>>]
    /\ dq = [c \in Counters |-> EmptyQueue]
    /\ counted = [c \in Counters |-> <<>>]
    /\ value = [b \in Conditions |-> 0]
    /\ saved = [r \in Rules |-> "ON"]
    /\ \E g \in [Rules -> BOOLEAN \X BOOLEAN] :
          rules = [r \in Rules |-> NewRule("ON", g[r][1], g[r][2])]
    /\ alarm_on = FALSE /\ active = {} /\ restarts = 0
    /\ sent = <<>> /\ fired = {}
    /\ was = [r \in Rules |-> [all |-> FALSE, listed |-> TRUE]]

\* Time passes and a message is taken from the queue.
Tick == /\ \E d \in conf.steps : now + d <= conf.maxTime /\ now' = now + d
        /\ UNCHANGED conf

\* No rule is matched.
Quiet == /\ fired' = {}
         /\ UNCHANGED was

\* Mutant: last_time is not updated.
doTriggerStale ==
    LET k == [c \in Counters |-> timeUpdate(State(c), c, now', now' - last_time)]
    IN  /\ Tick
        /\ SetCounters(k)
        /\ match(rules, now', value, [c \in Counters |-> k[c].counter])
        /\ UNCHANGED <<last_time, value, alarm_on, active, saved, restarts, changed>>

\* The trigger "eventupdate": the cycles are looked at only when every counter
\* is at zero, since "||" does not evaluate its right side otherwise.
doTrigger ==
    LET k    == [c \in Counters |-> timeUpdate(State(c), c, now', now' - last_time)]
        cnt  == [c \in Counters |-> k[c].counter]
        rs   == IF \E c \in Counters : cnt[c] > 0 THEN rules
                ELSE [r \in Rules |-> cycleUpdate(rules[r], r, now')]
    IN  /\ Tick
        /\ SetCounters(k)
        /\ last_time' = now'
        /\ match(rs, now', value, cnt)
        /\ UNCHANGED <<value, alarm_on, active, saved, restarts, changed>>

\* BooleanCondition::eventUpdate: the words ON and OFF stand for 1 and 0.
condUpdate(b, e) ==
    IF e[1] \notin ConditionConf[b].hears THEN value[b]
    ELSE IF e[2] = "ON" THEN 1 ELSE 0

\* Any other event: the time is updated twice, by do_work and by
\* EventCounterSet::eventUpdate.
doEvent(e) ==
    LET k    == [c \in Counters |->
                   eventUpdate(timeUpdate(timeUpdate(State(c), c, now', now' - last_time),
                                          c, now', 0), c, e, now')]
        val  == [b \in Conditions |-> condUpdate(b, e)]
    IN  /\ Tick
        /\ SetCounters(k)
        /\ last_time' = now'
        /\ value' = val
        /\ match(rules, now', val, [c \in Counters |-> k[c].counter])
        /\ UNCHANGED <<alarm_on, active, saved, restarts, changed>>

\* Mutant: the delayed events survive the change of programme.
doProgramEventKeep ==
    /\ Tick
    /\ sent' = <<>>
    /\ changed' = now'
    /\ Quiet
    /\ UNCHANGED <<cvars, last_time, value, rules, alarm_on, active, saved, restarts>>

\* The events _SWITCH and _ON become a command for the ProgramEngine.
doProgramEvent ==
    /\ Tick
    /\ clearDQ
    /\ sent' = <<[type |-> "cmd", sub |-> "setprogram", alarm |-> "", action |-> "", rule |-> 0]>>
    /\ changed' = now'
    /\ Quiet
    /\ UNCHANGED <<counter, history, counted, last_time, value, rules, alarm_on, active,
                   saved, restarts>>

\* The ProgramEngine says which programme runs.
doPrgStatus(on, list) ==
    /\ Tick
    /\ alarm_on' = on /\ active' = list
    /\ clearDQ
    /\ changed' = now'
    /\ sent' = <<>>
    /\ Quiet
    /\ UNCHANGED <<counter, history, counted, last_time, value, rules, saved, restarts>>

\* setrules, setrulemode and resetrules change the attribute, not the member
\* that Rule::match reads.
doSetRule(r, st) ==
    /\ Tick
    /\ saved[r] # st
    /\ saved' = [saved EXCEPT ![r] = st]
    /\ sent' = <<>>
    /\ Quiet
    /\ UNCHANGED <<cvars, last_time, value, rules, alarm_on, active, restarts, changed>>

\* main() starts the agent again after it died.
Restart ==
    /\ restarts < MaxRestarts
    /\ restarts' = restarts + 1
    /\ Tick
    /\ Start
    /\ UNCHANGED saved

Next ==
    \/ doTrigger
    \/ \E e \in conf.events : doEvent(e)
    \/ doProgramEvent
    \/ \E on \in BOOLEAN, list \in conf.lists : doPrgStatus(on, list)
    \/ \E r \in Rules, st \in {"ON", "OFF"} : doSetRule(r, st)
    \/ Restart

Spec == Init /\ [][Next]_vars

-----------------------------------------------------------------------------
(* Properties *)

\* EventCounter: a counter without a delay is the leaky bucket of the events
\* counted: the most that the events from some event on add, less what leaks
\* out since it.  Reading the counter often (every trigger, twice per event)
\* changes nothing.  A delayed counter leaks no more than that.
Buckets(c) ==
    LET es == counted[c]
    IN  {0} \cup {CounterConf[c].inc * (Len(es) - j + 1)
                    - CounterConf[c].dec * (last_time - es[j].time) : j \in DOMAIN es}
LeakyBucket ==
    \A c \in Counters :
        /\ \A x \in Buckets(c) : x <= counter[c]
        /\ CounterConf[c].delay = None => counter[c] \in Buckets(c)

\* DelayQueue: a delayed event is counted when its delay has passed and never
\* after a change of the programme that came later than the event.
DelayedEvents ==
    \A c \in Counters : \A i \in DOMAIN counted[c] :
        LET e == counted[c][i]
        IN  /\ CounterConf[c].delay # None => e.time >= e.at + CounterConf[c].delay
            /\ e.time > changed => e.at > changed

\* EvList::update: whatever it skips, an event younger than the memory of the
\* counter is never lost from the history that alarms carry, and the order of
\* the events is kept.
HistoryKept ==
    \A c \in Counters :
        /\ \A i \in DOMAIN counted[c] :
              counted[c][i].time >= last_time - CounterConf[c].memory
                  => counted[c][i] \in Range(history[c])
        /\ \A i, j \in DOMAIN history[c] : i < j => history[c][i].time <= history[c][j].time

\* Rule::match: a rule without events and without cycle fires when the
\* programme and its conditions begin to hold, also if they change together,
\* and not while they hold, even though cycleactive is not initialised.  The
\* one start it misses is being put on the list of a programme already ON.
FiresOnEdge ==
    [][\A r \in Rules :
          RuleConf[r].minimum = 0 =>
              /\ r \in fired' /\ RuleConf[r].cycle <= 0 => ~was[r].all
              /\ (/\ rules[r].status = "ON"
                  /\ was'[r].all /\ ~was[r].all /\ was[r].listed) => r \in fired']_vars

\* rule.cpp:186 "add enabled actions": every rule that fires has its alarm and
\* its enabled actions notified.
AllEnabledActions ==
    \A r \in fired :
        /\ \E i \in DOMAIN sent : sent[i].type = "alarm" /\ sent[i].alarm = RuleConf[r].alarm
        /\ \A a \in Range(EnabledActions(r, active)) :
              \E i \in DOMAIN sent : sent[i].type = "rlcmd" /\ sent[i].action = a

=============================================================================
