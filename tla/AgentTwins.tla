----------------------------- MODULE AgentTwins -----------------------------
(***************************************************************************)
(* Redundant copies of one agent.  Copies with the same agentname run on   *)
(* several hosts and multicast their status; one that hears a copy with a  *)
(* greater ip stands by (AgentConf::status OFF, so SubjectSet::notify      *)
(* drops everything), and takes over when it has heard none for more than  *)
(* validityTime.                                                           *)
(*                                                                         *)
(* In each process the thread of send_status and the thread of recv_status *)
(* work on myinfo and on AgentConf::status without a lock, so every read   *)
(* and every assignment of the two is a step of its own.                   *)
(*                                                                         *)
(* Time is counted in periods (NetPeriods): in a period each running       *)
(* process goes once through the loop of send_status, and a datagram is    *)
(* received, or lost, in the period in which it was sent.                  *)
(***************************************************************************)
EXTENDS NetPeriods

CONSTANTS Twins,          \* the copies, by the rank of their ip
          MaxCrashes      \* bound: processes that die

ASSUME TwinsAssumption ==
    /\ Twins \subseteq Nat
    /\ validityTime > 0
    /\ MaxCrashes \in Nat

VARIABLES
    up,         \* the processes that run
    mystatus,   \* myinfo's "status": "active" or "waiting"
    silence,    \* periods since myinfo->timestamp
    status,     \* AgentConf::status
    file,       \* the file CURRENTSTATUS
    send,       \* where the thread of send_status is
    recv,       \* where the thread of recv_status is
    datagrams,  \* datagrams[i]: the senders whose announcement i has not read
    heard,      \* processes that heard a greater ip in this period (history)
    doubled,    \* doubled[i]: consecutive periods at whose end i was ON
                \* although it had heard a greater ip (history)
    ncrashes

local    == <<mystatus, silence, status, file>>
threads  == <<send, recv>>
twinsCounters == <<ncrashes, nlosses>>
twinsVars     == <<up, local, threads, datagrams, heard, doubled, twinsCounters>>

-----------------------------------------------------------------------------
(* All copies have just started; see Start.                                *)
TwinsInit ==
    /\ up = Twins
    /\ mystatus = [i \in Twins |-> "active"]
    /\ silence = [i \in Twins |-> validityTime + 1]
    /\ status = [i \in Twins |-> "ON"]
    /\ file = status
    /\ send = [i \in Twins |-> "test"]
    /\ recv = [i \in Twins |-> "poll"]
    /\ datagrams = [i \in Twins |-> {}]
    /\ heard = {}
    /\ doubled = [i \in Twins |-> 0]
    /\ ncrashes = 0 /\ nlosses = 0

(* AgentConf::setStatus(st) changes the status and the file.               *)
setStatus(i, st) ==
    /\ status' = [status EXCEPT ![i] = st]
    /\ file' = [file EXCEPT ![i] = st]

(* send_status: an active copy announces itself, a waiting one looks how   *)
(* long it has heard nothing.                                              *)
testStatus(i) ==
    /\ i \in up
    /\ send[i] = "test"
    /\ send' = [send EXCEPT ![i] =
                  IF mystatus[i] # "active" /\ silence[i] > validityTime
                  THEN "activate" ELSE "announce"]
    /\ UNCHANGED <<up, local, recv, datagrams, heard, doubled, twinsCounters>>

(* myinfo->add("status", "active") ...                                     *)
activate(i) ==
    /\ i \in up
    /\ send[i] = "activate"
    /\ mystatus' = [mystatus EXCEPT ![i] = "active"]
    /\ send' = [send EXCEPT ![i] = "switch"]
    /\ UNCHANGED <<up, silence, status, file, recv, datagrams, heard, doubled, twinsCounters>>

(* ... and AgentConf::setStatus(ON).                                       *)
switchON(i) ==
    /\ i \in up
    /\ send[i] = "switch"
    /\ setStatus(i, "ON")
    /\ send' = [send EXCEPT ![i] = "announce"]
    /\ UNCHANGED <<up, mystatus, silence, recv, datagrams, heard, doubled, twinsCounters>>

(* The status is read once more before the message is sent.                *)
announceStatus(i) ==
    /\ i \in up
    /\ send[i] = "announce"
    /\ datagrams' = IF mystatus[i] = "active"
                    THEN [j \in Twins |-> IF j \in up \ {i}
                                          THEN datagrams[j] \cup {i} ELSE datagrams[j]]
                    ELSE datagrams
    /\ send' = [send EXCEPT ![i] = "sleep"]
    /\ UNCHANGED <<up, local, recv, heard, doubled, twinsCounters>>

(* Mutant of recvStatus: the timestamp is not set.                         *)
recvUnstamped(i, j) ==
    /\ i \in up
    /\ recv[i] = "poll"
    /\ j \in datagrams[i]
    /\ datagrams' = [datagrams EXCEPT ![i] = @ \ {j}]
    /\ recv' = IF j > i THEN [recv EXCEPT ![i] = "demote"] ELSE recv
    /\ heard' = IF j > i THEN heard \cup {i} ELSE heard
    /\ UNCHANGED <<up, local, send, doubled, twinsCounters>>

(* Mutant of recvStatus: the comparison of the ips turned round.           *)
recvLesser(i, j) ==
    /\ i \in up
    /\ recv[i] = "poll"
    /\ j \in datagrams[i]
    /\ datagrams' = [datagrams EXCEPT ![i] = @ \ {j}]
    /\ silence' = IF j < i THEN [silence EXCEPT ![i] = 0] ELSE silence
    /\ recv' = IF j < i THEN [recv EXCEPT ![i] = "demote"] ELSE recv
    /\ UNCHANGED <<up, mystatus, status, file, send, heard, doubled, twinsCounters>>

(* recv_status reads the announcement of copy j: only a greater ip counts. *)
recvStatus(i, j) ==
    /\ i \in up
    /\ recv[i] = "poll"
    /\ j \in datagrams[i]
    /\ datagrams' = [datagrams EXCEPT ![i] = @ \ {j}]
    /\ silence' = IF j > i THEN [silence EXCEPT ![i] = 0] ELSE silence
    /\ recv' = IF j > i THEN [recv EXCEPT ![i] = "demote"] ELSE recv
    /\ heard' = IF j > i THEN heard \cup {i} ELSE heard
    /\ UNCHANGED <<up, mystatus, status, file, send, doubled, twinsCounters>>

(* myinfo->add("status", "waiting") ...                                    *)
demote(i) ==
    /\ i \in up
    /\ recv[i] = "demote"
    /\ mystatus' = [mystatus EXCEPT ![i] = "waiting"]
    /\ recv' = [recv EXCEPT ![i] = "switch"]
    /\ UNCHANGED <<up, silence, status, file, send, datagrams, heard, doubled, twinsCounters>>

(* ... and AgentConf::setStatus(OFF).                                      *)
switchOFF(i) ==
    /\ i \in up
    /\ recv[i] = "switch"
    /\ setStatus(i, "OFF")
    /\ recv' = [recv EXCEPT ![i] = "poll"]
    /\ UNCHANGED <<up, mystatus, silence, send, datagrams, heard, doubled, twinsCounters>>

(* A datagram is lost.                                                     *)
loseStatus(i, j) ==
    /\ nlosses < MaxLosses
    /\ j \in datagrams[i]
    /\ nlosses' = nlosses + 1
    /\ datagrams' = [datagrams EXCEPT ![i] = @ \ {j}]
    /\ UNCHANGED <<up, local, threads, heard, doubled, ncrashes>>

(* A process dies; what it had not read is gone.                           *)
crash(i) ==
    /\ i \in up
    /\ ncrashes < MaxCrashes
    /\ ncrashes' = ncrashes + 1
    /\ up' = up \ {i}
    /\ datagrams' = [datagrams EXCEPT ![i] = {}]
    /\ heard' = heard \ {i}
    /\ UNCHANGED <<local, threads, doubled, nlosses>>

(* The parent process starts it again: Agent::Agent calls setStatus(),     *)
(* which takes the status from the file, and then AgentNet::init, whose    *)
(* retrieveInfo makes a new active myinfo and calls setStatus(ON).  The    *)
(* loop of send_status is entered in the next period.                      *)
Start(i) ==
    /\ i \notin up
    /\ up' = up \cup {i}
    /\ mystatus' = [mystatus EXCEPT ![i] = "active"]
    /\ silence' = [silence EXCEPT ![i] = validityTime + 1]
    /\ setStatus(i, "ON")
    /\ send' = [send EXCEPT ![i] = "sleep"]
    /\ recv' = [recv EXCEPT ![i] = "poll"]
    /\ doubled' = [doubled EXCEPT ![i] = 0]
    /\ UNCHANGED <<datagrams, heard, twinsCounters>>

(* send_wait seconds have passed: every running send_status has been       *)
(* through its loop and sleeps, and everything sent was read or lost.      *)
TwinsPeriod ==
    /\ \A i \in up : send[i] = "sleep" /\ recv[i] = "poll" /\ datagrams[i] = {}
    /\ silence' = [i \in Twins |-> IF silence[i] <= validityTime
                                   THEN silence[i] + 1 ELSE silence[i]]
    /\ send' = [i \in Twins |-> "test"]
    /\ doubled' = [i \in Twins |->
                     IF i \in heard /\ status[i] = "ON"
                     THEN IF doubled[i] < 2 THEN doubled[i] + 1 ELSE 2
                     ELSE 0]
    /\ heard' = {}
    /\ UNCHANGED <<up, mystatus, status, file, recv, datagrams, twinsCounters>>

Sender(i)   == testStatus(i) \/ activate(i) \/ switchON(i) \/ announceStatus(i)
Receiver(i) == (\E j \in Twins : recvStatus(i, j)) \/ demote(i) \/ switchOFF(i)

TwinsNext ==
    \/ \E i \in Twins : Sender(i) \/ Receiver(i) \/ crash(i) \/ Start(i)
    \/ \E i, j \in Twins : loseStatus(i, j)
    \/ TwinsPeriod

TwinsSpec == TwinsInit /\ [][TwinsNext]_twinsVars

(* Both threads of a running process are scheduled and time passes.  A     *)
(* process that died need not come back, and after MaxLosses the network   *)
(* loses nothing more.                                                     *)
TwinsFairness ==
    /\ \A i \in Twins : WF_twinsVars(Sender(i)) /\ WF_twinsVars(Receiver(i))
    /\ WF_twinsVars(TwinsPeriod)

TwinsFairSpec == TwinsSpec /\ TwinsFairness
-----------------------------------------------------------------------------
(* i is the running copy with the greatest ip.                             *)
Leads(i) == i \in up /\ \A j \in up : j <= i

(* The copy with the greatest ip of all never stands by: whatever the      *)
(* others announce, its commands are not dropped.                          *)
GreatestServes ==
    \A i \in up : (\A j \in Twins : j <= i) => status[i] = "ON" /\ mystatus[i] = "active"

(* Two copies do not work side by side for long: a copy that hears a       *)
(* greater ip in every period is ON at the end of at most one of them in a *)
(* row, even when the message arrives in the middle of its own takeover.   *)
DoubleIsShort == \A i \in Twins : doubled[i] <= 1

(* Once processes stay as they are, all running copies but the one with    *)
(* the greatest ip stand by.                                               *)
OthersStandBy ==
    \A i \in Twins :
        <>[](i \in up /\ ~Leads(i)) => <>[](i \in up => status[i] = "OFF")

(* "The control migrate from one to another copy in case of failure": a    *)
(* copy that is left as the one with the greatest ip works.                *)
ControlMigrates ==
    \A i \in Twins : <>[]Leads(i) => <>[](status[i] = "ON")

=============================================================================
