------------------------ MODULE TriStateOutputProofs ------------------------
(***************************************************************************)
(* The interlock of the shutter, for any number of commands, button        *)
(* events, flips of the agent's status and restarts.                       *)
(*                                                                         *)
(* Interlock speaks of the relays alone and is not inductive: what keeps   *)
(* the two apart is the order of the devcmds in the handler (TodoPaired),  *)
(* in the queue of the GPIO thread (QueuePaired), and between the two when *)
(* a handler is half done (HeadPaired).                                    *)
(***************************************************************************)
EXTENDS TriStateOutput, TLAPS

Ops == Devcmds \cup {Assign(v) : v \in Commands} \cup {Set, Save}
Closes(m) == m \in Devcmds /\ m.val = "ON"
Opens(m, o) == m = Devcmd(o, "OFF")

InputOps == {Cmd(v) : v \in Commands} \cup {End}
            \cup {Button(i, v) : i \in {"ing1", "ing2"}, v \in {"0", "1"}}

Types ==
    /\ currentStatus \in States
    /\ saved \in States
    /\ ing \in [{"ing1", "ing2"} -> {"0", "1"}]
    /\ devQ \in Seq(InputOps)
    /\ todo \in Seq(Ops)
    /\ gpioQ \in Seq(Devcmds)
    /\ level \in [Outputs -> {"ON", "OFF"}]
    /\ torn \subseteq Outputs
    /\ status \in {"ON", "OFF"}

(* A list of calls in which no relay is closed without the other having    *)
(* been opened just before.                                                *)
Paired(s) ==
    \A i \in 2..Len(s) : Closes(s[i]) => Opens(s[i - 1], Other(s[i].out))

TodoPaired == Paired(todo)

QueuePaired ==
    /\ Paired(gpioQ)
    /\ gpioQ # <<>> /\ Closes(gpioQ[1]) => level[Other(gpioQ[1].out)] = "OFF"

(* The relay the other way is open, or will be when the queue is empty.    *)
LastOpens(o) ==
    IF gpioQ = <<>> THEN level[o] = "OFF" ELSE Opens(gpioQ[Len(gpioQ)], o)

HeadPaired ==
    todo # <<>> /\ Closes(todo[1]) /\ half = {} => LastOpens(Other(todo[1].out))

Apart == level["out1"] = "OFF" \/ level["out2"] = "OFF"

IInv ==
    /\ Types
    /\ TodoPaired
    /\ torn = {} => QueuePaired /\ HeadPaired /\ Apart
-----------------------------------------------------------------------------
(* What docmdaction does for each word, spelled out.                       *)
LEMMA DocmdCases ==
    /\ docmdaction("UP") \in {<<Save>>, <<Devcmd("out2", "OFF"), Devcmd("out1", "ON"),
                                          Assign("UP"), Set, Save>>}
    /\ docmdaction("DOWN") \in {<<Save>>, <<Devcmd("out1", "OFF"), Devcmd("out2", "ON"),
                                            Assign("DOWN"), Set, Save>>}
    /\ docmdaction("OFF") \in {<<Save>>, <<Devcmd("out1", "OFF"), Devcmd("out2", "OFF"),
                                           Assign("OFF"), Save>>}
    /\ docmdaction("other") \in {<<Save>>, <<Assign("other"), Set, Save>>}
BY Zenon DEF docmdaction

(* The calls of a handler, told apart.                                     *)
LEMMA OpsFacts ==
    /\ \A o \in Outputs, v \in {"ON", "OFF"} :
          Devcmd(o, v) \in Devcmds /\ Devcmd(o, v).val = v /\ Devcmd(o, v).out = o
    /\ \A m \in Devcmds : m.op = "devcmd" /\ m.out \in Outputs /\ m.val \in {"ON", "OFF"}
    /\ \A m \in Devcmds : m = Devcmd(m.out, m.val)
    /\ \A m \in Ops : m.op = "devcmd" <=> m \in Devcmds
<1>1. \A o \in Outputs, v \in {"ON", "OFF"} :
          Devcmd(o, v) \in Devcmds /\ Devcmd(o, v).val = v /\ Devcmd(o, v).out = o
  BY DEF Devcmd, Devcmds
<1>2. \A m \in Devcmds : m.op = "devcmd" /\ m.out \in Outputs /\ m.val \in {"ON", "OFF"}
  BY DEF Devcmd, Devcmds
<1>3. \A m \in Devcmds : m = Devcmd(m.out, m.val)
  BY DEF Devcmd, Devcmds
<1>4. \A m \in Ops : m.op = "devcmd" <=> m \in Devcmds
  <2>a. Set.op # "devcmd" /\ Save.op # "devcmd" /\ \A v : Assign(v).op # "devcmd"
    BY DEF Set, Save, Assign
  <2>. QED BY <2>a, <1>2 DEF Ops
<1>. QED BY <1>4, <1>3, <1>2, <1>1

(* The two relays.                                                         *)
LEMMA OtherFacts ==
    /\ \A o \in Outputs : Other(o) \in Outputs /\ Other(o) # o /\ Other(Other(o)) = o
    /\ Other("out1") = "out2" /\ Other("out2") = "out1"
BY DEF Outputs, Other

(* Set, Save and Assign are calls of a handler and do not close a relay;   *)
(* nor does a devcmd OFF.                                                  *)
LEMMA HarmlessOps ==
    /\ Set \in Ops /\ ~Closes(Set)
    /\ Save \in Ops /\ ~Closes(Save)
    /\ \A v \in Commands : Assign(v) \in Ops /\ ~Closes(Assign(v))
    /\ \A o \in Outputs : Devcmd(o, "OFF") \in Ops /\ ~Closes(Devcmd(o, "OFF"))
    /\ \A o \in Outputs : Devcmd(o, "ON") \in Ops /\ Devcmd(o, "ON").out = o
<1>1. Set.op # "devcmd" /\ Save.op # "devcmd" /\ \A v : Assign(v).op # "devcmd"
  BY DEF Set, Save, Assign
<1>2. Set \in Ops /\ Save \in Ops /\ Devcmds \subseteq Ops /\ \A v \in Commands : Assign(v) \in Ops
  BY DEF Ops
<1>. QED BY <1>1, <1>2, OpsFacts DEF Closes

(* Every list docmdaction or dowaitaction leaves to be done is paired and  *)
(* does not begin with the closing of a relay.                             *)
LEMMA HandlerPaired ==
    /\ \A v \in Commands :
          /\ docmdaction(v) \in Seq(Ops)
          /\ Paired(docmdaction(v))
          /\ ~Closes(docmdaction(v)[1])
    /\ LET w == <<Devcmd("out1", "OFF"), Devcmd("out2", "OFF"), Save, Assign("OFF")>>
       IN w \in Seq(Ops) /\ Paired(w) /\ ~Closes(w[1])
<1>0. /\ "out1" \in Outputs /\ "out2" \in Outputs
      /\ "UP" \in Commands /\ "DOWN" \in Commands /\ "OFF" \in Commands /\ "other" \in Commands
  BY DEF Outputs, Commands, Moves
<1>1. ASSUME NEW a \in Ops, ~Closes(a)
      PROVE  <<a>> \in Seq(Ops) /\ Paired(<<a>>) /\ ~Closes(<<a>>[1])
  BY <1>1 DEF Paired
<1>2. ASSUME NEW a \in Ops, NEW b \in Ops, NEW c \in Ops, ~Closes(a), ~Closes(b), ~Closes(c)
      PROVE  <<a, b, c>> \in Seq(Ops) /\ Paired(<<a, b, c>>) /\ ~Closes(<<a, b, c>>[1])
  BY <1>2 DEF Paired
<1>3. ASSUME NEW a \in Ops, NEW b \in Ops, NEW c \in Ops, NEW d \in Ops,
             ~Closes(a), ~Closes(b), ~Closes(c), ~Closes(d)
      PROVE  <<a, b, c, d>> \in Seq(Ops) /\ Paired(<<a, b, c, d>>) /\ ~Closes(<<a, b, c, d>>[1])
  BY <1>3 DEF Paired
<1>4. ASSUME NEW a \in Ops, NEW b \in Ops, NEW c \in Ops, NEW d \in Ops, NEW e \in Ops,
             ~Closes(a), Opens(a, Other(b.out)), ~Closes(c), ~Closes(d), ~Closes(e)
      PROVE  /\ <<a, b, c, d, e>> \in Seq(Ops)
             /\ Paired(<<a, b, c, d, e>>)
             /\ ~Closes(<<a, b, c, d, e>>[1])
  BY <1>4 DEF Paired
<1>5. ASSUME NEW v \in Commands
      PROVE  docmdaction(v) \in Seq(Ops) /\ Paired(docmdaction(v)) /\ ~Closes(docmdaction(v)[1])
  <2>z. CASE docmdaction(v) = <<Save>>
    BY <2>z, <1>1, HarmlessOps
  <2>a. CASE docmdaction(v) = <<Devcmd("out2", "OFF"), Devcmd("out1", "ON"), Assign("UP"), Set, Save>>
    <3>1. Opens(Devcmd("out2", "OFF"), Other(Devcmd("out1", "ON").out))
      BY <1>0, OpsFacts, OtherFacts DEF Opens
    <3>. QED BY <2>a, <3>1, <1>0, <1>4, HarmlessOps
  <2>b. CASE docmdaction(v) = <<Devcmd("out1", "OFF"), Devcmd("out2", "ON"), Assign("DOWN"), Set, Save>>
    <3>1. Opens(Devcmd("out1", "OFF"), Other(Devcmd("out2", "ON").out))
      BY <1>0, OpsFacts, OtherFacts DEF Opens
    <3>. QED BY <2>b, <3>1, <1>0, <1>4, HarmlessOps
  <2>c. CASE docmdaction(v) = <<Devcmd("out1", "OFF"), Devcmd("out2", "OFF"), Assign("OFF"), Save>>
    BY <2>c, <1>0, <1>3, HarmlessOps
  <2>d. CASE docmdaction(v) = <<Assign("other"), Set, Save>>
    BY <2>d, <1>0, <1>2, HarmlessOps
  <2>. QED BY <2>z, <2>a, <2>b, <2>c, <2>d, DocmdCases DEF Commands, Moves
<1>. QED BY <1>0, <1>3, <1>5, HarmlessOps
(* Doing the first call of a paired list leaves a paired list.             *)
LEMMA TailPaired ==
    ASSUME NEW S, NEW s \in Seq(S), s # <<>>, Paired(s)
    PROVE  /\ Tail(s) \in Seq(S)
           /\ Paired(Tail(s))
           /\ Tail(s) # <<>> /\ Closes(Tail(s)[1]) => Opens(s[1], Other(Tail(s)[1].out))
<1>1. /\ Tail(s) \in Seq(S) /\ Len(s) \in Nat /\ Len(Tail(s)) = Len(s) - 1
      /\ \A i \in 1..Len(Tail(s)) : Tail(s)[i] = s[i + 1]
  OBVIOUS
<1>2. Paired(Tail(s))
  <2>. SUFFICES ASSUME NEW i \in 2..Len(Tail(s)), Closes(Tail(s)[i])
                PROVE  Opens(Tail(s)[i - 1], Other(Tail(s)[i].out))
    BY DEF Paired
  <2>a. /\ i + 1 \in 2..Len(s) /\ i \in 1..Len(Tail(s)) /\ i - 1 \in 1..Len(Tail(s))
        /\ (i + 1) - 1 = i /\ (i - 1) + 1 = i
    BY <1>1
  <2>b. Tail(s)[i] = s[i + 1] /\ Tail(s)[i - 1] = s[i]
    BY <1>1, <2>a
  <2>. QED BY <2>a, <2>b DEF Paired
<1>3. ASSUME Tail(s) # <<>>, Closes(Tail(s)[1])
      PROVE  Opens(s[1], Other(Tail(s)[1].out))
  <2>a. 1 \in 1..Len(Tail(s)) /\ 2 \in 2..Len(s) /\ Tail(s)[1] = s[2] /\ 2 - 1 = 1
    BY <1>1, <1>3
  <2>. QED BY <1>3, <2>a DEF Paired
<1>. QED BY <1>1, <1>2, <1>3

(* Appending a call that does not close a relay, or closes one right after *)
(* the other was opened, leaves a paired queue.                            *)
LEMMA AppendPaired ==
    ASSUME NEW S, NEW s \in Seq(S), NEW m \in S, Paired(s),
           Closes(m) => s = <<>> \/ Opens(s[Len(s)], Other(m.out))
    PROVE  Paired(Append(s, m))
<1>1. /\ Len(s) \in Nat /\ Len(Append(s, m)) = Len(s) + 1
      /\ \A i \in 1..Len(s) : Append(s, m)[i] = s[i]
      /\ Append(s, m)[Len(s) + 1] = m
  OBVIOUS
<1>. SUFFICES ASSUME NEW i \in 2..Len(Append(s, m)), Closes(Append(s, m)[i])
              PROVE  Opens(Append(s, m)[i - 1], Other(Append(s, m)[i].out))
  BY DEF Paired
<1>2. CASE i = Len(s) + 1
  <2>a. Append(s, m)[i] = m /\ s # <<>> /\ i - 1 = Len(s) /\ i - 1 \in 1..Len(s)
    BY <1>1, <1>2
  <2>. QED BY <1>1, <2>a
<1>3. CASE i # Len(s) + 1
  <2>a. i \in 2..Len(s) /\ i \in 1..Len(s) /\ i - 1 \in 1..Len(s)
    BY <1>1, <1>3
  <2>b. Append(s, m)[i] = s[i] /\ Append(s, m)[i - 1] = s[i - 1]
    BY <1>1, <2>a
  <2>. QED BY <2>a, <2>b DEF Paired
<1>. QED BY <1>2, <1>3
-----------------------------------------------------------------------------
(* A step that leaves the relays, both lists of devcmds and the history of *)
(* dropped ones alone keeps the order.                                     *)
LEMMA OrderUnchanged ==
    ASSUME IInv, Types', UNCHANGED <<todo, gpioQ, level, half, torn>>
    PROVE  IInv'
<1>1. TodoPaired'
  BY DEF IInv, TodoPaired, Paired
<1>2. ASSUME torn' = {} PROVE QueuePaired' /\ HeadPaired' /\ Apart'
  BY <1>2 DEF IInv, QueuePaired, HeadPaired, LastOpens, Apart, Paired
<1>. QED BY <1>1, <1>2 DEF IInv

(* A handler that begins: todo is paired and does not begin with the       *)
(* closing of a relay.                                                     *)
LEMMA HandlerBegins ==
    ASSUME IInv, Types', UNCHANGED <<gpioQ, level, half, torn>>,
           Paired(todo'), todo' # <<>> => ~Closes(todo'[1])
    PROVE  IInv'
<1>1. TodoPaired'
  BY DEF TodoPaired, Paired
<1>2. ASSUME torn' = {} PROVE QueuePaired' /\ HeadPaired' /\ Apart'
  BY <1>2 DEF IInv, QueuePaired, HeadPaired, LastOpens, Apart, Paired
<1>. QED BY <1>1, <1>2 DEF IInv

(* execcmd and execLocalEvent begin docmdaction.                           *)
LEMMA ExecStep ==
    ASSUME IInv, execcmd \/ execLocalEvent
    PROVE  IInv'
<1>0. Types BY DEF IInv
<1>1. PICK v \in Commands : todo' = docmdaction(v)
  <2>a. CASE execcmd
    <3>1. Head(devQ) \in InputOps
      BY <1>0, <2>a DEF Types, execcmd
    <3>2. Head(devQ).arg \in Commands
      BY <2>a, <3>1 DEF execcmd, InputOps, Cmd, End, Button
    <3>. QED BY <2>a, <3>2 DEF execcmd
  <2>b. CASE execLocalEvent
    <3>1. Wanted(ing') \in Commands
      BY DEF Wanted, Commands, Moves
    <3>. QED BY <2>b, <3>1 DEF execLocalEvent
  <2>. QED BY <2>a, <2>b
<1>2. todo' \in Seq(Ops) /\ Paired(todo') /\ ~Closes(todo'[1])
  BY <1>1, HandlerPaired
<1>3. ing' \in [{"ing1", "ing2"} -> {"0", "1"}] /\ devQ' \in Seq(InputOps)
  <2>a. devQ # <<>> /\ devQ' = Tail(devQ)
    BY DEF execcmd, execLocalEvent
  <2>b. Head(devQ) \in InputOps
    BY <1>0, <2>a DEF Types
  <2>c. Head(devQ).op \in {"ing1", "ing2"} => Head(devQ).arg \in {"0", "1"}
    BY <2>b DEF InputOps, Cmd, End, Button
  <2>. QED BY <1>0, <2>a, <2>c DEF Types, execcmd, execLocalEvent
<1>4. UNCHANGED <<currentStatus, saved, gpioQ, level, status, half, torn>>
  BY DEF execcmd, execLocalEvent, history
<1>5. Types'
  BY <1>4, <1>3, <1>2, <1>0 DEF Types
<1>. QED BY <1>2, <1>4, <1>5, HandlerBegins

(* dowaitaction begins the way back to the default.                        *)
LEMMA WaitStep ==
    ASSUME IInv, dowaitaction
    PROVE  IInv'
<1>0. Types BY DEF IInv
<1>1. todo' \in Seq(Ops) /\ Paired(todo') /\ (todo' # <<>> => ~Closes(todo'[1]))
  <2>a. CASE todo' = <<>>
    BY <2>a DEF Paired
  <2>b. CASE todo' = <<Devcmd("out1", "OFF"), Devcmd("out2", "OFF"), Save, Assign("OFF")>>
    BY <2>b, HandlerPaired
  <2>. QED BY <2>a, <2>b DEF dowaitaction, default_status
<1>2. devQ' \in Seq(InputOps)
  BY <1>0 DEF Types, dowaitaction
<1>3. UNCHANGED <<currentStatus, saved, ing, gpioQ, level, status, half, torn>>
  BY DEF dowaitaction, history
<1>4. Types'
  BY <1>3, <1>2, <1>1, <1>0 DEF Types
<1>. QED BY <1>1, <1>3, <1>4, HandlerBegins
(* A call of the handler that is no devcmd.                                *)
LEMMA OtherCallStep ==
    ASSUME IInv, assign \/ notifyWait \/ save
    PROVE  IInv'
<1>0. Types /\ TodoPaired BY DEF IInv
<1>1. todo # <<>> /\ todo' = Tail(todo) /\ UNCHANGED <<ing, devQ, gpioQ, level, status, half, torn>>
  BY DEF assign, notifyWait, save, history
<1>2. Head(todo) \in Ops /\ Head(todo) = todo[1]
  BY <1>0, <1>1 DEF Types
<1>3. todo[1] \notin Devcmds
  <2>a. Set.op # "devcmd" /\ Save.op # "devcmd"
    BY DEF Set, Save
  <2>. QED BY <1>2, <2>a, OpsFacts DEF assign, notifyWait, save
<1>4. currentStatus' \in States
  <2>a. CASE assign
    <3>1. Head(todo).op = "assign"
      BY <2>a DEF assign
    <3>2. Set.op # "assign" /\ Save.op # "assign"
      BY DEF Set, Save
    <3>3. Head(todo) \notin Devcmds
      BY <1>2, <1>3
    <3>4. PICK v \in Commands : Head(todo) = Assign(v)
      BY <3>3, <3>2, <3>1, <1>2 DEF Ops
    <3>. QED BY <2>a, <3>4 DEF assign, Assign, States
  <2>. QED BY <1>0, <2>a DEF Types, notifyWait, save
<1>5. saved' \in States
  BY <1>0 DEF Types, assign, notifyWait, save
<1>6. /\ Tail(todo) \in Seq(Ops) /\ Paired(Tail(todo))
      /\ Tail(todo) # <<>> /\ Closes(Tail(todo)[1]) => Opens(todo[1], Other(Tail(todo)[1].out))
  BY <1>0, <1>1, TailPaired DEF Types, TodoPaired
<1>7. Types'
  BY <1>6, <1>5, <1>4, <1>1, <1>0 DEF Types
<1>8. todo' # <<>> => ~Closes(todo'[1])
  <2>. SUFFICES ASSUME Tail(todo) # <<>>, Closes(Tail(todo)[1]) PROVE FALSE
    BY <1>1
  <2>a. /\ todo[1] = Devcmd(Other(Tail(todo)[1].out), "OFF")
        /\ Tail(todo)[1] \in Devcmds
    BY <1>6 DEF Opens, Closes
  <2>. QED BY <2>a, <1>3, OpsFacts, OtherFacts
<1>. QED BY <1>8, <1>7, <1>6, <1>1, HandlerBegins

(* The notify of a devcmd: what is appended to the queue of the GPIO       *)
(* thread closes a relay only after the other one was opened, or the move  *)
(* is torn.                                                                *)
LEMMA DevcmdStep ==
    ASSUME IInv, notifyDevcmd
    PROVE  IInv'
<1>0. Types /\ TodoPaired BY DEF IInv
<1>1. PICK m : m = Head(todo) OBVIOUS
<1>2. /\ todo # <<>> /\ m.op = "devcmd" /\ todo' = Tail(todo)
      /\ gpioQ' = IF status = "ON" THEN Append(gpioQ, m) ELSE gpioQ
      /\ half' = IF m.val = "OFF" /\ status = "OFF" THEN {m.out} ELSE {}
      /\ torn' = IF m.val = "ON" /\ status = "ON" /\ half # {} THEN torn \cup {m.out} ELSE torn
      /\ UNCHANGED <<currentStatus, saved, ing, devQ, level, status>>
  BY <1>1 DEF notifyDevcmd
<1>3. m \in Ops /\ m = todo[1]
  BY <1>0, <1>1, <1>2 DEF Types
<1>4. m \in Devcmds /\ m.out \in Outputs /\ m.val \in {"ON", "OFF"} /\ m = Devcmd(m.out, m.val)
  BY <1>2, <1>3, OpsFacts
<1>5. /\ Tail(todo) \in Seq(Ops) /\ Paired(Tail(todo))
      /\ Tail(todo) # <<>> /\ Closes(Tail(todo)[1]) => Opens(m, Other(Tail(todo)[1].out))
  BY <1>0, <1>2, <1>3, TailPaired DEF Types, TodoPaired
<1>6. gpioQ \in Seq(Devcmds) /\ gpioQ' \in Seq(Devcmds)
  BY <1>0, <1>2, <1>4 DEF Types
<1>7. Types'
  <2>a. torn' \subseteq Outputs
    BY <1>0, <1>2, <1>4 DEF Types
  <2>. QED BY <1>6, <1>5, <1>2, <1>0, <2>a DEF Types
<1>8. TodoPaired'
  BY <1>2, <1>5 DEF TodoPaired, Paired
<1>9. ASSUME torn' = {} PROVE QueuePaired' /\ HeadPaired' /\ Apart'
  <2>z. torn = {} /\ QueuePaired /\ HeadPaired /\ Apart
    BY <1>2, <1>9 DEF IInv
  <2>a. status = "ON" /\ Closes(m) => LastOpens(Other(m.out))
    <3>. SUFFICES ASSUME status = "ON", Closes(m) PROVE LastOpens(Other(m.out))
      OBVIOUS
    <3>1. half = {}
      BY <1>2, <1>9 DEF Closes
    <3>. QED BY <2>z, <3>1, <1>2, <1>3 DEF HeadPaired
  <2>b. QueuePaired'
    <3>1. CASE status = "ON"
      <4>1. Closes(m) => gpioQ = <<>> \/ Opens(gpioQ[Len(gpioQ)], Other(m.out))
        BY <3>1, <2>a DEF LastOpens
      <4>2. Paired(Append(gpioQ, m))
        BY <4>1, <1>4, <1>6, <2>z, AppendPaired DEF QueuePaired
      <4>3. gpioQ = <<>> => Append(gpioQ, m)[1] = m
        BY <1>6
      <4>4. gpioQ # <<>> => Append(gpioQ, m)[1] = gpioQ[1]
        BY <1>6
      <4>5. Closes(Append(gpioQ, m)[1]) => level[Other(Append(gpioQ, m)[1].out)] = "OFF"
        BY <4>3, <4>4, <2>z, <2>a, <3>1 DEF QueuePaired, LastOpens
      <4>6. gpioQ' = Append(gpioQ, m) /\ level' = level
        BY <3>1, <1>2
      <4>7. Paired(gpioQ') /\ (Closes(gpioQ'[1]) => level'[Other(gpioQ'[1].out)] = "OFF")
        BY <4>2, <4>5, <4>6
      <4>. QED BY <4>7 DEF QueuePaired, Paired
    <3>2. CASE status # "ON"
      <4>1. gpioQ' = gpioQ /\ level' = level
        BY <3>2, <1>2
      <4>. QED BY <4>1, <2>z DEF QueuePaired, Paired
    <3>. QED BY <3>1, <3>2
  <2>c. HeadPaired'
    <3>. SUFFICES ASSUME todo' # <<>>, Closes(todo'[1]), half' = {}
                  PROVE  gpioQ' # <<>> /\ Opens(gpioQ'[Len(gpioQ')], Other(todo'[1].out))
      BY DEF HeadPaired, LastOpens, Closes, Opens
    <3>1. Opens(m, Other(todo'[1].out))
      BY <1>2, <1>5
    <3>2. todo'[1].out \in Outputs
      BY OpsFacts DEF Closes
    <3>3. m.val = "OFF"
      BY <3>1, <3>2, OpsFacts, OtherFacts DEF Opens
    <3>4. gpioQ' = Append(gpioQ, m)
      BY <3>3, <1>2, <1>0 DEF Types
    <3>5. gpioQ' # <<>> /\ gpioQ'[Len(gpioQ')] = m
      BY <3>4, <1>4, <1>6
    <3>. QED BY <3>1, <3>5
  <2>d. Apart'
    BY <2>z, <1>2 DEF Apart
  <2>. QED BY <2>b, <2>c, <2>d
<1>. QED BY <1>7, <1>8, <1>9 DEF IInv
(* The GPIO thread sets a relay: the first devcmd of the queue closes it   *)
(* only if the other one is open.                                          *)
LEMMA RelayStep ==
    ASSUME IInv, setCurrentValue
    PROVE  IInv'
<1>0. Types BY DEF IInv
<1>1. PICK m : m = Head(gpioQ) OBVIOUS
<1>2. /\ gpioQ # <<>> /\ level' = [level EXCEPT ![m.out] = m.val] /\ gpioQ' = Tail(gpioQ)
      /\ UNCHANGED <<currentStatus, saved, ing, devQ, todo, status, half, torn>>
  BY <1>1 DEF setCurrentValue, device, history
<1>3. gpioQ \in Seq(Devcmds) /\ m = gpioQ[1] /\ m \in Devcmds /\ Len(gpioQ) \in Nat
  BY <1>0, <1>1, <1>2 DEF Types
<1>4. m.out \in Outputs /\ m.val \in {"ON", "OFF"} /\ m = Devcmd(m.out, m.val)
  BY <1>3, OpsFacts
<1>5. /\ level'[m.out] = m.val
      /\ \A o \in Outputs : o # m.out => level'[o] = level[o]
      /\ level' \in [Outputs -> {"ON", "OFF"}]
  BY <1>0, <1>2, <1>4 DEF Types
<1>6. Types'
  BY <1>5, <1>3, <1>2, <1>0 DEF Types
<1>7. TodoPaired'
  BY <1>2 DEF IInv, TodoPaired, Paired
<1>8. ASSUME torn' = {} PROVE QueuePaired' /\ HeadPaired' /\ Apart'
  <2>z. QueuePaired /\ HeadPaired /\ Apart
    BY <1>2, <1>8 DEF IInv
  <2>a. /\ Tail(gpioQ) \in Seq(Devcmds) /\ Paired(Tail(gpioQ))
        /\ Tail(gpioQ) # <<>> /\ Closes(Tail(gpioQ)[1]) => Opens(m, Other(Tail(gpioQ)[1].out))
    BY <1>2, <1>3, <2>z, TailPaired DEF QueuePaired
  <2>b. QueuePaired'
    <3>1. ASSUME gpioQ' # <<>>, Closes(gpioQ'[1]) PROVE level'[Other(gpioQ'[1].out)] = "OFF"
      <4>1. Opens(m, Other(gpioQ'[1].out))
        BY <1>2, <2>a, <3>1
      <4>2. gpioQ'[1].out \in Outputs
        BY <3>1, OpsFacts DEF Closes
      <4>3. m.out = Other(gpioQ'[1].out) /\ m.val = "OFF"
        BY <4>1, <4>2, OpsFacts, OtherFacts DEF Opens
      <4>. QED BY <4>3, <1>5
    <3>2. Paired(gpioQ')
      BY <1>2, <2>a
    <3>. QED BY <3>1, <3>2 DEF QueuePaired, Paired, Closes, Opens
  <2>c. HeadPaired'
    <3>. SUFFICES ASSUME todo # <<>>, Closes(todo[1]), half = {}
                  PROVE  IF gpioQ' = <<>> THEN level'[Other(todo[1].out)] = "OFF"
                         ELSE Opens(gpioQ'[Len(gpioQ')], Other(todo[1].out))
      BY <1>2 DEF HeadPaired, LastOpens, Closes, Opens
    <3>1. todo[1].out \in Outputs
      BY OpsFacts DEF Closes
    <3>2. Opens(gpioQ[Len(gpioQ)], Other(todo[1].out))
      BY <1>2, <2>z DEF HeadPaired, LastOpens
    <3>3. CASE gpioQ' = <<>>
      <4>1. Len(gpioQ) = 1
        <5>1. \A s \in Seq(Devcmds) : s # <<>> => Len(Tail(s)) = Len(s) - 1
          OBVIOUS
        <5>2. Len(gpioQ') = Len(gpioQ) - 1
          BY <5>1, <1>2, <1>3
        <5>3. Len(gpioQ') = 0
          BY <3>3
        <5>. QED BY <5>2, <5>3, <1>3
      <4>2. Opens(m, Other(todo[1].out))
        BY <3>2, <4>1, <1>3
      <4>3. m.out = Other(todo[1].out) /\ m.val = "OFF"
        BY <4>2, <3>1, OpsFacts, OtherFacts DEF Opens
      <4>. QED BY <3>3, <4>3, <1>5
    <3>4. CASE gpioQ' # <<>>
      <4>1. gpioQ'[Len(gpioQ')] = gpioQ[Len(gpioQ)]
        BY <1>2, <1>3, <3>4
      <4>. QED BY <3>2, <3>4, <4>1
    <3>. QED BY <3>3, <3>4
  <2>d. Apart'
    <3>1. CASE m.val = "OFF"
      BY <3>1, <1>4, <1>5 DEF Apart, Outputs
    <3>2. CASE m.val = "ON"
      <4>1. level[Other(m.out)] = "OFF"
        BY <3>2, <1>2, <1>3, <2>z DEF QueuePaired, Closes
      <4>2. level'[Other(m.out)] = "OFF"
        BY <4>1, <1>4, <1>5, OtherFacts
      <4>. QED BY <4>2, <1>4 DEF Apart, Outputs, Other
    <3>. QED BY <3>1, <3>2, <1>4
  <2>. QED BY <2>b, <2>c, <2>d
<1>. QED BY <1>6, <1>7, <1>8 DEF IInv

(* A restart empties the lists and leaves the relays as they are.          *)
LEMMA RestartStep ==
    ASSUME IInv, Restart
    PROVE  IInv'
<1>0. Types BY DEF IInv
<1>1. /\ todo' = <<>> /\ gpioQ' = <<>> /\ devQ' = <<>> /\ status' = "ON"
      /\ currentStatus' = saved /\ saved' = saved
      /\ ing' = [i \in {"ing1", "ing2"} |-> "1"]
      /\ level' = level /\ torn' = torn
  BY DEF Restart
<1>2. Types'
  BY <1>0, <1>1 DEF Types
<1>3. TodoPaired'
  BY <1>1 DEF TodoPaired, Paired
<1>4. ASSUME torn' = {} PROVE QueuePaired' /\ HeadPaired' /\ Apart'
  BY <1>1, <1>4 DEF IInv, QueuePaired, HeadPaired, Apart, Paired
<1>. QED BY <1>2, <1>3, <1>4 DEF IInv

(* The steps of the other threads and of the outside world.                *)
LEMMA OutsideStep ==
    ASSUME IInv,
           \/ \E v \in Commands : Receive(Cmd(v))
           \/ \E i \in {"ing1", "ing2"}, v \in {"0", "1"} : Receive(Button(i, v))
           \/ timerStart \/ timerEnd \/ setStatus \/ UNCHANGED vars
    PROVE  IInv'
<1>0. Types BY DEF IInv
<1>1. UNCHANGED <<currentStatus, saved, ing, todo, gpioQ, level, half, torn>>
  BY DEF Receive, timerStart, timerEnd, setStatus, vars, device, history
<1>2. devQ' \in Seq(InputOps)
  <2>a. \A v \in Commands : Cmd(v) \in InputOps
    BY DEF InputOps
  <2>b. \A i \in {"ing1", "ing2"}, v \in {"0", "1"} : Button(i, v) \in InputOps
    BY DEF InputOps
  <2>c. End \in InputOps
    BY DEF InputOps
  <2>d. ASSUME NEW m \in InputOps, Receive(m) PROVE devQ' \in Seq(InputOps)
    BY <1>0, <2>d DEF Receive, Types
  <2>e. CASE timerEnd
    BY <1>0, <2>c, <2>e DEF Types, timerEnd
  <2>f. CASE timerStart \/ setStatus \/ UNCHANGED vars
    <3>1. devQ' = devQ
      BY <2>f DEF timerStart, setStatus, vars
    <3>. QED BY <1>0, <3>1 DEF Types
  <2>. QED BY <2>a, <2>b, <2>d, <2>e, <2>f
<1>3. status' \in {"ON", "OFF"}
  BY <1>0 DEF Types, Receive, timerStart, timerEnd, setStatus, vars
<1>4. Types'
  BY <1>3, <1>2, <1>1, <1>0 DEF Types
<1>. QED BY <1>1, <1>4, OrderUnchanged

(* The order of the devcmds is kept from the start on.                     *)
LEMMA InitIInv == Init => IInv
BY DEF Init, IInv, Types, States, Outputs, TodoPaired, Paired, QueuePaired, HeadPaired, Apart

(* Every step keeps it.                                                    *)
LEMMA NextIInv == IInv /\ [Next]_vars => IInv'
<1>. SUFFICES ASSUME IInv, [Next]_vars PROVE IInv'
  OBVIOUS
<1>a. CASE execcmd \/ execLocalEvent        BY <1>a, ExecStep
<1>b. CASE dowaitaction                     BY <1>b, WaitStep
<1>c. CASE notifyDevcmd                     BY <1>c, DevcmdStep
<1>d. CASE assign \/ notifyWait \/ save     BY <1>d, OtherCallStep
<1>e. CASE setCurrentValue                  BY <1>e, RelayStep
<1>f. CASE Restart                          BY <1>f, RestartStep
<1>. QED BY <1>a, <1>b, <1>c, <1>d, <1>e, <1>f, OutsideStep DEF Next, DeviceThread

(* TriStateOutput::docmdaction opens the relay of one direction before it  *)
(* closes that of the other, and the queue of the GPIO thread keeps this   *)
(* order: the relays are never closed together in any run in which the     *)
(* agent is not switched ON between the two notify calls of one move.      *)
THEOREM RelaysInterlocked == Spec => []Interlock
<1>1. IInv => Interlock
  BY DEF IInv, Apart, Interlock
<1>. QED BY <1>1, InitIInv, NextIInv, PTL DEF Spec
-----------------------------------------------------------------------------
(* Where the relays are going.  v is the status the device has when the    *)
(* handler under way is over; a relay has, or has still to be sent, the    *)
(* devcmd for it, or has missed it.                                        *)
Assigns(m)  == m.op = "assign"
OneAssign   == \A i, j \in 1..Len(todo) : Assigns(todo[i]) /\ Assigns(todo[j]) => i = j
Becomes(v)  == \/ \E i \in 1..Len(todo) : todo[i] = Assign(v)
               \/ v = currentStatus /\ \A i \in 1..Len(todo) : ~Assigns(todo[i])
Sent(o, x)  == LastFor(todo, o, x) \/ (NoneFor(todo, o) /\ (o \in lostRelay \/ Arrives(o, x)))

FollowInv ==
    /\ OneAssign
    /\ \A v \in States \ {"other"} : Becomes(v) => \A o \in Outputs : Sent(o, Position(v)[o])

(* Taking the first call of a list.                                        *)
LEMMA TailFor ==
    ASSUME NEW S, NEW s \in Seq(S), s # <<>>, NEW o, NEW x
    PROVE  /\ LastFor(s, o, x) => \/ LastFor(Tail(s), o, x)
                                  \/ NoneFor(Tail(s), o) /\ Head(s).out = o /\ Head(s).val = x
           /\ NoneFor(s, o) => NoneFor(Tail(s), o) /\ Head(s).out # o
<1>1. /\ Len(s) \in Nat /\ Len(s) > 0 /\ Len(Tail(s)) = Len(s) - 1 /\ Head(s) = s[1]
      /\ \A i \in 1..Len(Tail(s)) : Tail(s)[i] = s[i + 1]
  OBVIOUS
<1>2. ASSUME LastFor(s, o, x), ~ LastFor(Tail(s), o, x)
      PROVE  NoneFor(Tail(s), o) /\ Head(s).out = o /\ Head(s).val = x
  <2>1. PICK i \in 1..Len(s) : /\ s[i].out = o /\ s[i].val = x
                               /\ \A j \in 1..Len(s) : j > i => s[j].out # o
    BY <1>2 DEF LastFor
  <2>2. \A j \in 1..Len(Tail(s)) : j + 1 \in 1..Len(s) /\ (j + 1 > i => Tail(s)[j].out # o)
    BY <1>1, <2>1
  <2>3. CASE i = 1
    BY <2>3, <2>2, <2>1, <1>1 DEF NoneFor
  <2>4. CASE i # 1
    <3>1. i - 1 \in 1..Len(Tail(s)) /\ Tail(s)[i - 1] = s[i]
      BY <1>1, <2>4
    <3>2. \A j \in 1..Len(Tail(s)) : j > i - 1 => Tail(s)[j].out # o
      BY <2>2
    <3>3. LastFor(Tail(s), o, x)
      BY <2>1, <3>1, <3>2 DEF LastFor
    <3>. QED BY <1>2, <3>3
  <2>. QED BY <2>3, <2>4
<1>3. ASSUME NoneFor(s, o) PROVE NoneFor(Tail(s), o) /\ Head(s).out # o
  <2>1. \A j \in 1..Len(Tail(s)) : j + 1 \in 1..Len(s)
    BY <1>1
  <2>. QED BY <1>1, <1>3, <2>1 DEF NoneFor
<1>. QED BY <1>2, <1>3

(* Appending a devcmd to a queue.                                          *)
LEMMA AppendFor ==
    ASSUME NEW S, NEW s \in Seq(S), NEW m \in S, NEW o, NEW x
    PROVE  /\ m.out = o /\ m.val = x => LastFor(Append(s, m), o, x)
           /\ m.out # o /\ LastFor(s, o, x) => LastFor(Append(s, m), o, x)
           /\ m.out # o /\ NoneFor(s, o) => NoneFor(Append(s, m), o)
<1>1. /\ Len(s) \in Nat /\ Len(Append(s, m)) = Len(s) + 1
      /\ \A i \in 1..Len(s) : Append(s, m)[i] = s[i]
      /\ Append(s, m)[Len(s) + 1] = m
  OBVIOUS
<1>2. ASSUME m.out = o, m.val = x PROVE LastFor(Append(s, m), o, x)
  <2>1. \A j \in 1..Len(Append(s, m)) : ~ (j > Len(s) + 1)
    BY <1>1
  <2>2. Len(s) + 1 \in 1..Len(Append(s, m))
    BY <1>1
  <2>. QED BY <2>2, <2>1, <1>2, <1>1 DEF LastFor
<1>3. ASSUME m.out # o, LastFor(s, o, x) PROVE LastFor(Append(s, m), o, x)
  <2>1. PICK i \in 1..Len(s) : /\ s[i].out = o /\ s[i].val = x
                               /\ \A j \in 1..Len(s) : j > i => s[j].out # o
    BY <1>3 DEF LastFor
  <2>2. i \in 1..Len(Append(s, m)) /\ Append(s, m)[i] = s[i]
    BY <1>1
  <2>3. \A j \in 1..Len(Append(s, m)) : j > i => Append(s, m)[j].out # o
    BY <1>1, <1>3, <2>1
  <2>. QED BY <2>1, <2>2, <2>3 DEF LastFor
<1>4. ASSUME m.out # o, NoneFor(s, o) PROVE NoneFor(Append(s, m), o)
  BY <1>1, <1>4 DEF NoneFor
<1>. QED BY <1>2, <1>3, <1>4

(* The kinds of calls, by their fields.                                    *)
LEMMA OpsFields ==
    /\ \A v : Assign(v).op = "assign" /\ Assign(v).val = v /\ Assign(v).out \notin Outputs
    /\ ~Assigns(Set) /\ Set.out \notin Outputs
    /\ ~Assigns(Save) /\ Save.out \notin Outputs
    /\ \A o, x : ~Assigns(Devcmd(o, x)) /\ Devcmd(o, x).out = o /\ Devcmd(o, x).val = x
    /\ \A m \in Ops : Assigns(m) => m = Assign(m.val)
<1>1. \A v : Assign(v).op = "assign" /\ Assign(v).val = v /\ Assign(v).out \notin Outputs
  BY DEF Assign, Outputs
<1>2. ~Assigns(Set) /\ Set.out \notin Outputs /\ ~Assigns(Save) /\ Save.out \notin Outputs
  BY DEF Set, Save, Assigns, Outputs
<1>3. \A o, x : ~Assigns(Devcmd(o, x)) /\ Devcmd(o, x).out = o /\ Devcmd(o, x).val = x
  BY DEF Devcmd, Assigns
<1>4. \A m \in Devcmds : ~Assigns(m)
  BY <1>3, OpsFacts
<1>5. \A m \in Ops : Assigns(m) => m = Assign(m.val)
  BY <1>1, <1>2, <1>4 DEF Ops
<1>. QED BY <1>5, <1>3, <1>2, <1>1

(* Doing the first call changes nothing of what the device will become.    *)
LEMMA CallDone ==
    ASSUME Types, OneAssign, todo # <<>>, todo' = Tail(todo),
           currentStatus' = IF Assigns(Head(todo)) THEN Head(todo).val ELSE currentStatus
    PROVE  OneAssign' /\ \A v : Becomes(v)' => Becomes(v)
<1>1. /\ Len(todo) \in Nat /\ Len(todo) > 0 /\ Len(todo') = Len(todo) - 1
      /\ Head(todo) = todo[1] /\ todo[1] \in Ops
      /\ \A i \in 1..Len(todo') : todo'[i] = todo[i + 1] /\ i + 1 \in 1..Len(todo) /\ i + 1 # 1
  BY DEF Types
<1>2. OneAssign'
  BY <1>1 DEF OneAssign, Assigns
<1>3. ASSUME NEW v, Becomes(v)' PROVE Becomes(v)
  <2>1. CASE \E i \in 1..Len(todo') : todo'[i] = Assign(v)
    BY <1>1, <2>1 DEF Becomes
  <2>2. CASE v = currentStatus' /\ \A i \in 1..Len(todo') : ~Assigns(todo'[i])
    <3>1. CASE Assigns(todo[1])
      <4>1. todo[1] = Assign(v)
        BY <1>1, <2>2, <3>1, OpsFields
      <4>2. 1 \in 1..Len(todo)
        BY <1>1
      <4>. QED BY <4>1, <4>2 DEF Becomes
    <3>2. CASE ~Assigns(todo[1])
      <4>1. \A i \in 1..Len(todo) : i # 1 => i - 1 \in 1..Len(todo') /\ todo'[i - 1] = todo[i]
        BY <1>1
      <4>2. \A i \in 1..Len(todo) : ~Assigns(todo[i])
        BY <2>2, <3>2, <4>1
      <4>. QED BY <4>2, <3>2, <2>2, <1>1 DEF Becomes
    <3>. QED BY <3>1, <3>2
  <2>. QED BY <1>3, <2>1, <2>2 DEF Becomes, Assigns
<1>. QED BY <1>2, <1>3

(* A handler that has both relays still to be set.                         *)
LEMMA MoveBegins ==
    ASSUME NEW v, NEW a \in Outputs, NEW n \in Nat, NEW k \in 3..n,
           Len(todo') = n, todo'[k] = Assign(v),
           \A i \in 3..n : i # k => todo'[i] \in {Set, Save},
           todo'[1] = Devcmd(a, Position(v)[a]),
           todo'[2] = Devcmd(Other(a), Position(v)[Other(a)])
    PROVE  FollowInv'
<1>1. /\ \A i \in 1..n : i \in {1, 2} \/ i \in 3..n
      /\ k \in 1..n /\ 1 \in 1..n /\ 2 \in 1..n
      /\ \A i \in 1..n : i \notin {1, 2} => todo'[i].out \notin Outputs
      /\ \A i \in 1..n : Assigns(todo'[i]) => i = k
      /\ \A i \in 1..n : \A w : todo'[i] = Assign(w) => w = v
  <2>1. \A i \in 1..n : i \in {1, 2} \/ i \in 3..n
    OBVIOUS
  <2>2. \A i \in 1..n : i \notin {1, 2} => todo'[i].out \notin Outputs
    BY <2>1, OpsFields
  <2>3. \A i \in 1..n : Assigns(todo'[i]) => i = k
    BY <2>1, OpsFields
  <2>4. ASSUME NEW w, NEW i \in 1..n, todo'[i] = Assign(w) PROVE w = v
    <3>1. Assigns(todo'[i])
      BY <2>4, OpsFields DEF Assigns
    <3>2. Assign(w) = Assign(v)
      BY <2>3, <2>4, <3>1
    <3>. QED BY <3>2, OpsFields
  <2>. QED BY <2>4, <2>3, <2>2, <2>1
<1>2. OneAssign'
  BY <1>1 DEF OneAssign
<1>3. Assigns(todo'[k])
  BY OpsFields DEF Assigns
<1>4. ASSUME NEW w, Becomes(w)' PROVE w = v
  <2>1. k \in 1..Len(todo') /\ Assigns(todo'[k])
    BY <1>1, <1>3
  <2>2. PICK i \in 1..Len(todo') : todo'[i] = Assign(w)
    BY <1>4, <2>1 DEF Becomes, Assigns
  <2>. QED BY <1>1, <2>2
<1>5. ASSUME NEW o \in Outputs PROVE LastFor(todo', o, Position(v)[o])
  <2>1. CASE o = a
    <3>1. /\ todo'[1].out = o /\ todo'[1].val = Position(v)[o]
          /\ \A j \in 1..n : j > 1 => todo'[j].out # o
      BY <1>1, <2>1, OpsFields, OtherFacts
    <3>. QED BY <1>1, <3>1 DEF LastFor
  <2>2. CASE o = Other(a)
    <3>1. /\ todo'[2].out = o /\ todo'[2].val = Position(v)[o]
          /\ \A j \in 1..n : j > 2 => todo'[j].out # o
      BY <1>1, <2>2, OpsFields
    <3>. QED BY <1>1, <3>1 DEF LastFor
  <2>. QED BY <2>1, <2>2 DEF Outputs, Other
<1>6. \A o \in Outputs : \A x : LastFor(todo', o, x) => Sent(o, x)'
  BY DEF Sent
<1>. QED BY <1>6, <1>5, <1>4, <1>2 DEF FollowInv

(* A handler that changes nothing.                                         *)
LEMMA NothingBegins ==
    ASSUME FollowInv, todo = <<>>, todo' \in {<<>>, <<Save>>},
           UNCHANGED <<currentStatus, gpioQ, level, lostRelay>>
    PROVE  FollowInv'
<1>1. Len(todo') \in {0, 1} /\ \A i \in 1..Len(todo') : i = 1 /\ todo'[i] = Save
  <2>1. CASE todo' = <<>>      BY <2>1
  <2>2. CASE todo' = <<Save>>  BY <2>2
  <2>. QED BY <2>1, <2>2
<1>2. OneAssign'
  BY <1>1 DEF OneAssign
<1>3. ASSUME NEW v, Becomes(v)' PROVE Becomes(v)
  <2>1. Save # Assign(v)
    BY OpsFields DEF Assigns
  <2>2. v = currentStatus
    BY <1>1, <1>3, <2>1 DEF Becomes
  <2>. QED BY <2>2 DEF Becomes
<1>4. ASSUME NEW o \in Outputs, NEW x, Sent(o, x) PROVE Sent(o, x)'
  <2>1. o \in lostRelay \/ Arrives(o, x)
    BY <1>4 DEF Sent, LastFor
  <2>2. NoneFor(todo', o)
    BY <1>1, OpsFields DEF NoneFor
  <2>3. (NoneFor(todo, o))'
    BY <2>2 DEF NoneFor
  <2>4. (o \in lostRelay \/ Arrives(o, x))'
    BY <2>1 DEF Arrives, LastFor, NoneFor
  <2>. QED BY <2>3, <2>4 DEF Sent
<1>. QED BY <1>2, <1>3, <1>4 DEF FollowInv

(* A word that is no move.                                                 *)
LEMMA OtherBegins ==
    ASSUME todo' = <<Assign("other"), Set, Save>>
    PROVE  FollowInv'
<1>1. /\ Len(todo') = 3 /\ todo'[1] = Assign("other") /\ todo'[2] = Set /\ todo'[3] = Save
      /\ \A i \in 1..Len(todo') : i \in {1, 2, 3} /\ 1 \in 1..Len(todo')
  OBVIOUS
<1>2. \A i \in 1..Len(todo') : Assigns(todo'[i]) => i = 1
  BY <1>1, OpsFields
<1>3. OneAssign'
  BY <1>2 DEF OneAssign
<1>4. ASSUME NEW v, Becomes(v)' PROVE v = "other"
  <2>1. 1 \in 1..Len(todo') /\ Assigns(todo'[1])
    BY <1>1, OpsFields DEF Assigns
  <2>2. PICK i \in 1..Len(todo') : todo'[i] = Assign(v)
    BY <1>4, <2>1 DEF Becomes, Assigns
  <2>3. Assigns(todo'[i])
    BY <2>2, OpsFields DEF Assigns
  <2>4. Assign(v) = Assign("other")
    BY <2>3, <2>2, <1>2, <1>1
  <2>. QED BY <2>4, OpsFields
<1>. QED BY <1>3, <1>4 DEF FollowInv

(* Every handler begins so that the relays will follow.                    *)
LEMMA BeginFollows ==
    ASSUME FollowInv, todo = <<>>, UNCHANGED <<currentStatus, gpioQ, level, lostRelay>>,
           \/ \E v \in Commands : todo' = docmdaction(v)
           \/ todo' = <<>>
           \/ todo' = <<Devcmd("out1", "OFF"), Devcmd("out2", "OFF"), Save, Assign("OFF")>>
    PROVE  FollowInv'
<1>1. /\ "out1" \in Outputs /\ "out2" \in Outputs
      /\ Other("out1") = "out2" /\ Other("out2") = "out1"
  BY OtherFacts DEF Outputs
<1>2. /\ Position("UP")["out1"] = "ON" /\ Position("UP")["out2"] = "OFF"
      /\ Position("DOWN")["out1"] = "OFF" /\ Position("DOWN")["out2"] = "ON"
      /\ Position("OFF")["out1"] = "OFF" /\ Position("OFF")["out2"] = "OFF"
  BY DEF Position
<1>3. CASE todo' \in {<<>>, <<Save>>}
  BY <1>3, NothingBegins
<1>4. CASE todo' = <<Devcmd("out2", "OFF"), Devcmd("out1", "ON"), Assign("UP"), Set, Save>>
  <2>1. /\ Len(todo') = 5 /\ todo'[1] = Devcmd("out2", "OFF") /\ todo'[2] = Devcmd("out1", "ON")
        /\ todo'[3] = Assign("UP") /\ todo'[4] = Set /\ todo'[5] = Save
    BY <1>4
  <2>2. \A i \in 3..5 : i # 3 => todo'[i] \in {Set, Save}
    BY <2>1
  <2>3. /\ "out2" \in Outputs /\ 5 \in Nat /\ 3 \in 3..5 /\ Len(todo') = 5 /\ todo'[3] = Assign("UP")
        /\ todo'[1] = Devcmd("out2", Position("UP")["out2"])
        /\ todo'[2] = Devcmd(Other("out2"), Position("UP")[Other("out2")])
    BY <1>1, <1>2, <2>1
  <2>. QED BY <2>2, <2>3, MoveBegins
<1>5. CASE todo' = <<Devcmd("out1", "OFF"), Devcmd("out2", "ON"), Assign("DOWN"), Set, Save>>
  <2>1. /\ Len(todo') = 5 /\ todo'[1] = Devcmd("out1", "OFF") /\ todo'[2] = Devcmd("out2", "ON")
        /\ todo'[3] = Assign("DOWN") /\ todo'[4] = Set /\ todo'[5] = Save
    BY <1>5
  <2>2. \A i \in 3..5 : i # 3 => todo'[i] \in {Set, Save}
    BY <2>1
  <2>3. /\ "out1" \in Outputs /\ 5 \in Nat /\ 3 \in 3..5 /\ Len(todo') = 5 /\ todo'[3] = Assign("DOWN")
        /\ todo'[1] = Devcmd("out1", Position("DOWN")["out1"])
        /\ todo'[2] = Devcmd(Other("out1"), Position("DOWN")[Other("out1")])
    BY <1>1, <1>2, <2>1
  <2>. QED BY <2>2, <2>3, MoveBegins
<1>6. CASE todo' = <<Devcmd("out1", "OFF"), Devcmd("out2", "OFF"), Assign("OFF"), Save>>
  <2>1. /\ Len(todo') = 4 /\ todo'[1] = Devcmd("out1", "OFF") /\ todo'[2] = Devcmd("out2", "OFF")
        /\ todo'[3] = Assign("OFF") /\ todo'[4] = Save
    BY <1>6
  <2>2. \A i \in 3..4 : i # 3 => todo'[i] \in {Set, Save}
    BY <2>1
  <2>3. /\ "out1" \in Outputs /\ 4 \in Nat /\ 3 \in 3..4 /\ Len(todo') = 4 /\ todo'[3] = Assign("OFF")
        /\ todo'[1] = Devcmd("out1", Position("OFF")["out1"])
        /\ todo'[2] = Devcmd(Other("out1"), Position("OFF")[Other("out1")])
    BY <1>1, <1>2, <2>1
  <2>. QED BY <2>2, <2>3, MoveBegins
<1>7. CASE todo' = <<Devcmd("out1", "OFF"), Devcmd("out2", "OFF"), Save, Assign("OFF")>>
  <2>1. /\ Len(todo') = 4 /\ todo'[1] = Devcmd("out1", "OFF") /\ todo'[2] = Devcmd("out2", "OFF")
        /\ todo'[3] = Save /\ todo'[4] = Assign("OFF")
    BY <1>7
  <2>2. \A i \in 3..4 : i # 4 => todo'[i] \in {Set, Save}
    BY <2>1
  <2>3. /\ "out1" \in Outputs /\ 4 \in Nat /\ 4 \in 3..4 /\ Len(todo') = 4 /\ todo'[4] = Assign("OFF")
        /\ todo'[1] = Devcmd("out1", Position("OFF")["out1"])
        /\ todo'[2] = Devcmd(Other("out1"), Position("OFF")[Other("out1")])
    BY <1>1, <1>2, <2>1
  <2>. QED BY <2>2, <2>3, MoveBegins
<1>8. CASE todo' = <<Assign("other"), Set, Save>>
  BY <1>8, OtherBegins
<1>. QED BY <1>8, <1>7, <1>6, <1>5, <1>4, <1>3, DocmdCases DEF Commands, Moves

(* The first call of the handler is done and the relays still follow: it   *)
(* is the devcmd for a relay, which is then on its way or missed, or it is *)
(* no devcmd at all.                                                       *)
LEMMA CallFollows ==
    ASSUME IInv, FollowInv, notifyDevcmd \/ assign \/ notifyWait \/ save
    PROVE  FollowInv'
<1>1. Types /\ todo # <<>> /\ todo' = Tail(todo) /\ UNCHANGED level
  BY DEF IInv, notifyDevcmd, assign, notifyWait, save
<1>2. todo \in Seq(Ops) /\ gpioQ \in Seq(Devcmds) /\ Head(todo) \in Ops
  BY <1>1 DEF Types
<1>3. OneAssign' /\ \A v : Becomes(v)' => Becomes(v)
  <2>1. currentStatus' = IF Assigns(Head(todo)) THEN Head(todo).val ELSE currentStatus
    BY OpsFields DEF notifyDevcmd, assign, notifyWait, save, Assigns
  <2>. QED BY <1>1, <2>1, CallDone DEF FollowInv
<1>4. ASSUME NEW o \in Outputs, NEW x, Sent(o, x) PROVE Sent(o, x)'
  <2> DEFINE m == Head(todo)
  <2>1. /\ LastFor(todo, o, x) => \/ LastFor(todo', o, x)
                                  \/ NoneFor(todo', o) /\ m.out = o /\ m.val = x
        /\ NoneFor(todo, o) => NoneFor(todo', o) /\ m.out # o
    BY <1>1, <1>2, TailFor
  <2>2. ASSUME LastFor(todo', o, x) PROVE Sent(o, x)'
    <3>1. (LastFor(todo, o, x))'
      BY <2>2
    <3>. QED BY <3>1 DEF Sent
  <2>3. ASSUME NoneFor(todo', o), o \in lostRelay' \/ Arrives(o, x)' PROVE Sent(o, x)'
    <3>1. (NoneFor(todo, o))'
      BY <2>3
    <3>. QED BY <2>3, <3>1 DEF Sent
  <2>4. CASE m.op = "devcmd"
    <3>1. /\ m \in Devcmds /\ status \in {"ON", "OFF"}
          /\ gpioQ' = IF status = "ON" THEN Append(gpioQ, m) ELSE gpioQ
          /\ lostRelay' = IF status = "ON" THEN lostRelay \ {m.out} ELSE lostRelay \cup {m.out}
      <4>1. Set.op # "devcmd" /\ Save.op # "devcmd"
        BY DEF Set, Save
      <4>2. notifyDevcmd
        BY <2>4, <4>1 DEF assign, notifyWait, save
      <4>. QED BY <4>2, <2>4, <1>2, <1>1, OpsFacts DEF notifyDevcmd, Types
    <3>2. ASSUME m.out = o, m.val = x PROVE o \in lostRelay' \/ Arrives(o, x)'
      <4>1. status = "ON" => LastFor(gpioQ', o, x)
        BY <1>2, <3>1, <3>2, AppendFor
      <4>2. status # "ON" => o \in lostRelay'
        BY <3>1, <3>2
      <4>3. LastFor(gpioQ', o, x) => Arrives(o, x)'
        BY DEF Arrives
      <4>. QED BY <4>1, <4>2, <4>3
    <3>3. ASSUME m.out # o, o \in lostRelay \/ Arrives(o, x)
          PROVE  o \in lostRelay' \/ Arrives(o, x)'
      <4>1. o \in lostRelay => o \in lostRelay'
        BY <3>1, <3>3
      <4>2. /\ LastFor(gpioQ, o, x) => LastFor(gpioQ', o, x)
            /\ NoneFor(gpioQ, o) => NoneFor(gpioQ', o)
        BY <1>2, <3>1, <3>3, AppendFor
      <4>3. LastFor(gpioQ', o, x) \/ (NoneFor(gpioQ', o) /\ level'[o] = x) => Arrives(o, x)'
        BY DEF Arrives
      <4>. QED BY <4>3, <4>2, <4>1, <3>3, <1>1 DEF Arrives
    <3>. QED BY <3>3, <3>2, <2>3, <2>2, <2>1, <1>4 DEF Sent
  <2>5. CASE m.op # "devcmd"
    <3>1. UNCHANGED <<gpioQ, lostRelay>>
      BY <2>5 DEF notifyDevcmd, assign, notifyWait, save, history
    <3>2. m.out # o
      <4>1. m \notin Devcmds
        BY <2>5, OpsFacts
      <4>. QED BY <1>2, <4>1, OpsFields DEF Ops
    <3>3. o \in lostRelay \/ Arrives(o, x) => o \in lostRelay' \/ Arrives(o, x)'
      BY <1>1, <3>1 DEF Arrives, LastFor, NoneFor
    <3>. QED BY <3>3, <3>2, <2>3, <2>2, <2>1, <1>4 DEF Sent
  <2>. QED BY <2>4, <2>5
<1>. QED BY <1>3, <1>4 DEF FollowInv

(* A relay that is set loses no devcmd for the other.                      *)
LEMMA SetFollows ==
    ASSUME IInv, FollowInv, setCurrentValue
    PROVE  FollowInv'
<1> DEFINE m == Head(gpioQ)
<1>1. /\ gpioQ # <<>> /\ gpioQ' = Tail(gpioQ) /\ level' = [level EXCEPT ![m.out] = m.val]
      /\ UNCHANGED <<todo, currentStatus, lostRelay>>
  BY DEF setCurrentValue, device, history
<1>2. gpioQ \in Seq(Devcmds) /\ m \in Devcmds /\ level \in [Outputs -> {"ON", "OFF"}]
  BY <1>1 DEF IInv, Types
<1>3. m.out \in Outputs
  BY <1>2, OpsFacts
<1>4. OneAssign' /\ \A v : Becomes(v)' => Becomes(v)
  BY <1>1 DEF FollowInv, OneAssign, Becomes, Assigns
<1>5. ASSUME NEW o \in Outputs, NEW x, Arrives(o, x) PROVE Arrives(o, x)'
  <2>1. /\ LastFor(gpioQ, o, x) => \/ LastFor(gpioQ', o, x)
                                   \/ NoneFor(gpioQ', o) /\ m.out = o /\ m.val = x
        /\ NoneFor(gpioQ, o) => NoneFor(gpioQ', o) /\ m.out # o
    BY <1>1, <1>2, TailFor
  <2>2. /\ m.out = o => level'[o] = m.val
        /\ m.out # o => level'[o] = level[o]
    BY <1>1, <1>2, <1>3
  <2>3. LastFor(gpioQ', o, x) \/ (NoneFor(gpioQ', o) /\ level'[o] = x)
    BY <1>5, <2>1, <2>2 DEF Arrives
  <2>. QED BY <2>3 DEF Arrives
<1>6. ASSUME NEW o \in Outputs, NEW x, Sent(o, x) PROVE Sent(o, x)'
  BY <1>1, <1>5, <1>6 DEF Sent, LastFor, NoneFor
<1>. QED BY <1>4, <1>6 DEF FollowInv

(* A restart takes note of the relays that are not where the file says.    *)
LEMMA RestartFollows ==
    ASSUME IInv, Restart
    PROVE  FollowInv'
<1>1. /\ todo' = <<>> /\ gpioQ' = <<>> /\ currentStatus' = saved /\ level' = level
      /\ lostRelay' = {o \in Outputs :
            level[o] # (IF <<saved, o>> \in {<<"UP", "out1">>, <<"DOWN", "out2">>}
                        THEN "ON" ELSE "OFF")}
  BY DEF Restart
<1>2. OneAssign' /\ \A v : Becomes(v)' => v = saved
  BY <1>1 DEF OneAssign, Becomes
<1>3. ASSUME NEW v, v = saved, NEW o \in Outputs PROVE Sent(o, Position(v)[o])'
  <2>1. Position(v)[o] = IF <<v, o>> \in {<<"UP", "out1">>, <<"DOWN", "out2">>} THEN "ON" ELSE "OFF"
    BY DEF Position, Outputs
  <2>2. o \in lostRelay' \/ level'[o] = Position(v)[o]
    BY <1>1, <1>3, <2>1
  <2>3. NoneFor(todo', o) /\ NoneFor(gpioQ', o)
    BY <1>1 DEF NoneFor
  <2>. QED BY <2>2, <2>3 DEF Sent, Arrives
<1>. QED BY <1>2, <1>3 DEF FollowInv

(* The relays will follow from the start on ...                            *)
LEMMA InitFollows == Init => FollowInv
<1>. SUFFICES ASSUME Init PROVE FollowInv
  OBVIOUS
<1>1. /\ todo = <<>> /\ gpioQ = <<>> /\ currentStatus = "none"
      /\ \A o \in Outputs : level[o] = "OFF"
  BY DEF Init
<1>2. OneAssign /\ \A v : Becomes(v) => v = "none"
  BY <1>1 DEF OneAssign, Becomes
<1>3. \A o \in Outputs : Position("none")[o] = "OFF"
  BY DEF Position, Outputs
<1>4. ASSUME NEW o \in Outputs PROVE Sent(o, "OFF")
  BY <1>1 DEF Sent, Arrives, NoneFor
<1>. QED BY <1>2, <1>3, <1>4 DEF FollowInv

(* ... and after every step.                                               *)
LEMMA NextFollows == IInv /\ FollowInv /\ [Next]_vars => FollowInv'
<1>. SUFFICES ASSUME IInv, FollowInv, [Next]_vars PROVE FollowInv'
  OBVIOUS
<1>1. CASE execcmd \/ execLocalEvent
  <2>1. todo = <<>> /\ UNCHANGED <<currentStatus, gpioQ, level, lostRelay>>
    BY <1>1 DEF execcmd, execLocalEvent, history
  <2>2. \E v \in Commands : todo' = docmdaction(v)
    <3>1. CASE execcmd
      <4>1. Head(devQ) \in InputOps
        BY <3>1 DEF IInv, Types, execcmd
      <4>2. Head(devQ).arg \in Commands
        BY <3>1, <4>1 DEF execcmd, InputOps, Cmd, End, Button
      <4>. QED BY <3>1, <4>2 DEF execcmd
    <3>2. CASE execLocalEvent
      <4>1. Wanted(ing') \in Commands
        BY DEF Wanted, Commands, Moves
      <4>. QED BY <3>2, <4>1 DEF execLocalEvent
    <3>. QED BY <1>1, <3>1, <3>2
  <2>. QED BY <2>1, <2>2, BeginFollows
<1>2. CASE dowaitaction
  BY <1>2, BeginFollows DEF dowaitaction, history, default_status
<1>3. CASE notifyDevcmd \/ assign \/ notifyWait \/ save
  BY <1>3, CallFollows
<1>4. CASE setCurrentValue
  BY <1>4, SetFollows
<1>5. CASE Restart
  BY <1>5, RestartFollows
<1>6. ASSUME UNCHANGED <<todo, currentStatus, gpioQ, level, lostRelay>> PROVE FollowInv'
  <2>1. OneAssign' /\ \A v : Becomes(v)' => Becomes(v)
    BY <1>6 DEF FollowInv, OneAssign, Becomes, Assigns
  <2>2. ASSUME NEW o \in Outputs, NEW x, Sent(o, x) PROVE Sent(o, x)'
    BY <1>6, <2>2 DEF Sent, Arrives, LastFor, NoneFor
  <2>. QED BY <2>1, <2>2 DEF FollowInv
<1>7. CASE \/ \E v \in Commands : Receive(Cmd(v))
           \/ \E i \in {"ing1", "ing2"}, v \in {"0", "1"} : Receive(Button(i, v))
           \/ timerStart \/ timerEnd \/ setStatus \/ UNCHANGED vars
  BY <1>6, <1>7 DEF Receive, timerStart, timerEnd, setStatus, vars, device, history
<1>. QED BY <1>7, <1>5, <1>4, <1>3, <1>2, <1>1 DEF Next, DeviceThread

(* TriStateOutput: whichever of commands, buttons, timeouts and restarts   *)
(* brought the device where it is, between two handlers each relay is on   *)
(* its way to what currentStatus says, unless it missed its last devcmd.   *)
THEOREM RelaysFollowDevice == Spec => []RelaysFollow
<1>1. Types /\ FollowInv => RelaysFollow
  <2>. SUFFICES ASSUME Types, FollowInv, todo = <<>>, currentStatus # "other",
                       NEW o \in Outputs \ lostRelay
                PROVE  Arrives(o, Position(currentStatus)[o])
    BY DEF RelaysFollow
  <2>1. currentStatus \in States \ {"other"} /\ Becomes(currentStatus)
    BY DEF Types, Becomes
  <2>2. Sent(o, Position(currentStatus)[o])
    BY <2>1 DEF FollowInv
  <2>. QED BY <2>2 DEF Sent, LastFor
<1>2. IInv => Types
  BY DEF IInv
<1>. QED BY <1>1, <1>2, InitIInv, NextIInv, InitFollows, NextFollows, PTL DEF Spec
=============================================================================
