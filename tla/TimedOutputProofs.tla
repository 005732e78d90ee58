------------------------- MODULE TimedOutputProofs --------------------------
(***************************************************************************)
(* Proofs about the outputs with a duration, for any number of outputs and *)
(* for any scenario of commands, "set" messages and edges of the input:    *)
(* relay and file stay in step with the device.  The queue of VrtDevices   *)
(* and the Timer may hold anything here; the argument needs only which     *)
(* calls a handler has still to make.                                      *)
(***************************************************************************)
EXTENDS TimedOutput, SequenceTheorems, TLAPS

IsFcn(f)  == f = [d \in Devices |-> f[d]]
Functions == IsFcn(value) /\ IsFcn(saved) /\ IsFcn(level) /\ IsFcn(levelSaved)

(* Only devcmds go to the GPIO thread.                                     *)
QueueInv ==
    /\ \E S : gpioQ \in Seq(S)
    /\ \A i \in 1..Len(gpioQ) : gpioQ[i].op = "devcmd"

OthersSaved(d) == \A e \in Devices \ {d} : saved[e] = value[e]

(* The handler has still to tell the relay, to save, to tell Timer.        *)
Sending(d, w) ==
    /\ OthersSaved(d)
    /\ \/ todo = <<Op("devcmd", d, value[d]), Op("save", d, value[d]), Op(w, d, value[d])>>
       \/ todo = <<Op("devcmd", d, value[d]), Op("save", d, value[d])>>
Saving(d, w) ==
    /\ OthersSaved(d)
    /\ \/ todo = <<Op("save", d, value[d]), Op(w, d, value[d])>>
       \/ todo = <<Op("save", d, value[d])>>
Telling(d, w) ==
    /\ \A e \in Devices : saved[e] = value[e]
    /\ todo = <<Op(w, d, value[d])>>
Idle ==
    /\ \A e \in Devices : saved[e] = value[e]
    /\ todo = <<>>

TodoInv ==
    \/ Idle
    \/ \E d \in Devices, w \in {"set", "reset"} : Sending(d, w) \/ Saving(d, w) \/ Telling(d, w)

(* A devcmd the handler has not made yet is the one thing that may be      *)
(* missing on the way to the relay.                                        *)
RelayInv ==
    \A e \in Devices \ lostRelay :
        Queued(e, value[e]) \/ \E w \in {"set", "reset"} : Sending(e, w)

IInv == Functions /\ QueueInv /\ TodoInv /\ RelayInv
-----------------------------------------------------------------------------
(* The fields of a call.                                                   *)
LEMMA OpFields == \A o, d, v : Op(o, d, v).op = o /\ Op(o, d, v).dev = d /\ Op(o, d, v).val = v
BY DEF Op

(* A devcmd sent last is the last one for its device ...                   *)
LEMMA AppendFor ==
    ASSUME QueueInv, NEW m, m.op = "devcmd", gpioQ' = Append(gpioQ, m)
    PROVE  /\ QueueInv'
           /\ LastFor(gpioQ', m.dev, m.val)
           /\ \A e, v : /\ e # m.dev /\ LastFor(gpioQ, e, v) => LastFor(gpioQ', e, v)
                        /\ e # m.dev /\ NoneFor(gpioQ, e) => NoneFor(gpioQ', e)
<1>1. PICK S : gpioQ \in Seq(S)
  BY DEF QueueInv
<1> DEFINE T == S \cup {m}
<1>2. gpioQ \in Seq(T) /\ m \in T
  BY <1>1
<1> HIDE DEF T
<1>3. /\ gpioQ' \in Seq(T) /\ Len(gpioQ) \in Nat
      /\ Len(gpioQ') = Len(gpioQ) + 1 /\ gpioQ'[Len(gpioQ) + 1] = m
      /\ \A i \in 1..Len(gpioQ) : gpioQ'[i] = gpioQ[i]
  BY <1>2, AppendProperties, LenProperties
<1>4. QueueInv'
  BY <1>3 DEF QueueInv
<1>5. LastFor(gpioQ', m.dev, m.val)
  BY <1>3 DEF LastFor
<1>6. ASSUME NEW e, NEW v, e # m.dev, LastFor(gpioQ, e, v) PROVE LastFor(gpioQ', e, v)
  BY <1>3, <1>6 DEF LastFor
<1>7. ASSUME NEW e, e # m.dev, NoneFor(gpioQ, e) PROVE NoneFor(gpioQ', e)
  BY <1>3, <1>7 DEF NoneFor
<1> QED
  BY <1>7, <1>6, <1>5, <1>4

(* ... and one that has arrived leaves the others where they are.          *)
LEMMA TailFor ==
    ASSUME QueueInv, gpioQ # <<>>, gpioQ' = Tail(gpioQ)
    PROVE  /\ QueueInv' /\ Head(gpioQ).op = "devcmd"
           /\ \A e, v : LastFor(gpioQ, e, v) =>
                 \/ LastFor(gpioQ', e, v)
                 \/ NoneFor(gpioQ', e) /\ Head(gpioQ).dev = e /\ Head(gpioQ).val = v
           /\ \A e : NoneFor(gpioQ, e) => Head(gpioQ).dev # e /\ NoneFor(gpioQ', e)
<1>1. PICK S : gpioQ \in Seq(S)
  BY DEF QueueInv
<1>2. /\ gpioQ' \in Seq(S) /\ Len(gpioQ) \in Nat \ {0} /\ Len(gpioQ') = Len(gpioQ) - 1
      /\ Head(gpioQ) = gpioQ[1]
      /\ \A i \in 1..Len(gpioQ) - 1 : gpioQ'[i] = gpioQ[i + 1]
  BY <1>1, HeadTailProperties, LenProperties, EmptySeq
<1>3. QueueInv' /\ Head(gpioQ).op = "devcmd"
  BY <1>2 DEF QueueInv
<1>4. ASSUME NEW e, NEW v, LastFor(gpioQ, e, v)
      PROVE  \/ LastFor(gpioQ', e, v)
             \/ NoneFor(gpioQ', e) /\ Head(gpioQ).dev = e /\ Head(gpioQ).val = v
  <2>1. PICK i \in 1..Len(gpioQ) :
           /\ gpioQ[i].op = "devcmd" /\ gpioQ[i].dev = e /\ gpioQ[i].val = v
           /\ \A j \in 1..Len(gpioQ) : j > i => ~(gpioQ[j].op = "devcmd" /\ gpioQ[j].dev = e)
    BY <1>4 DEF LastFor
  <2>2. CASE i = 1
    BY <1>2, <2>1, <2>2 DEF NoneFor
  <2>3. CASE i # 1
    <3>1. i - 1 \in 1..Len(gpioQ') /\ gpioQ'[i - 1] = gpioQ[i]
      BY <1>2, <2>3
    <3>2. \A j \in 1..Len(gpioQ') : j > i - 1 => ~(gpioQ'[j].op = "devcmd" /\ gpioQ'[j].dev = e)
      BY <1>2, <2>1
    <3> QED
      BY <2>1, <3>1, <3>2 DEF LastFor
  <2> QED
    BY <2>2, <2>3
<1>5. ASSUME NEW e, NoneFor(gpioQ, e) PROVE Head(gpioQ).dev # e /\ NoneFor(gpioQ', e)
  BY <1>2, <1>3, <1>5 DEF NoneFor
<1> QED
  BY <1>3, <1>4, <1>5

(* The handler of a command has its calls before it: the file of another   *)
(* device is up to date, and the relay too unless a devcmd is to be sent.  *)
LEMMA BeginInv ==
    ASSUME IInv, todo = <<>>, NEW d \in Devices, NEW v, NEW w \in {"set", "reset"},
           value' = [value EXCEPT ![d] = v],
           UNCHANGED <<saved, level, levelSaved, gpioQ, lostRelay>>,
           \/ /\ value[d] # v
              /\ \/ todo' = <<Op("devcmd", d, v), Op("save", d, v), Op(w, d, v)>>
                 \/ todo' = <<Op("devcmd", d, v), Op("save", d, v)>>
           \/ /\ value[d] = v
              /\ todo' = <<Op(w, d, v)>> \/ todo' = <<>>
    PROVE  IInv'
<1>1. Idle
  BY DEF IInv, TodoInv, Idle, Sending, Saving, Telling
<1>2. /\ value'[d] = v /\ \A e \in Devices \ {d} : value'[e] = value[e]
      /\ Functions' /\ QueueInv'
  BY DEF IInv, Functions, IsFcn, QueueInv
<1>3. \A e \in Devices \ lostRelay : Queued(e, value[e])
  BY <1>1 DEF IInv, RelayInv, Sending, Idle
<1>4. \A e : \A x : Queued(e, x) => Queued(e, x)'
  BY DEF Queued
<1>5. CASE value[d] # v
  <2>1. Sending(d, w)'
    BY <1>1, <1>2, <1>5 DEF Sending, OthersSaved, Idle
  <2>2. TodoInv'
    BY <2>1 DEF TodoInv
  <2>3. RelayInv'
    BY <2>1, <1>4, <1>3, <1>2 DEF RelayInv
  <2> QED
    BY <1>2, <2>2, <2>3 DEF IInv
<1>6. CASE value[d] = v
  <2>1. \A e \in Devices : value'[e] = value[e]
    BY <1>2, <1>6
  <2>2. Idle' \/ Telling(d, w)'
    BY <1>1, <1>6, <2>1 DEF Idle, Telling
  <2>3. TodoInv'
    BY <2>2 DEF TodoInv
  <2>4. RelayInv'
    BY <1>3, <1>4, <2>1 DEF RelayInv
  <2> QED
    BY <1>2, <2>3, <2>4 DEF IInv
<1> QED
  BY <1>5, <1>6

(* VrtDevices takes a command, or the end of a duration.                   *)
LEMMA ExecInv == IInv /\ (execcmd \/ execwait) => IInv'
<1> SUFFICES ASSUME IInv, execcmd \/ execwait PROVE IInv'
  OBVIOUS
<1> DEFINE d == Head(devQ).dev
<1>0. todo = <<>> /\ d \in Devices
  BY DEF execcmd, execwait
<1>1. CASE execcmd
  <2> DEFINE v == Head(devQ).val
             w == IF v # Default THEN "set" ELSE "reset"
  <2>1. /\ value' = [value EXCEPT ![d] = v] /\ todo' = AfterCmd(d, v)
        /\ UNCHANGED <<saved, level, levelSaved, gpioQ, lostRelay>>
    BY <1>1 DEF execcmd
  <2>2. \/ /\ value[d] # v
           /\ todo' = <<Op("devcmd", d, v), Op("save", d, v), Op(w, d, v)>>
        \/ /\ value[d] = v
           /\ todo' = <<Op(w, d, v)>> \/ todo' = <<>>
    BY <2>1 DEF AfterCmd
  <2>3. w \in {"set", "reset"}
    OBVIOUS
  <2> HIDE DEF d, v, w
  <2> QED
    BY <2>3, <2>2, <2>1, <1>0, BeginInv
<1>2. CASE execwait
  <2>1. /\ value' = [value EXCEPT ![d] = Default]
        /\ UNCHANGED <<saved, level, levelSaved, gpioQ, lostRelay>>
        /\ \/ /\ value[d] # Default
              /\ todo' = <<Op("devcmd", d, Default), Op("save", d, Default)>>
           \/ value[d] = Default /\ todo' = <<>>
    BY <1>2 DEF execwait
  <2>2. "set" \in {"set", "reset"}
    OBVIOUS
  <2> HIDE DEF d
  <2> QED
    BY <1>0, <2>1, <2>2, BeginInv
<1> QED
  BY <1>1, <1>2

(* The call for the relay is made: the devcmd is queued, or it is lost.    *)
LEMMA DevcmdInv == IInv /\ notifyDevcmd => IInv'
<1> SUFFICES ASSUME IInv, notifyDevcmd PROVE IInv'
  OBVIOUS
<1>0. /\ todo # <<>> /\ Head(todo).op = "devcmd" /\ todo' = Tail(todo)
      /\ value' = value /\ saved' = saved /\ level' = level /\ levelSaved' = levelSaved
      /\ gpioQ' = IF status = "ON" THEN Append(gpioQ, Head(todo)) ELSE gpioQ
      /\ lostRelay' = IF status = "ON" THEN lostRelay \ {Head(todo).dev}
                                       ELSE lostRelay \cup {Head(todo).dev}
  BY DEF notifyDevcmd
<1>1. PICK d \in Devices, w \in {"set", "reset"} : Sending(d, w)
  <2>1. ASSUME NEW d \in Devices, NEW w \in {"set", "reset"}, Saving(d, w) \/ Telling(d, w)
        PROVE  FALSE
    <3>1. Head(todo) = Op("save", d, value[d]) \/ Head(todo) = Op(w, d, value[d])
      BY <2>1 DEF Saving, Telling
    <3> QED
      BY <1>0, <3>1, OpFields
  <2>2. ~Idle
    BY <1>0 DEF Idle
  <2> QED
    BY <2>1, <2>2 DEF IInv, TodoInv
<1>2. /\ Head(todo) = Op("devcmd", d, value[d])
      /\ \/ todo' = <<Op("save", d, value[d]), Op(w, d, value[d])>>
         \/ todo' = <<Op("save", d, value[d])>>
  <2>1. CASE todo = <<Op("devcmd", d, value[d]), Op("save", d, value[d]), Op(w, d, value[d])>>
    <3>1. /\ Head(todo) = Op("devcmd", d, value[d])
          /\ Tail(todo) = <<Op("save", d, value[d]), Op(w, d, value[d])>>
      BY <2>1
    <3> QED
      BY <1>0, <3>1
  <2>2. CASE todo = <<Op("devcmd", d, value[d]), Op("save", d, value[d])>>
    <3>1. Head(todo) = Op("devcmd", d, value[d]) /\ Tail(todo) = <<Op("save", d, value[d])>>
      BY <2>2
    <3> QED
      BY <1>0, <3>1
  <2> QED
    BY <1>1, <2>1, <2>2 DEF Sending
<1>3. Head(todo).dev = d /\ Head(todo).val = value[d]
  BY <1>2, OpFields
<1>4. Saving(d, w)'
  BY <1>0, <1>1, <1>2 DEF Sending, Saving, OthersSaved
<1>5. TodoInv' /\ Functions'
  BY <1>0, <1>4 DEF TodoInv, IInv, Functions, IsFcn
<1>6. \A e \in Devices \ (lostRelay \cup {d}) : Queued(e, value[e])
  <2> SUFFICES ASSUME NEW e \in Devices \ (lostRelay \cup {d}), NEW x \in {"set", "reset"}, Sending(e, x)
               PROVE  FALSE
    BY DEF IInv, RelayInv
  <2>1. Head(todo) = Op("devcmd", e, value[e])
    BY DEF Sending
  <2> QED
    BY <1>3, <2>1, OpFields
<1>7. CASE status = "ON"
  <2>1. /\ QueueInv' /\ LastFor(gpioQ', d, value[d])
        /\ \A e, v : /\ e # d /\ LastFor(gpioQ, e, v) => LastFor(gpioQ', e, v)
                     /\ e # d /\ NoneFor(gpioQ, e) => NoneFor(gpioQ', e)
    BY <1>0, <1>3, <1>7, AppendFor DEF IInv
  <2>2. \A e \in Devices \ lostRelay' : Queued(e, value[e])'
    BY <2>1, <1>7, <1>6, <1>3, <1>0 DEF Queued
  <2> QED
    BY <2>2, <2>1, <1>5, <1>0 DEF IInv, RelayInv
<1>8. CASE status # "ON"
  <2>1. QueueInv'
    BY <1>0, <1>8 DEF IInv, QueueInv
  <2>2. \A e \in Devices \ lostRelay' : Queued(e, value[e])'
    BY <1>8, <1>6, <1>3, <1>0 DEF Queued
  <2> QED
    BY <2>2, <2>1, <1>5, <1>0 DEF IInv, RelayInv
<1> QED
  BY <1>7, <1>8

(* The file is written, then Timer is told.                                *)
LEMMA SaveInv == IInv /\ (save \/ notifyWait) => IInv'
<1> SUFFICES ASSUME IInv, save \/ notifyWait PROVE IInv'
  OBVIOUS
<1>0. /\ todo # <<>> /\ Head(todo).op # "devcmd" /\ todo' = Tail(todo)
      /\ value' = value /\ level' = level /\ levelSaved' = levelSaved
      /\ gpioQ' = gpioQ /\ lostRelay' = lostRelay
  BY DEF save, notifyWait
<1>1. \A e \in Devices, w \in {"set", "reset"} : ~Sending(e, w)
  <2> SUFFICES ASSUME NEW e \in Devices, NEW w \in {"set", "reset"}, Sending(e, w)
               PROVE  FALSE
    OBVIOUS
  <2>1. Head(todo) = Op("devcmd", e, value[e])
    BY DEF Sending
  <2> QED
    BY <1>0, <2>1, OpFields
<1>2. RelayInv' /\ QueueInv'
  <2>1. \A e \in Devices \ lostRelay : Queued(e, value[e])'
    BY <1>0, <1>1 DEF IInv, RelayInv, Queued
  <2> QED
    BY <1>0, <2>1 DEF IInv, RelayInv, QueueInv
<1>3. PICK d \in Devices, w \in {"set", "reset"} : Saving(d, w) \/ Telling(d, w)
  BY <1>0, <1>1 DEF IInv, TodoInv, Idle
<1>4. CASE Saving(d, w)
  <2>1. /\ Head(todo) = Op("save", d, value[d])
        /\ todo' = <<Op(w, d, value[d])>> \/ todo' = <<>>
    <3>1. CASE todo = <<Op("save", d, value[d]), Op(w, d, value[d])>>
      <4>1. Head(todo) = Op("save", d, value[d]) /\ Tail(todo) = <<Op(w, d, value[d])>>
        BY <3>1
      <4> QED
        BY <1>0, <4>1
    <3>2. CASE todo = <<Op("save", d, value[d])>>
      <4>1. Head(todo) = Op("save", d, value[d]) /\ Tail(todo) = <<>>
        BY <3>2
      <4> QED
        BY <1>0, <4>1
    <3> QED
      BY <1>4, <3>1, <3>2 DEF Saving
  <2>2. saved' = [saved EXCEPT ![d] = value[d]]
    BY <2>1, OpFields DEF save, notifyWait
  <2>3. IsFcn(saved)
    BY DEF IInv, Functions
  <2>4. IsFcn(saved') /\ \A e \in Devices : saved'[e] = value[e]
    BY <1>4, <2>2, <2>3 DEF IsFcn, Saving, OthersSaved
  <2>5. Idle' \/ Telling(d, w)'
    BY <1>0, <2>1, <2>4 DEF Idle, Telling
  <2>6. TodoInv' /\ Functions'
    BY <1>0, <2>4, <2>5 DEF TodoInv, IInv, Functions, IsFcn
  <2> QED
    BY <1>2, <2>6 DEF IInv
<1>5. CASE Telling(d, w)
  <2>1. Head(todo) = Op(w, d, value[d]) /\ todo' = <<>>
    BY <1>0, <1>5 DEF Telling
  <2>2. saved' = saved
    BY <2>1, OpFields DEF save, notifyWait
  <2>3. Idle'
    BY <2>2, <2>1, <1>5, <1>0 DEF Idle, Telling
  <2>4. TodoInv' /\ Functions'
    BY <1>0, <2>2, <2>3 DEF TodoInv, IInv, Functions, IsFcn
  <2> QED
    BY <1>2, <2>4 DEF IInv
<1> QED
  BY <1>3, <1>4, <1>5

(* The GPIO thread sets a relay.                                           *)
LEMMA RelaySet == IInv /\ setCurrentValue => IInv'
<1> SUFFICES ASSUME IInv, setCurrentValue PROVE IInv'
  OBVIOUS
<1> DEFINE m == Head(gpioQ)
<1>0. /\ gpioQ # <<>> /\ gpioQ' = Tail(gpioQ)
      /\ level' = [level EXCEPT ![m.dev] = m.val] /\ levelSaved' = level'
      /\ value' = value /\ saved' = saved /\ todo' = todo /\ lostRelay' = lostRelay
  BY DEF setCurrentValue
<1>1. /\ QueueInv'
      /\ \A e, v : LastFor(gpioQ, e, v) =>
            LastFor(gpioQ', e, v) \/ (NoneFor(gpioQ', e) /\ m.dev = e /\ m.val = v)
      /\ \A e : NoneFor(gpioQ, e) => m.dev # e /\ NoneFor(gpioQ', e)
  BY <1>0, TailFor DEF IInv
<1> HIDE DEF m
<1>2. IsFcn(level') /\ \A e \in Devices : level'[e] = IF e = m.dev THEN m.val ELSE level[e]
  BY <1>0 DEF IInv, Functions, IsFcn
<1>3. \A e \in Devices : \A v : Queued(e, v) => Queued(e, v)'
  BY <1>1, <1>2 DEF Queued
<1>4. \A e, w : Sending(e, w) => Sending(e, w)'
  BY <1>0 DEF Sending, OthersSaved
<1>5. RelayInv'
  BY <1>0, <1>3, <1>4 DEF IInv, RelayInv
<1>6. TodoInv'
  BY <1>0 DEF IInv, TodoInv, Idle, Sending, Saving, Telling, OthersSaved
<1>7. Functions'
  BY <1>0, <1>2 DEF IInv, Functions, IsFcn
<1> QED
  BY <1>7, <1>6, <1>5, <1>1 DEF IInv

(* After a restart the devices that differ from their relays are known.    *)
LEMMA RestartInv == IInv /\ Restart => IInv'
<1> SUFFICES ASSUME IInv, Restart PROVE IInv'
  OBVIOUS
<1>0. /\ value' = saved /\ saved' = saved /\ level' = levelSaved /\ levelSaved' = levelSaved
      /\ todo' = <<>> /\ gpioQ' = <<>>
      /\ lostRelay' = {d \in Devices : saved[d] # levelSaved[d]}
  BY DEF Restart
<1>1. Functions' /\ TodoInv'
  BY <1>0 DEF IInv, Functions, IsFcn, TodoInv, Idle
<1>2. <<>> \in Seq({}) /\ Len(<<>>) = 0
  OBVIOUS
<1>3. QueueInv'
  BY <1>0, <1>2 DEF QueueInv
<1>4. \A e : NoneFor(gpioQ', e)
  BY <1>0, <1>2 DEF NoneFor
<1>5. RelayInv'
  BY <1>0, <1>4 DEF RelayInv, Queued
<1> QED
  BY <1>1, <1>3, <1>5 DEF IInv

(* The other steps touch neither the outputs nor the way to the relays.    *)
LEMMA OtherInv ==
    ASSUME IInv, UNCHANGED <<value, saved, level, levelSaved, todo, gpioQ, lostRelay>>
    PROVE  IInv'
<1>1. Functions' /\ QueueInv'
  BY DEF IInv, Functions, IsFcn, QueueInv
<1>2. TodoInv'
  BY DEF IInv, TodoInv, Idle, Sending, Saving, Telling, OthersSaved
<1>3. \A e \in Devices : \A v : Queued(e, v) => Queued(e, v)'
  BY DEF Queued
<1>4. \A e, w : Sending(e, w) => Sending(e, w)'
  BY DEF Sending, OthersSaved
<1>5. RelayInv'
  BY <1>3, <1>4 DEF IInv, RelayInv
<1> QED
  BY <1>1, <1>2, <1>5 DEF IInv

(* At the start everything is at its default.                              *)
LEMMA InitInv == Init => IInv
<1> SUFFICES ASSUME Init PROVE IInv
  OBVIOUS
<1>1. Functions /\ TodoInv
  BY DEF Init, Functions, IsFcn, TodoInv, Idle
<1>2. <<>> \in Seq({}) /\ Len(<<>>) = 0
  OBVIOUS
<1>3. QueueInv
  BY <1>2 DEF Init, QueueInv
<1>4. \A e : NoneFor(gpioQ, e)
  BY <1>2 DEF Init, NoneFor
<1>5. RelayInv
  BY <1>4 DEF Init, RelayInv, Queued
<1> QED
  BY <1>1, <1>3, <1>5 DEF IInv

(* Every step keeps the invariant.                                         *)
LEMMA NextInv == IInv /\ [Next]_vars => IInv'
<1> SUFFICES ASSUME IInv, [Next]_vars PROVE IInv'
  OBVIOUS
<1> DEFINE Same == UNCHANGED <<value, saved, level, levelSaved, todo, gpioQ, lostRelay>>
<1>1. ASSUME NEW d \in conf.outputs, NEW v \in Values, Command(d, v) PROVE Same
  BY <1>1 DEF Command, outputVars
<1>2. ASSUME NEW v \in Values, SetInput(v) PROVE Same
  BY <1>2 DEF SetInput, outputVars
<1>3. ASSUME NEW s \in {sec, sec + 1}, NEW late \in BOOLEAN, Edge(s, late) PROVE Same
  BY <1>3 DEF Edge, outputVars
<1>4. ASSUME NEW s \in {sec, sec + 1}, update(s) PROVE Same
  BY <1>4 DEF update, outputVars
<1>5. ASSUME execwaitInput \/ setstatus PROVE Same
  BY <1>5 DEF execwaitInput, setstatus, outputVars
<1>6. ASSUME timerUpdate \/ timerNotify \/ timerStart \/ triggerPoll PROVE Same
  BY <1>6 DEF outputVars, timerUpdate, timerNotify, timerStart, triggerPoll
<1>7. ASSUME setStatusOFF \/ setStatusON PROVE Same
  BY <1>7 DEF setStatusOFF, setStatusON
<1>8. ASSUME UNCHANGED vars PROVE Same
  BY <1>8 DEF vars, outputVars
<1>9. Same => IInv'
  BY OtherInv
<1> QED
  BY <1>9, <1>8, <1>7, <1>6, <1>5, <1>4, <1>3, <1>2, <1>1, ExecInv, DevcmdInv, SaveInv,
     RelaySet, RestartInv DEF Next, DeviceThread, TimerThread

(* The invariant holds in every state, whatever the Timer, the input and   *)
(* the faults do between the calls of a handler.                           *)
THEOREM Inductive == Spec => []IInv
<1> QED
  BY InitInv, NextInv, PTL DEF Spec

(* The relay of every output is on its way to the value of the device,     *)
(* unless its devcmd was dropped while the agent was OFF or a restart      *)
(* found the two files apart (BinaryOutput::execcmd, Gpio).                *)
THEOREM RelayFollowsDevice == Spec => []RelayFollows
<1>1. IInv => RelayFollows
  <2> SUFFICES ASSUME IInv, NEW e \in Devices \ lostRelay PROVE Arrives(e, value[e])
    BY DEF RelayFollows
  <2>1. ASSUME NEW w \in {"set", "reset"}, Sending(e, w) PROVE LastFor(todo, e, value[e])
    <3>1. CASE todo = <<Op("devcmd", e, value[e]), Op("save", e, value[e]), Op(w, e, value[e])>>
      <4>1. /\ Len(todo) = 3 /\ todo[1] = Op("devcmd", e, value[e])
            /\ todo[2] = Op("save", e, value[e]) /\ todo[3] = Op(w, e, value[e])
        BY <3>1
      <4> QED
        BY <4>1, OpFields DEF LastFor
    <3>2. CASE todo = <<Op("devcmd", e, value[e]), Op("save", e, value[e])>>
      <4>1. /\ Len(todo) = 2 /\ todo[1] = Op("devcmd", e, value[e])
            /\ todo[2] = Op("save", e, value[e])
        BY <3>2
      <4> QED
        BY <4>1, OpFields DEF LastFor
    <3> QED
      BY <2>1, <3>1, <3>2 DEF Sending
  <2>2. ASSUME \A w \in {"set", "reset"} : ~Sending(e, w) PROVE NoneFor(todo, e)
    <3>1. ASSUME NEW d \in Devices, NEW w \in {"set", "reset"}, Sending(d, w)
          PROVE  NoneFor(todo, e)
      <4>1. d # e
        BY <2>2, <3>1
      <4>2. CASE todo = <<Op("devcmd", d, value[d]), Op("save", d, value[d]), Op(w, d, value[d])>>
        <5>1. /\ Len(todo) = 3 /\ todo[1] = Op("devcmd", d, value[d])
              /\ todo[2] = Op("save", d, value[d]) /\ todo[3] = Op(w, d, value[d])
          BY <4>2
        <5> QED
          BY <4>1, <5>1, OpFields DEF NoneFor
      <4>3. CASE todo = <<Op("devcmd", d, value[d]), Op("save", d, value[d])>>
        <5>1. /\ Len(todo) = 2 /\ todo[1] = Op("devcmd", d, value[d])
              /\ todo[2] = Op("save", d, value[d])
          BY <4>3
        <5> QED
          BY <4>1, <5>1, OpFields DEF NoneFor
      <4> QED
        BY <3>1, <4>2, <4>3 DEF Sending
    <3>2. ASSUME NEW d \in Devices, NEW w \in {"set", "reset"}, Saving(d, w) \/ Telling(d, w)
          PROVE  NoneFor(todo, e)
      <4>1. CASE todo = <<Op("save", d, value[d]), Op(w, d, value[d])>>
        <5>1. Len(todo) = 2 /\ todo[1] = Op("save", d, value[d]) /\ todo[2] = Op(w, d, value[d])
          BY <4>1
        <5> QED
          BY <5>1, OpFields DEF NoneFor
      <4>2. CASE todo = <<Op("save", d, value[d])>> \/ todo = <<Op(w, d, value[d])>>
        <5>1. Len(todo) = 1 /\ todo[1].op # "devcmd"
          BY <4>2, OpFields
        <5> QED
          BY <5>1 DEF NoneFor
      <4> QED
        BY <3>2, <4>1, <4>2 DEF Saving, Telling
    <3>3. CASE Idle
      BY <3>3 DEF Idle, NoneFor
    <3> QED
      BY <3>1, <3>2, <3>3 DEF IInv, TodoInv
  <2> QED
    BY <2>1, <2>2 DEF IInv, RelayInv, Arrives
<1> QED
  BY <1>1, Inductive, PTL

(* Between two handlers every output's file holds its value, so a restart  *)
(* then takes it up where it was (BinaryOutput::save).                     *)
THEOREM SavedBetweenHandlers == Spec => []SavedWhenIdle
<1>1. IInv => SavedWhenIdle
  <2> SUFFICES ASSUME IInv, todo = <<>> PROVE saved = value
    BY DEF SavedWhenIdle
  <2>1. \A e \in Devices : saved[e] = value[e]
    BY DEF IInv, TodoInv, Idle, Sending, Saving, Telling
  <2> QED
    BY <2>1 DEF IInv, Functions, IsFcn
<1> QED
  BY <1>1, Inductive, PTL
=============================================================================
