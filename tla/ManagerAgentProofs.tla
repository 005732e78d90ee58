------------------------- MODULE ManagerAgentProofs -------------------------
(***************************************************************************)
(* Proofs about the programme engine, for any programmes, any timed rule,  *)
(* any commands and any number of restarts and flips of the agent.         *)
(*                                                                         *)
(* The properties speak of the engine between two handlers.  The invariant *)
(* says for every call a handler may have reached how the two files, the   *)
(* programme in memory and the history stand to each other there, since a  *)
(* restart may find them so.  What it says of the files holds until a call *)
(* could not write (unsaved), which the handlers do not notice.            *)
(***************************************************************************)
EXTENDS ManagerAgent, SequenceTheorems, TLAPS

Names == (DOMAIN Plan \cup {Empty, "OFF", "MANUAL", StartProgram}
          \cup {c.cur : c \in Configurations} \cup {c.swp : c \in Configurations}) \ {Missing}

Lists == {{}} \cup {Listed(p, t) : p \in Names, t \in Nat}

Announcement == [op : {"prgstatus"}, prog : Names, list : Lists]

Message ==
    (UNION {c.cmds : c \in Configurations}) \cup {[op |-> "prgupdate"], [op |-> "update"]}
    \cup Announcement

FilesOK == current \in Names /\ cur \in Names \cup {Missing} /\ swp \in Names

TypeOK ==
    /\ conf \in Configurations
    /\ tod \in Nat /\ nrestarts \in Nat
    /\ FilesOK /\ al \in Lists
    /\ trQ \in Seq(Message)

(* What may be read from SWAPPEDOUT without bringing back an older one.    *)
Good == swp \in {Empty, "OFF", "MANUAL", lastOn}

(* Between two handlers and while the programme is announced.              *)
Idle ==
    /\ todo \in {<<>>, <<Call("notify", Empty)>>}
    /\ unsaved # {} \/ cur = current
    /\ current # "OFF" => lastOn = current
    /\ current # "OFF" /\ nrestarts = 0 => unsaved # {} \/ swp = Empty
    /\ current = "OFF" /\ nrestarts <= 1 => unsaved # {} \/ Good

(* The files are written; the client has not been answered.                *)
Answering ==
    /\ todo = <<Call("ack", Empty), Call("notify", Empty)>>
    /\ unsaved # {} \/ cur = current
    /\ current # "OFF" /\ nrestarts = 0 => unsaved # {} \/ swp = Empty
    /\ current = "OFF" /\ nrestarts <= 1 => unsaved # {} \/ Good

(* In the calls of SetByName ...                                           *)
Naming(p) ==
    \/ /\ todo = <<Call("load", p), Call("move", Empty), Call("current", Empty), Call("current", p),
                   Call("delete", Empty), Call("ack", Empty), Call("notify", Empty)>>
    \/ /\ todo = <<Call("move", Empty), Call("current", Empty), Call("current", p),
                   Call("delete", Empty), Call("ack", Empty), Call("notify", Empty)>>
       /\ current = p
    \/ /\ todo = <<Call("current", Empty), Call("current", p),
                   Call("delete", Empty), Call("ack", Empty), Call("notify", Empty)>>
       /\ current = p
    \/ /\ todo = <<Call("current", p), Call("delete", Empty), Call("ack", Empty), Call("notify", Empty)>>
       /\ current = p
    \/ /\ todo = <<Call("delete", Empty), Call("ack", Empty), Call("notify", Empty)>>
       /\ current = p /\ (unsaved # {} \/ cur = p)

(* ... in those of SwitchToOff ...                                         *)
PuttingAside(x) ==
    /\ unsaved # {} \/ x = lastOn
    /\ \/ todo = <<Call("move", Empty), Call("current", Empty), Call("current", "OFF"), Call("swapped", Empty),
                   Call("swapped", x), Call("load", "OFF"), Call("ack", Empty), Call("notify", Empty)>>
       \/ todo = <<Call("current", Empty), Call("current", "OFF"), Call("swapped", Empty),
                   Call("swapped", x), Call("load", "OFF"), Call("ack", Empty), Call("notify", Empty)>>
       \/ todo = <<Call("current", "OFF"), Call("swapped", Empty),
                   Call("swapped", x), Call("load", "OFF"), Call("ack", Empty), Call("notify", Empty)>>
       \/ /\ todo = <<Call("swapped", Empty), Call("swapped", x), Call("load", "OFF"),
                      Call("ack", Empty), Call("notify", Empty)>>
          /\ (unsaved # {} \/ cur = "OFF")
       \/ /\ todo = <<Call("swapped", x), Call("load", "OFF"), Call("ack", Empty), Call("notify", Empty)>>
          /\ (unsaved # {} \/ cur = "OFF")
       \/ /\ todo = <<Call("load", "OFF"), Call("ack", Empty), Call("notify", Empty)>>
          /\ (unsaved # {} \/ (cur = "OFF" /\ swp = x))

(* ... and in those of Resume.                                             *)
TakingBack(r) ==
    \/ /\ todo = <<Call("move", Empty), Call("current", Empty), Call("current", r), Call("delete", Empty),
                   Call("load", r), Call("ack", Empty), Call("notify", Empty)>>
    \/ /\ todo = <<Call("current", Empty), Call("current", r), Call("delete", Empty),
                   Call("load", r), Call("ack", Empty), Call("notify", Empty)>>
    \/ /\ todo = <<Call("current", r), Call("delete", Empty),
                   Call("load", r), Call("ack", Empty), Call("notify", Empty)>>
    \/ /\ todo = <<Call("delete", Empty), Call("load", r), Call("ack", Empty), Call("notify", Empty)>>
       /\ (unsaved # {} \/ cur = r)
    \/ /\ todo = <<Call("load", r), Call("ack", Empty), Call("notify", Empty)>>
       /\ (unsaved # {} \/ (cur = r /\ swp = Empty))

PhaseInv ==
    \/ Idle
    \/ Answering
    \/ \E p \in DOMAIN Plan : Naming(p)
    \/ \E x \in Names : PuttingAside(x)
    \/ \E r \in Names \ {"OFF"} : TakingBack(r)

(* Before the first crash SWAPPEDOUT is never stale.                       *)
FreshInv == nrestarts = 0 => unsaved # {} \/ Good

AckInv == acked # NoAck => Idle /\ (unsaved # {} \/ acked = current)

(* The last announcement queued for the rules, or else what they know, is  *)
(* what was announced last.                                                *)
LastAnnounced(q, p, l) ==
    \E i \in 1..Len(q) : /\ q[i].op = "prgstatus" /\ q[i].prog = p /\ q[i].list = l
                         /\ \A j \in 1..Len(q) : j > i => q[j].op # "prgstatus"
NoneAnnounced(q) == \A i \in 1..Len(q) : q[i].op # "prgstatus"

KnowInv ==
    ~missed => \/ LastAnnounced(trQ, previous, al)
               \/ /\ NoneAnnounced(trQ)
                  /\ view.program = previous
                  /\ view.on = (previous # "OFF" /\ al # {})

PreviousInv == todo = <<>> => previous = current

IInv == TypeOK /\ PhaseInv /\ FreshInv /\ AckInv /\ PreviousInv /\ KnowInv
-----------------------------------------------------------------------------
(* The fields of a call.                                                   *)
LEMMA CallFields == \A o, p : Call(o, p).op = o /\ Call(o, p).prog = p
BY DEF Call

(* The concatenation of two sequences is u if u has their elements.        *)
LEMMA ConcatIs ==
    ASSUME NEW S, NEW s \in Seq(S), NEW t \in Seq(S), NEW u \in Seq(S),
           Len(u) = Len(s) + Len(t),
           \A i \in 1..Len(u) : u[i] = IF i <= Len(s) THEN s[i] ELSE t[i - Len(s)]
    PROVE  s \o t = u
<1>1. /\ s \o t \in Seq(S) /\ Len(s \o t) = Len(s) + Len(t)
      /\ \A i \in 1..Len(s) + Len(t) : (s \o t)[i] = IF i <= Len(s) THEN s[i] ELSE t[i - Len(s)]
  BY ConcatProperties
<1>2. Len(s \o t) = Len(u) /\ \A i \in 1..Len(s \o t) : (s \o t)[i] = u[i]
  BY <1>1
<1> QED
  BY <1>1, <1>2, SeqEqual

(* Lists of calls put together.                                            *)
LEMMA Concat02 == \A a, b : <<>> \o <<a, b>> = <<a, b>>
OBVIOUS

(* ... one and two.                                                       *)
LEMMA Concat12 == \A a, b, c : <<a>> \o <<b, c>> = <<a, b, c>>
<1> TAKE a, b, c
<1> DEFINE S == {a, b, c}
           s == <<a>>
           t == <<b, c>>
           u == <<a, b, c>>
<1>1. s \in Seq(S) /\ t \in Seq(S) /\ u \in Seq(S)
  OBVIOUS
<1>2. Len(s) = 1 /\ Len(t) = 2 /\ Len(u) = 3
  OBVIOUS
<1>3. \A i \in 1..3 : u[i] = IF i <= 1 THEN s[i] ELSE t[i - 1]
  OBVIOUS
<1> HIDE DEF S, s, t, u
<1>4. /\ Len(u) = Len(s) + Len(t)
      /\ \A i \in 1..Len(u) : u[i] = IF i <= Len(s) THEN s[i] ELSE t[i - Len(s)]
  BY <1>2, <1>3
<1>5. s \o t = u
  BY <1>1, <1>4, ConcatIs
<1> QED
  BY <1>5 DEF s, t, u

(* ... two and two.                                                       *)
LEMMA Concat22 == \A a, b, c, d : <<a, b>> \o <<c, d>> = <<a, b, c, d>>
<1> TAKE a, b, c, d
<1> DEFINE S == {a, b, c, d}
           s == <<a, b>>
           t == <<c, d>>
           u == <<a, b, c, d>>
<1>1. s \in Seq(S) /\ t \in Seq(S) /\ u \in Seq(S)
  OBVIOUS
<1>2. Len(s) = 2 /\ Len(t) = 2 /\ Len(u) = 4
  OBVIOUS
<1>3. \A i \in 1..4 : u[i] = IF i <= 2 THEN s[i] ELSE t[i - 2]
  OBVIOUS
<1> HIDE DEF S, s, t, u
<1>4. /\ Len(u) = Len(s) + Len(t)
      /\ \A i \in 1..Len(u) : u[i] = IF i <= Len(s) THEN s[i] ELSE t[i - Len(s)]
  BY <1>2, <1>3
<1>5. s \o t = u
  BY <1>1, <1>4, ConcatIs
<1> QED
  BY <1>5 DEF s, t, u

(* ... three and two.                                                     *)
LEMMA Concat32 == \A a, b, c, d, e : <<a, b, c>> \o <<d, e>> = <<a, b, c, d, e>>
<1> TAKE a, b, c, d, e
<1> DEFINE S == {a, b, c, d, e}
           s == <<a, b, c>>
           t == <<d, e>>
           u == <<a, b, c, d, e>>
<1>1. s \in Seq(S) /\ t \in Seq(S) /\ u \in Seq(S)
  OBVIOUS
<1>2. Len(s) = 3 /\ Len(t) = 2 /\ Len(u) = 5
  OBVIOUS
<1>3. \A i \in 1..5 : u[i] = IF i <= 3 THEN s[i] ELSE t[i - 3]
  OBVIOUS
<1> HIDE DEF S, s, t, u
<1>4. /\ Len(u) = Len(s) + Len(t)
      /\ \A i \in 1..Len(u) : u[i] = IF i <= Len(s) THEN s[i] ELSE t[i - Len(s)]
  BY <1>2, <1>3
<1>5. s \o t = u
  BY <1>1, <1>4, ConcatIs
<1> QED
  BY <1>5 DEF s, t, u

(* ... four and one.                                                      *)
LEMMA Concat41 == \A a, b, c, d, e : <<a, b, c, d>> \o <<e>> = <<a, b, c, d, e>>
<1> TAKE a, b, c, d, e
<1> DEFINE S == {a, b, c, d, e}
           s == <<a, b, c, d>>
           t == <<e>>
           u == <<a, b, c, d, e>>
<1>1. s \in Seq(S) /\ t \in Seq(S) /\ u \in Seq(S)
  OBVIOUS
<1>2. Len(s) = 4 /\ Len(t) = 1 /\ Len(u) = 5
  OBVIOUS
<1>3. \A i \in 1..5 : u[i] = IF i <= 4 THEN s[i] ELSE t[i - 4]
  OBVIOUS
<1> HIDE DEF S, s, t, u
<1>4. /\ Len(u) = Len(s) + Len(t)
      /\ \A i \in 1..Len(u) : u[i] = IF i <= Len(s) THEN s[i] ELSE t[i - Len(s)]
  BY <1>2, <1>3
<1>5. s \o t = u
  BY <1>1, <1>4, ConcatIs
<1> QED
  BY <1>5 DEF s, t, u

(* ... five and one.                                                      *)
LEMMA Concat51 == \A a, b, c, d, e, f : <<a, b, c, d, e>> \o <<f>> = <<a, b, c, d, e, f>>
<1> TAKE a, b, c, d, e, f
<1> DEFINE S == {a, b, c, d, e, f}
           s == <<a, b, c, d, e>>
           t == <<f>>
           u == <<a, b, c, d, e, f>>
<1>1. s \in Seq(S) /\ t \in Seq(S) /\ u \in Seq(S)
  OBVIOUS
<1>2. Len(s) = 5 /\ Len(t) = 1 /\ Len(u) = 6
  OBVIOUS
<1>3. \A i \in 1..6 : u[i] = IF i <= 5 THEN s[i] ELSE t[i - 5]
  OBVIOUS
<1> HIDE DEF S, s, t, u
<1>4. /\ Len(u) = Len(s) + Len(t)
      /\ \A i \in 1..Len(u) : u[i] = IF i <= Len(s) THEN s[i] ELSE t[i - Len(s)]
  BY <1>2, <1>3
<1>5. s \o t = u
  BY <1>1, <1>4, ConcatIs
<1> QED
  BY <1>5 DEF s, t, u

(* ... five and two.                                                      *)
LEMMA Concat52 == \A a, b, c, d, e, f, g : <<a, b, c, d, e>> \o <<f, g>> = <<a, b, c, d, e, f, g>>
<1> TAKE a, b, c, d, e, f, g
<1> DEFINE S == {a, b, c, d, e, f, g}
           s == <<a, b, c, d, e>>
           t == <<f, g>>
           u == <<a, b, c, d, e, f, g>>
<1>1. s \in Seq(S) /\ t \in Seq(S) /\ u \in Seq(S)
  OBVIOUS
<1>2. Len(s) = 5 /\ Len(t) = 2 /\ Len(u) = 7
  OBVIOUS
<1>3. \A i \in 1..7 : u[i] = IF i <= 5 THEN s[i] ELSE t[i - 5]
  OBVIOUS
<1> HIDE DEF S, s, t, u
<1>4. /\ Len(u) = Len(s) + Len(t)
      /\ \A i \in 1..Len(u) : u[i] = IF i <= Len(s) THEN s[i] ELSE t[i - Len(s)]
  BY <1>2, <1>3
<1>5. s \o t = u
  BY <1>1, <1>4, ConcatIs
<1> QED
  BY <1>5 DEF s, t, u

(* ... six and two.                                                       *)
LEMMA Concat62 == \A a, b, c, d, e, f, g, h : <<a, b, c, d, e, f>> \o <<g, h>> = <<a, b, c, d, e, f, g, h>>
<1> TAKE a, b, c, d, e, f, g, h
<1> DEFINE S == {a, b, c, d, e, f, g, h}
           s == <<a, b, c, d, e, f>>
           t == <<g, h>>
           u == <<a, b, c, d, e, f, g, h>>
<1>1. s \in Seq(S) /\ t \in Seq(S) /\ u \in Seq(S)
  OBVIOUS
<1>2. Len(s) = 6 /\ Len(t) = 2 /\ Len(u) = 8
  OBVIOUS
<1>3. \A i \in 1..8 : u[i] = IF i <= 6 THEN s[i] ELSE t[i - 6]
  OBVIOUS
<1> HIDE DEF S, s, t, u
<1>4. /\ Len(u) = Len(s) + Len(t)
      /\ \A i \in 1..Len(u) : u[i] = IF i <= Len(s) THEN s[i] ELSE t[i - Len(s)]
  BY <1>2, <1>3
<1>5. s \o t = u
  BY <1>1, <1>4, ConcatIs
<1> QED
  BY <1>5 DEF s, t, u

(* The calls of the branch for setprogram, spelled out.                    *)
LEMMA HandleCases ==
    ASSUME NEW c
    PROVE  \/ Handle(c) = <<Call("ack", Empty), Call("notify", Empty)>>
           \/ /\ c.prog \in DOMAIN Plan
              /\ Handle(c) = <<Call("load", c.prog), Call("move", Empty), Call("current", Empty),
                               Call("current", c.prog), Call("delete", Empty),
                               Call("ack", Empty), Call("notify", Empty)>>
           \/ /\ cur # "OFF"
              /\ Handle(c) = <<Call("move", Empty), Call("current", Empty), Call("current", "OFF"),
                               Call("swapped", Empty), Call("swapped", Contents(cur)), Call("load", "OFF"),
                               Call("ack", Empty), Call("notify", Empty)>>
           \/ /\ cur = "OFF"
              /\ Handle(c) = <<Call("move", Empty), Call("current", Empty), Call("current", Resumed),
                               Call("delete", Empty), Call("load", Resumed),
                               Call("ack", Empty), Call("notify", Empty)>>
<1> DEFINE p == c.prog
           mv == Call("move", Empty)
           c0 == Call("current", Empty)
           de == Call("delete", Empty)
           ak == Call("ack", Empty)
           no == Call("notify", Empty)
<1> HIDE DEF mv, c0, de, ak, no
<1>1. SetByName(p) = <<Call("load", p), mv, c0, Call("current", p), de>>
  <2>1. <<Call("load", p), mv>> \o <<c0, Call("current", p)>> = <<Call("load", p), mv, c0, Call("current", p)>>
    BY Concat22, Zenon
  <2>2. <<Call("load", p), mv, c0, Call("current", p)>> \o <<de>>
        = <<Call("load", p), mv, c0, Call("current", p), de>>
    BY Concat41, Zenon
  <2> QED
    BY <2>1, <2>2 DEF SetByName, SaveFile, mv, c0, de
<1>2. SwitchToOff = <<mv, c0, Call("current", "OFF"), Call("swapped", Empty), Call("swapped", Contents(cur)),
                      Call("load", "OFF")>>
  <2>1. <<mv>> \o <<c0, Call("current", "OFF")>> = <<mv, c0, Call("current", "OFF")>>
    BY Concat12, Zenon
  <2>2. <<mv, c0, Call("current", "OFF")>> \o <<Call("swapped", Empty), Call("swapped", Contents(cur))>>
        = <<mv, c0, Call("current", "OFF"), Call("swapped", Empty), Call("swapped", Contents(cur))>>
    BY Concat32, Zenon
  <2>3. <<mv, c0, Call("current", "OFF"), Call("swapped", Empty), Call("swapped", Contents(cur))>>
        \o <<Call("load", "OFF")>>
        = <<mv, c0, Call("current", "OFF"), Call("swapped", Empty), Call("swapped", Contents(cur)),
            Call("load", "OFF")>>
    BY Concat51, Zenon
  <2> QED
    BY <2>1, <2>2, <2>3 DEF SwitchToOff, SaveFile, mv, c0
<1>3. Resume = <<mv, c0, Call("current", Resumed), de, Call("load", Resumed)>>
  <2>1. <<mv>> \o <<c0, Call("current", Resumed)>> = <<mv, c0, Call("current", Resumed)>>
    BY Concat12, Zenon
  <2>2. <<mv, c0, Call("current", Resumed)>> \o <<de, Call("load", Resumed)>>
        = <<mv, c0, Call("current", Resumed), de, Call("load", Resumed)>>
    BY Concat32, Zenon
  <2> QED
    BY <2>1, <2>2 DEF Resume, SaveFile, mv, c0, de
<1>4. Handle(c) = SetProgram(p) \o <<ak, no>>
  BY DEF Handle, ak, no
<1>5. \/ SetProgram(p) = SwitchToOff /\ cur # "OFF"
      \/ SetProgram(p) = Resume /\ cur = "OFF"
      \/ SetProgram(p) = SetByName(p) /\ p \in DOMAIN Plan
      \/ SetProgram(p) = <<>>
  BY DEF SetProgram
<1>6. <<>> \o <<ak, no>> = <<ak, no>>
  BY Concat02, Zenon
<1>7. <<Call("load", p), mv, c0, Call("current", p), de>> \o <<ak, no>>
      = <<Call("load", p), mv, c0, Call("current", p), de, ak, no>>
  BY Concat52
<1>8. <<mv, c0, Call("current", "OFF"), Call("swapped", Empty), Call("swapped", Contents(cur)), Call("load", "OFF")>>
      \o <<ak, no>>
      = <<mv, c0, Call("current", "OFF"), Call("swapped", Empty), Call("swapped", Contents(cur)), Call("load", "OFF"),
          ak, no>>
  <2> DEFINE co == Call("current", "OFF")
             s0 == Call("swapped", Empty)
             sc == Call("swapped", Contents(cur))
             lo == Call("load", "OFF")
  <2> HIDE DEF co, s0, sc, lo
  <2>1. <<mv, c0, co, s0, sc, lo>> \o <<ak, no>> = <<mv, c0, co, s0, sc, lo, ak, no>>
    BY Concat62
  <2> QED
    BY <2>1 DEF co, s0, sc, lo
<1>9. <<mv, c0, Call("current", Resumed), de, Call("load", Resumed)>> \o <<ak, no>>
      = <<mv, c0, Call("current", Resumed), de, Call("load", Resumed), ak, no>>
  BY Concat52
<1> QED
  BY <1>9, <1>8, <1>7, <1>6, <1>5, <1>4, <1>3, <1>2, <1>1 DEF mv, c0, de, ak, no

(* What a call of a handler does.                                          *)
LEMMA StepEffect ==
    ASSUME ProgramStep, NEW o, NEW p, Head(todo) = Call(o, p)
    PROVE  /\ todo' = Tail(todo)
           /\ unsaved # {} => unsaved' # {}
           /\ o = "move" => cur' \in {cur, Missing} /\ (unsaved' # {} \/ cur' = Missing)
           /\ o = "current" => cur' \in {cur, p} /\ (unsaved' # {} \/ cur' = p)
           /\ o \notin {"move", "current"} => cur' = cur
           /\ o = "delete" => swp' \in {swp, Empty} /\ (unsaved' # {} \/ swp' = Empty)
           /\ o = "swapped" => swp' \in {swp, p} /\ (unsaved' # {} \/ swp' = p)
           /\ o \notin {"delete", "swapped"} => swp' = swp
           /\ o \notin {"move", "current", "delete", "swapped"} => unsaved' = unsaved
           /\ current' = IF o = "load" THEN p ELSE current
           /\ acked' = IF o = "ack" THEN current ELSE acked
           /\ lastOn' = IF o = "ack" /\ current # "OFF" THEN current ELSE lastOn
           /\ IF o = "notify" THEN ProgramNotify(TRUE) ELSE UNCHANGED <<al, previous, missed, trQ>>
           /\ UNCHANGED <<conf, tod, view, nrestarts>>
BY CallFields DEF ProgramStep, clock, timed, counters

(* The call that moves CURRENTP away: it does, or the failure is noted.    *)
LEMMA MoveEffect ==
    ASSUME ProgramStep, NEW p, Head(todo) = Call("move", p)
    PROVE  /\ cur' \in {cur, Missing} /\ (unsaved' # {} \/ cur' = Missing)
           /\ swp' = swp
           /\ todo' = Tail(todo)
           /\ unsaved # {} => unsaved' # {}
           /\ current' = current /\ acked' = acked /\ lastOn' = lastOn /\ nrestarts' = nrestarts
           /\ UNCHANGED <<al, previous, missed, trQ>>
<1>1. Head(todo).op = "move" /\ Head(todo).prog = p
  BY CallFields
<1> QED
  BY <1>1 DEF ProgramStep, counters

(* ... the one that writes CURRENTP ...                                    *)
LEMMA CurrentEffect ==
    ASSUME ProgramStep, NEW p, Head(todo) = Call("current", p)
    PROVE  /\ cur' \in {cur, p} /\ (unsaved' # {} \/ cur' = p)
           /\ swp' = swp
           /\ todo' = Tail(todo)
           /\ unsaved # {} => unsaved' # {}
           /\ current' = current /\ acked' = acked /\ lastOn' = lastOn /\ nrestarts' = nrestarts
           /\ UNCHANGED <<al, previous, missed, trQ>>
<1>1. Head(todo).op = "current" /\ Head(todo).prog = p
  BY CallFields
<1> QED
  BY <1>1 DEF ProgramStep, counters

(* ... the one that deletes SWAPPEDOUT ...                                 *)
LEMMA DeleteEffect ==
    ASSUME ProgramStep, NEW p, Head(todo) = Call("delete", p)
    PROVE  /\ swp' \in {swp, Empty} /\ (unsaved' # {} \/ swp' = Empty)
           /\ cur' = cur
           /\ todo' = Tail(todo)
           /\ unsaved # {} => unsaved' # {}
           /\ current' = current /\ acked' = acked /\ lastOn' = lastOn /\ nrestarts' = nrestarts
           /\ UNCHANGED <<al, previous, missed, trQ>>
<1>1. Head(todo).op = "delete" /\ Head(todo).prog = p
  BY CallFields
<1> QED
  BY <1>1 DEF ProgramStep, counters

(* ... and the one that writes it.                                         *)
LEMMA SwappedEffect ==
    ASSUME ProgramStep, NEW p, Head(todo) = Call("swapped", p)
    PROVE  /\ swp' \in {swp, p} /\ (unsaved' # {} \/ swp' = p)
           /\ cur' = cur
           /\ todo' = Tail(todo)
           /\ unsaved # {} => unsaved' # {}
           /\ current' = current /\ acked' = acked /\ lastOn' = lastOn /\ nrestarts' = nrestarts
           /\ UNCHANGED <<al, previous, missed, trQ>>
<1>1. Head(todo).op = "swapped" /\ Head(todo).prog = p
  BY CallFields
<1> QED
  BY <1>1 DEF ProgramStep, counters

(* A call of SetByName takes the handler from one line of Naming to the   *)
(* next, or to the answer.                                                 *)
LEMMA NamingStep ==
    ASSUME IInv, ProgramStep, NEW p \in DOMAIN Plan, Naming(p)
    PROVE  /\ PhaseInv' /\ FreshInv' /\ AckInv' /\ FilesOK'
           /\ todo' # <<>> /\ UNCHANGED <<al, previous, missed, trQ>>
<1> {p, Empty, "OFF"} \subseteq Names
  BY ManagerAssumption DEF ManagerAssumption, Names, Missing, Empty
<1>1. acked # NoAck => todo \in {<<>>, <<Call("notify", Empty)>>}
  BY DEF IInv, AckInv, Idle
<1>2. CASE todo = <<Call("load", p), Call("move", Empty), Call("current", Empty),
                    Call("current", p), Call("delete", Empty), Call("ack", Empty),
                    Call("notify", Empty)>>
  <2>1. /\ Head(todo) = Call("load", p)
        /\ Tail(todo) = <<Call("move", Empty), Call("current", Empty), Call("current", p),
                          Call("delete", Empty), Call("ack", Empty), Call("notify", Empty)>>
    BY <1>2
  <2>2. /\ todo' = <<Call("move", Empty), Call("current", Empty), Call("current", p),
                      Call("delete", Empty), Call("ack", Empty), Call("notify", Empty)>>
        /\ cur' = cur
        /\ swp' = swp
        /\ current' = p /\ (unsaved # {} => unsaved' # {})
        /\ acked' = acked /\ lastOn' = lastOn /\ nrestarts' = nrestarts
        /\ UNCHANGED <<al, previous, missed, trQ>>
    BY <2>1, StepEffect
  <2>3. acked' = NoAck
    BY <1>1, <2>2, <1>2
  <2>4. Naming(p)'
    BY <2>2, <1>2 DEF Naming
  <2>5. FreshInv' /\ FilesOK'
    BY <2>2 DEF IInv, FreshInv, Good, FilesOK, TypeOK
  <2> QED
    BY <2>5, <2>4, <2>3, <2>2 DEF PhaseInv, AckInv
<1>3. CASE todo = <<Call("move", Empty), Call("current", Empty), Call("current", p),
                    Call("delete", Empty), Call("ack", Empty), Call("notify", Empty)>>
           /\ current = p
  <2>1. /\ Head(todo) = Call("move", Empty)
        /\ Tail(todo) = <<Call("current", Empty), Call("current", p), Call("delete", Empty),
                          Call("ack", Empty), Call("notify", Empty)>>
    BY <1>3
  <2>2. /\ todo' = <<Call("current", Empty), Call("current", p), Call("delete", Empty),
                      Call("ack", Empty), Call("notify", Empty)>>
        /\ cur' \in {cur, Missing} /\ (unsaved' # {} \/ cur' = Missing)
        /\ swp' = swp
        /\ current' = current /\ (unsaved # {} => unsaved' # {})
        /\ acked' = acked /\ lastOn' = lastOn /\ nrestarts' = nrestarts
        /\ UNCHANGED <<al, previous, missed, trQ>>
    BY <2>1, MoveEffect
  <2>3. acked' = NoAck
    BY <1>1, <2>2, <1>3
  <2>4. Naming(p)'
    BY <2>2, <1>3 DEF Naming
  <2>5. FreshInv' /\ FilesOK'
    BY <2>2 DEF IInv, FreshInv, Good, FilesOK, TypeOK
  <2> QED
    BY <2>5, <2>4, <2>3, <2>2 DEF PhaseInv, AckInv
<1>4. CASE todo = <<Call("current", Empty), Call("current", p), Call("delete", Empty),
                    Call("ack", Empty), Call("notify", Empty)>>
           /\ current = p
  <2>1. /\ Head(todo) = Call("current", Empty)
        /\ Tail(todo) = <<Call("current", p), Call("delete", Empty), Call("ack", Empty),
                          Call("notify", Empty)>>
    BY <1>4
  <2>2. /\ todo' = <<Call("current", p), Call("delete", Empty), Call("ack", Empty),
                      Call("notify", Empty)>>
        /\ cur' \in {cur, Empty} /\ (unsaved' # {} \/ cur' = Empty)
        /\ swp' = swp
        /\ current' = current /\ (unsaved # {} => unsaved' # {})
        /\ acked' = acked /\ lastOn' = lastOn /\ nrestarts' = nrestarts
        /\ UNCHANGED <<al, previous, missed, trQ>>
    BY <2>1, CurrentEffect
  <2>3. acked' = NoAck
    BY <1>1, <2>2, <1>4
  <2>4. Naming(p)'
    BY <2>2, <1>4 DEF Naming
  <2>5. FreshInv' /\ FilesOK'
    BY <2>2 DEF IInv, FreshInv, Good, FilesOK, TypeOK
  <2> QED
    BY <2>5, <2>4, <2>3, <2>2 DEF PhaseInv, AckInv
<1>5. CASE todo = <<Call("current", p), Call("delete", Empty), Call("ack", Empty),
                    Call("notify", Empty)>>
           /\ current = p
  <2>1. /\ Head(todo) = Call("current", p)
        /\ Tail(todo) = <<Call("delete", Empty), Call("ack", Empty), Call("notify", Empty)>>
    BY <1>5
  <2>2. /\ todo' = <<Call("delete", Empty), Call("ack", Empty), Call("notify", Empty)>>
        /\ cur' \in {cur, p} /\ (unsaved' # {} \/ cur' = p)
        /\ swp' = swp
        /\ current' = current /\ (unsaved # {} => unsaved' # {})
        /\ acked' = acked /\ lastOn' = lastOn /\ nrestarts' = nrestarts
        /\ UNCHANGED <<al, previous, missed, trQ>>
    BY <2>1, CurrentEffect
  <2>3. acked' = NoAck
    BY <1>1, <2>2, <1>5
  <2>4. Naming(p)'
    BY <2>2, <1>5 DEF Naming
  <2>5. FreshInv' /\ FilesOK'
    BY <2>2 DEF IInv, FreshInv, Good, FilesOK, TypeOK
  <2> QED
    BY <2>5, <2>4, <2>3, <2>2 DEF PhaseInv, AckInv
<1>6. CASE todo = <<Call("delete", Empty), Call("ack", Empty), Call("notify", Empty)>>
           /\ current = p /\ (unsaved # {} \/ cur = p)
  <2>1. /\ Head(todo) = Call("delete", Empty)
        /\ Tail(todo) = <<Call("ack", Empty), Call("notify", Empty)>>
    BY <1>6
  <2>2. /\ todo' = <<Call("ack", Empty), Call("notify", Empty)>>
        /\ cur' = cur
        /\ swp' \in {swp, Empty} /\ (unsaved' # {} \/ swp' = Empty)
        /\ current' = current /\ (unsaved # {} => unsaved' # {})
        /\ acked' = acked /\ lastOn' = lastOn /\ nrestarts' = nrestarts
        /\ UNCHANGED <<al, previous, missed, trQ>>
    BY <2>1, DeleteEffect
  <2>3. acked' = NoAck
    BY <1>1, <2>2, <1>6
  <2>4. Answering'
    BY <2>2, <1>6 DEF Naming, Answering, Good
  <2>5. FreshInv' /\ FilesOK'
    BY <2>2 DEF IInv, FreshInv, Good, FilesOK, TypeOK
  <2> QED
    BY <2>5, <2>4, <2>3, <2>2 DEF PhaseInv, AckInv
<1> QED
  BY <1>2, <1>3, <1>4, <1>5, <1>6 DEF Naming

(* The same of SwitchToOff ...                                             *)
LEMMA AsideStep ==
    ASSUME IInv, ProgramStep, NEW x \in Names, PuttingAside(x)
    PROVE  /\ PhaseInv' /\ FreshInv' /\ AckInv' /\ FilesOK'
           /\ todo' # <<>> /\ UNCHANGED <<al, previous, missed, trQ>>
<1> {x, Empty, "OFF"} \subseteq Names
  BY ManagerAssumption DEF ManagerAssumption, Names, Missing, Empty
<1>1. acked # NoAck => todo \in {<<>>, <<Call("notify", Empty)>>}
  BY DEF IInv, AckInv, Idle
<1>2. CASE todo = <<Call("move", Empty), Call("current", Empty), Call("current", "OFF"),
                    Call("swapped", Empty), Call("swapped", x), Call("load", "OFF"),
                    Call("ack", Empty), Call("notify", Empty)>>
  <2>1. /\ Head(todo) = Call("move", Empty)
        /\ Tail(todo) = <<Call("current", Empty), Call("current", "OFF"),
                          Call("swapped", Empty), Call("swapped", x), Call("load", "OFF"),
                          Call("ack", Empty), Call("notify", Empty)>>
    BY <1>2
  <2>2. /\ todo' = <<Call("current", Empty), Call("current", "OFF"), Call("swapped", Empty),
                      Call("swapped", x), Call("load", "OFF"), Call("ack", Empty),
                      Call("notify", Empty)>>
        /\ cur' \in {cur, Missing} /\ (unsaved' # {} \/ cur' = Missing)
        /\ swp' = swp
        /\ current' = current /\ (unsaved # {} => unsaved' # {})
        /\ acked' = acked /\ lastOn' = lastOn /\ nrestarts' = nrestarts
        /\ UNCHANGED <<al, previous, missed, trQ>>
    BY <2>1, MoveEffect
  <2>3. acked' = NoAck
    BY <1>1, <2>2, <1>2
  <2>4. PuttingAside(x)'
    BY <2>2, <1>2 DEF PuttingAside
  <2>5. FreshInv' /\ FilesOK'
    BY <2>2 DEF IInv, FreshInv, Good, FilesOK, TypeOK, PuttingAside
  <2> QED
    BY <2>5, <2>4, <2>3, <2>2 DEF PhaseInv, AckInv
<1>3. CASE todo = <<Call("current", Empty), Call("current", "OFF"), Call("swapped", Empty),
                    Call("swapped", x), Call("load", "OFF"), Call("ack", Empty),
                    Call("notify", Empty)>>
  <2>1. /\ Head(todo) = Call("current", Empty)
        /\ Tail(todo) = <<Call("current", "OFF"), Call("swapped", Empty), Call("swapped", x),
                          Call("load", "OFF"), Call("ack", Empty), Call("notify", Empty)>>
    BY <1>3
  <2>2. /\ todo' = <<Call("current", "OFF"), Call("swapped", Empty), Call("swapped", x),
                      Call("load", "OFF"), Call("ack", Empty), Call("notify", Empty)>>
        /\ cur' \in {cur, Empty} /\ (unsaved' # {} \/ cur' = Empty)
        /\ swp' = swp
        /\ current' = current /\ (unsaved # {} => unsaved' # {})
        /\ acked' = acked /\ lastOn' = lastOn /\ nrestarts' = nrestarts
        /\ UNCHANGED <<al, previous, missed, trQ>>
    BY <2>1, CurrentEffect
  <2>3. acked' = NoAck
    BY <1>1, <2>2, <1>3
  <2>4. PuttingAside(x)'
    BY <2>2, <1>3 DEF PuttingAside
  <2>5. FreshInv' /\ FilesOK'
    BY <2>2 DEF IInv, FreshInv, Good, FilesOK, TypeOK, PuttingAside
  <2> QED
    BY <2>5, <2>4, <2>3, <2>2 DEF PhaseInv, AckInv
<1>4. CASE todo = <<Call("current", "OFF"), Call("swapped", Empty), Call("swapped", x),
                    Call("load", "OFF"), Call("ack", Empty), Call("notify", Empty)>>
  <2>1. /\ Head(todo) = Call("current", "OFF")
        /\ Tail(todo) = <<Call("swapped", Empty), Call("swapped", x), Call("load", "OFF"),
                          Call("ack", Empty), Call("notify", Empty)>>
    BY <1>4
  <2>2. /\ todo' = <<Call("swapped", Empty), Call("swapped", x), Call("load", "OFF"),
                      Call("ack", Empty), Call("notify", Empty)>>
        /\ cur' \in {cur, "OFF"} /\ (unsaved' # {} \/ cur' = "OFF")
        /\ swp' = swp
        /\ current' = current /\ (unsaved # {} => unsaved' # {})
        /\ acked' = acked /\ lastOn' = lastOn /\ nrestarts' = nrestarts
        /\ UNCHANGED <<al, previous, missed, trQ>>
    BY <2>1, CurrentEffect
  <2>3. acked' = NoAck
    BY <1>1, <2>2, <1>4
  <2>4. PuttingAside(x)'
    BY <2>2, <1>4 DEF PuttingAside
  <2>5. FreshInv' /\ FilesOK'
    BY <2>2 DEF IInv, FreshInv, Good, FilesOK, TypeOK, PuttingAside
  <2> QED
    BY <2>5, <2>4, <2>3, <2>2 DEF PhaseInv, AckInv
<1>5. CASE todo = <<Call("swapped", Empty), Call("swapped", x), Call("load", "OFF"),
                    Call("ack", Empty), Call("notify", Empty)>>
           /\ (unsaved # {} \/ cur = "OFF")
  <2>1. /\ Head(todo) = Call("swapped", Empty)
        /\ Tail(todo) = <<Call("swapped", x), Call("load", "OFF"), Call("ack", Empty),
                          Call("notify", Empty)>>
    BY <1>5
  <2>2. /\ todo' = <<Call("swapped", x), Call("load", "OFF"), Call("ack", Empty),
                      Call("notify", Empty)>>
        /\ cur' = cur
        /\ swp' \in {swp, Empty} /\ (unsaved' # {} \/ swp' = Empty)
        /\ current' = current /\ (unsaved # {} => unsaved' # {})
        /\ acked' = acked /\ lastOn' = lastOn /\ nrestarts' = nrestarts
        /\ UNCHANGED <<al, previous, missed, trQ>>
    BY <2>1, SwappedEffect
  <2>3. acked' = NoAck
    BY <1>1, <2>2, <1>5
  <2>4. PuttingAside(x)'
    BY <2>2, <1>5 DEF PuttingAside
  <2>5. FreshInv' /\ FilesOK'
    BY <2>2 DEF IInv, FreshInv, Good, FilesOK, TypeOK, PuttingAside
  <2> QED
    BY <2>5, <2>4, <2>3, <2>2 DEF PhaseInv, AckInv
<1>6. CASE todo = <<Call("swapped", x), Call("load", "OFF"), Call("ack", Empty),
                    Call("notify", Empty)>>
           /\ (unsaved # {} \/ cur = "OFF")
  <2>1. /\ Head(todo) = Call("swapped", x)
        /\ Tail(todo) = <<Call("load", "OFF"), Call("ack", Empty), Call("notify", Empty)>>
    BY <1>6
  <2>2. /\ todo' = <<Call("load", "OFF"), Call("ack", Empty), Call("notify", Empty)>>
        /\ cur' = cur
        /\ swp' \in {swp, x} /\ (unsaved' # {} \/ swp' = x)
        /\ current' = current /\ (unsaved # {} => unsaved' # {})
        /\ acked' = acked /\ lastOn' = lastOn /\ nrestarts' = nrestarts
        /\ UNCHANGED <<al, previous, missed, trQ>>
    BY <2>1, SwappedEffect
  <2>3. acked' = NoAck
    BY <1>1, <2>2, <1>6
  <2>4. PuttingAside(x)'
    BY <2>2, <1>6 DEF PuttingAside
  <2>5. FreshInv' /\ FilesOK'
    BY <2>2 DEF IInv, FreshInv, Good, FilesOK, TypeOK, PuttingAside
  <2> QED
    BY <2>5, <2>4, <2>3, <2>2 DEF PhaseInv, AckInv
<1>7. CASE todo = <<Call("load", "OFF"), Call("ack", Empty), Call("notify", Empty)>>
           /\ (unsaved # {} \/ (cur = "OFF" /\ swp = x))
  <2>1. /\ Head(todo) = Call("load", "OFF")
        /\ Tail(todo) = <<Call("ack", Empty), Call("notify", Empty)>>
    BY <1>7
  <2>2. /\ todo' = <<Call("ack", Empty), Call("notify", Empty)>>
        /\ cur' = cur
        /\ swp' = swp
        /\ current' = "OFF" /\ (unsaved # {} => unsaved' # {})
        /\ acked' = acked /\ lastOn' = lastOn /\ nrestarts' = nrestarts
        /\ UNCHANGED <<al, previous, missed, trQ>>
    BY <2>1, StepEffect
  <2>3. acked' = NoAck
    BY <1>1, <2>2, <1>7
  <2>4. Answering'
    BY <2>2, <1>7 DEF PuttingAside, Answering, Good
  <2>5. FreshInv' /\ FilesOK'
    BY <2>2 DEF IInv, FreshInv, Good, FilesOK, TypeOK, PuttingAside
  <2> QED
    BY <2>5, <2>4, <2>3, <2>2 DEF PhaseInv, AckInv
<1> QED
  BY <1>2, <1>3, <1>4, <1>5, <1>6, <1>7 DEF PuttingAside

(* ... and of Resume.                                                      *)
LEMMA BackStep ==
    ASSUME IInv, ProgramStep, NEW r \in Names \ {"OFF"}, TakingBack(r)
    PROVE  /\ PhaseInv' /\ FreshInv' /\ AckInv' /\ FilesOK'
           /\ todo' # <<>> /\ UNCHANGED <<al, previous, missed, trQ>>
<1> {r, Empty, "OFF"} \subseteq Names
  BY ManagerAssumption DEF ManagerAssumption, Names, Missing, Empty
<1>1. acked # NoAck => todo \in {<<>>, <<Call("notify", Empty)>>}
  BY DEF IInv, AckInv, Idle
<1>2. CASE todo = <<Call("move", Empty), Call("current", Empty), Call("current", r),
                    Call("delete", Empty), Call("load", r), Call("ack", Empty),
                    Call("notify", Empty)>>
  <2>1. /\ Head(todo) = Call("move", Empty)
        /\ Tail(todo) = <<Call("current", Empty), Call("current", r), Call("delete", Empty),
                          Call("load", r), Call("ack", Empty), Call("notify", Empty)>>
    BY <1>2
  <2>2. /\ todo' = <<Call("current", Empty), Call("current", r), Call("delete", Empty),
                      Call("load", r), Call("ack", Empty), Call("notify", Empty)>>
        /\ cur' \in {cur, Missing} /\ (unsaved' # {} \/ cur' = Missing)
        /\ swp' = swp
        /\ current' = current /\ (unsaved # {} => unsaved' # {})
        /\ acked' = acked /\ lastOn' = lastOn /\ nrestarts' = nrestarts
        /\ UNCHANGED <<al, previous, missed, trQ>>
    BY <2>1, MoveEffect
  <2>3. acked' = NoAck
    BY <1>1, <2>2, <1>2
  <2>4. TakingBack(r)'
    BY <2>2, <1>2 DEF TakingBack
  <2>5. FreshInv' /\ FilesOK'
    BY <2>2 DEF IInv, FreshInv, Good, FilesOK, TypeOK
  <2> QED
    BY <2>5, <2>4, <2>3, <2>2 DEF PhaseInv, AckInv
<1>3. CASE todo = <<Call("current", Empty), Call("current", r), Call("delete", Empty),
                    Call("load", r), Call("ack", Empty), Call("notify", Empty)>>
  <2>1. /\ Head(todo) = Call("current", Empty)
        /\ Tail(todo) = <<Call("current", r), Call("delete", Empty), Call("load", r),
                          Call("ack", Empty), Call("notify", Empty)>>
    BY <1>3
  <2>2. /\ todo' = <<Call("current", r), Call("delete", Empty), Call("load", r),
                      Call("ack", Empty), Call("notify", Empty)>>
        /\ cur' \in {cur, Empty} /\ (unsaved' # {} \/ cur' = Empty)
        /\ swp' = swp
        /\ current' = current /\ (unsaved # {} => unsaved' # {})
        /\ acked' = acked /\ lastOn' = lastOn /\ nrestarts' = nrestarts
        /\ UNCHANGED <<al, previous, missed, trQ>>
    BY <2>1, CurrentEffect
  <2>3. acked' = NoAck
    BY <1>1, <2>2, <1>3
  <2>4. TakingBack(r)'
    BY <2>2, <1>3 DEF TakingBack
  <2>5. FreshInv' /\ FilesOK'
    BY <2>2 DEF IInv, FreshInv, Good, FilesOK, TypeOK
  <2> QED
    BY <2>5, <2>4, <2>3, <2>2 DEF PhaseInv, AckInv
<1>4. CASE todo = <<Call("current", r), Call("delete", Empty), Call("load", r),
                    Call("ack", Empty), Call("notify", Empty)>>
  <2>1. /\ Head(todo) = Call("current", r)
        /\ Tail(todo) = <<Call("delete", Empty), Call("load", r), Call("ack", Empty),
                          Call("notify", Empty)>>
    BY <1>4
  <2>2. /\ todo' = <<Call("delete", Empty), Call("load", r), Call("ack", Empty),
                      Call("notify", Empty)>>
        /\ cur' \in {cur, r} /\ (unsaved' # {} \/ cur' = r)
        /\ swp' = swp
        /\ current' = current /\ (unsaved # {} => unsaved' # {})
        /\ acked' = acked /\ lastOn' = lastOn /\ nrestarts' = nrestarts
        /\ UNCHANGED <<al, previous, missed, trQ>>
    BY <2>1, CurrentEffect
  <2>3. acked' = NoAck
    BY <1>1, <2>2, <1>4
  <2>4. TakingBack(r)'
    BY <2>2, <1>4 DEF TakingBack
  <2>5. FreshInv' /\ FilesOK'
    BY <2>2 DEF IInv, FreshInv, Good, FilesOK, TypeOK
  <2> QED
    BY <2>5, <2>4, <2>3, <2>2 DEF PhaseInv, AckInv
<1>5. CASE todo = <<Call("delete", Empty), Call("load", r), Call("ack", Empty),
                    Call("notify", Empty)>>
           /\ (unsaved # {} \/ cur = r)
  <2>1. /\ Head(todo) = Call("delete", Empty)
        /\ Tail(todo) = <<Call("load", r), Call("ack", Empty), Call("notify", Empty)>>
    BY <1>5
  <2>2. /\ todo' = <<Call("load", r), Call("ack", Empty), Call("notify", Empty)>>
        /\ cur' = cur
        /\ swp' \in {swp, Empty} /\ (unsaved' # {} \/ swp' = Empty)
        /\ current' = current /\ (unsaved # {} => unsaved' # {})
        /\ acked' = acked /\ lastOn' = lastOn /\ nrestarts' = nrestarts
        /\ UNCHANGED <<al, previous, missed, trQ>>
    BY <2>1, DeleteEffect
  <2>3. acked' = NoAck
    BY <1>1, <2>2, <1>5
  <2>4. TakingBack(r)'
    BY <2>2, <1>5 DEF TakingBack
  <2>5. FreshInv' /\ FilesOK'
    BY <2>2 DEF IInv, FreshInv, Good, FilesOK, TypeOK
  <2> QED
    BY <2>5, <2>4, <2>3, <2>2 DEF PhaseInv, AckInv
<1>6. CASE todo = <<Call("load", r), Call("ack", Empty), Call("notify", Empty)>>
           /\ (unsaved # {} \/ (cur = r /\ swp = Empty))
  <2>1. /\ Head(todo) = Call("load", r)
        /\ Tail(todo) = <<Call("ack", Empty), Call("notify", Empty)>>
    BY <1>6
  <2>2. /\ todo' = <<Call("ack", Empty), Call("notify", Empty)>>
        /\ cur' = cur
        /\ swp' = swp
        /\ current' = r /\ (unsaved # {} => unsaved' # {})
        /\ acked' = acked /\ lastOn' = lastOn /\ nrestarts' = nrestarts
        /\ UNCHANGED <<al, previous, missed, trQ>>
    BY <2>1, StepEffect
  <2>3. acked' = NoAck
    BY <1>1, <2>2, <1>6
  <2>4. Answering'
    BY <2>2, <1>6 DEF TakingBack, Answering, Good
  <2>5. FreshInv' /\ FilesOK'
    BY <2>2 DEF IInv, FreshInv, Good, FilesOK, TypeOK
  <2> QED
    BY <2>5, <2>4, <2>3, <2>2 DEF PhaseInv, AckInv
<1> QED
  BY <1>2, <1>3, <1>4, <1>5, <1>6 DEF TakingBack

(* The answer, and the announcement after it, leave the engine idle.       *)
LEMMA AnswerStep ==
    ASSUME IInv, ProgramStep, Answering
    PROVE  /\ PhaseInv' /\ FreshInv' /\ AckInv' /\ FilesOK'
           /\ todo' # <<>> /\ UNCHANGED <<al, previous, missed, trQ>>
<1>1. Head(todo) = Call("ack", Empty) /\ Tail(todo) = <<Call("notify", Empty)>>
  BY DEF Answering
<1>2. /\ todo' = <<Call("notify", Empty)>>
      /\ cur' = cur /\ swp' = swp /\ current' = current /\ acked' = current /\ unsaved' = unsaved
      /\ lastOn' = IF current # "OFF" THEN current ELSE lastOn
      /\ nrestarts' = nrestarts
      /\ UNCHANGED <<al, previous, missed, trQ>>
  BY <1>1, StepEffect
<1>3. Idle'
  BY <1>2 DEF Answering, Idle, Good
<1>4. FreshInv'
  BY <1>2 DEF IInv, FreshInv, Good, Answering
<1>5. FilesOK'
  BY <1>2 DEF IInv, TypeOK, FilesOK
<1> QED
  BY <1>5, <1>4, <1>3, <1>2 DEF PhaseInv, AckInv

(* The same when the programme is announced.                               *)
LEMMA IdleStep ==
    ASSUME IInv, ProgramStep, Idle
    PROVE  /\ PhaseInv' /\ FreshInv' /\ AckInv' /\ FilesOK'
           /\ ProgramNotify(TRUE) /\ current' = current
<1>1. todo = <<Call("notify", Empty)>>
  BY DEF Idle, ProgramStep
<1>2. Head(todo) = Call("notify", Empty) /\ Tail(todo) = <<>>
  BY <1>1
<1>3. /\ todo' = <<>>
      /\ cur' = cur /\ swp' = swp /\ current' = current /\ acked' = acked /\ unsaved' = unsaved
      /\ lastOn' = lastOn /\ nrestarts' = nrestarts
      /\ ProgramNotify(TRUE)
  BY <1>2, StepEffect
<1>4. Idle'
  BY <1>3 DEF Idle, Good
<1>5. FreshInv' /\ FilesOK' /\ AckInv'
  BY <1>3, <1>4 DEF IInv, FreshInv, Good, TypeOK, FilesOK, AckInv
<1> QED
  BY <1>3, <1>4, <1>5 DEF PhaseInv

(* An announcement queued last is the last one ...                         *)
LEMMA AppendAnnounced ==
    ASSUME NEW q \in Seq(Message), NEW m \in Message, NEW p, NEW l,
           m.op = "prgstatus", m.prog = p, m.list = l
    PROVE  LastAnnounced(Append(q, m), p, l)
<1> DEFINE r == Append(q, m)
<1>1. r \in Seq(Message) /\ Len(r) = Len(q) + 1 /\ r[Len(q) + 1] = m /\ Len(q) \in Nat
  BY AppendProperties, LenProperties
<1> HIDE DEF r
<1>2. LastAnnounced(r, p, l)
  BY <1>1 DEF LastAnnounced
<1> QED
  BY <1>2 DEF r

(* ... and any other message changes nothing.                              *)
LEMMA AppendOther ==
    ASSUME NEW q \in Seq(Message), NEW m \in Message, NEW p, NEW l, m.op # "prgstatus"
    PROVE  /\ LastAnnounced(q, p, l) => LastAnnounced(Append(q, m), p, l)
           /\ NoneAnnounced(q) => NoneAnnounced(Append(q, m))
<1> DEFINE r == Append(q, m)
<1>1. /\ r \in Seq(Message) /\ Len(r) = Len(q) + 1 /\ r[Len(q) + 1] = m /\ Len(q) \in Nat
      /\ \A i \in 1..Len(q) : r[i] = q[i]
  BY AppendProperties, LenProperties
<1> HIDE DEF r
<1>2. /\ LastAnnounced(q, p, l) => LastAnnounced(r, p, l)
      /\ NoneAnnounced(q) => NoneAnnounced(r)
  BY <1>1 DEF LastAnnounced, NoneAnnounced
<1> QED
  BY <1>2 DEF r

(* Taking a message: the last announcement stays, or it is the one taken.  *)
LEMMA TailAnnounced ==
    ASSUME NEW q \in Seq(Message), q # <<>>, NEW p, NEW l
    PROVE  /\ LastAnnounced(q, p, l) =>
                 \/ LastAnnounced(Tail(q), p, l)
                 \/ /\ NoneAnnounced(Tail(q))
                    /\ Head(q).op = "prgstatus" /\ Head(q).prog = p /\ Head(q).list = l
           /\ NoneAnnounced(q) => Head(q).op # "prgstatus" /\ NoneAnnounced(Tail(q))
<1> DEFINE t == Tail(q)
<1>1. /\ t \in Seq(Message) /\ Len(t) = Len(q) - 1 /\ Len(q) \in Nat \ {0} /\ Head(q) = q[1]
      /\ \A i \in 1..Len(q) - 1 : t[i] = q[i + 1]
  BY HeadTailProperties, LenProperties, EmptySeq
<1> HIDE DEF t
<1>2. NoneAnnounced(q) => q[1].op # "prgstatus" /\ NoneAnnounced(t)
  BY <1>1 DEF NoneAnnounced
<1>3. ASSUME LastAnnounced(q, p, l)
      PROVE  \/ LastAnnounced(t, p, l)
             \/ NoneAnnounced(t) /\ q[1].op = "prgstatus" /\ q[1].prog = p /\ q[1].list = l
  <2>1. PICK i \in 1..Len(q) : /\ q[i].op = "prgstatus" /\ q[i].prog = p /\ q[i].list = l
                               /\ \A j \in 1..Len(q) : j > i => q[j].op # "prgstatus"
    BY <1>3 DEF LastAnnounced
  <2>2. CASE i = 1
    BY <1>1, <2>1, <2>2 DEF NoneAnnounced
  <2>3. CASE i # 1
    <3>1. i - 1 \in 1..Len(t) /\ t[i - 1] = q[i]
      BY <1>1, <2>3
    <3>2. \A j \in 1..Len(t) : j > i - 1 => t[j].op # "prgstatus"
      BY <1>1, <2>1
    <3> QED
      BY <2>1, <3>1, <3>2 DEF LastAnnounced
  <2> QED
    BY <2>2, <2>3
<1> QED
  BY <1>1, <1>2, <1>3 DEF t

(* program_notify keeps the rules up to date with what it announced last.  *)
LEMMA NotifyKnows ==
    ASSUME TypeOK, KnowInv, NEW change \in BOOLEAN, ProgramNotify(change), view' = view
    PROVE  /\ KnowInv' /\ al' \in Lists /\ trQ' \in Seq(Message)
           /\ change \/ previous = current => previous' = current
<1> DEFINE list == IF change /\ current = "OFF" THEN {} ELSE Listed(current, tod)
           heard == status = "ON" /\ timedOn
           m == [op |-> "prgstatus", prog |-> current, list |-> list]
<1>1. list \in Lists
  BY DEF TypeOK, FilesOK, Lists
<1>2. CASE Announced(change, list)
  <2>1. /\ al' = list /\ previous' = current /\ missed' = ~heard
        /\ trQ' = IF heard THEN Append(trQ, m) ELSE trQ
    BY <1>2 DEF ProgramNotify
  <2> HIDE DEF list, heard
  <2>2. m \in Message /\ m.op = "prgstatus" /\ m.prog = current /\ m.list = list
    <3>1. current \in Names /\ m.op = "prgstatus" /\ m.prog = current /\ m.list = list
      BY DEF TypeOK, FilesOK
    <3>2. m \in Announcement
      BY <1>1, <3>1 DEF Announcement
    <3> HIDE DEF m
    <3> QED
      BY <3>1, <3>2 DEF Message
  <2> HIDE DEF m
  <2>3. trQ' \in Seq(Message)
    BY <2>1, <2>2, AppendProperties DEF TypeOK
  <2>4. heard => LastAnnounced(trQ', previous', al')
    BY <2>1, <2>2, AppendAnnounced DEF TypeOK
  <2>5. ~missed' => heard
    BY <2>1, Zenon
  <2>6. KnowInv'
    BY <2>4, <2>5, Zenon DEF KnowInv
  <2> QED
    BY <2>6, <2>3, <2>1, <1>1
<1>3. CASE ~Announced(change, list)
  <2>1. UNCHANGED <<al, previous, missed, trQ>>
    BY <1>3 DEF ProgramNotify
  <2>2. KnowInv'
    BY <2>1 DEF KnowInv
  <2>3. change => previous = current
    BY <1>3 DEF Announced
  <2> QED
    BY <2>1, <2>2, <2>3 DEF TypeOK
<1> QED
  BY <1>2, <1>3

(* A step of a handler keeps the invariant.                                *)
LEMMA StepInv == IInv /\ ProgramStep => IInv'
<1> SUFFICES ASSUME IInv, ProgramStep PROVE IInv'
  OBVIOUS
<1>0. UNCHANGED <<conf, tod, view, nrestarts>>
  BY DEF ProgramStep, clock, timed, counters
<1>1. CASE Idle
  <2>1. /\ PhaseInv' /\ FreshInv' /\ AckInv' /\ FilesOK'
        /\ ProgramNotify(TRUE) /\ current' = current
    BY <1>1, IdleStep
  <2>2. KnowInv' /\ al' \in Lists /\ trQ' \in Seq(Message) /\ previous' = current
    BY <1>0, <2>1, NotifyKnows DEF IInv
  <2> QED
    BY <1>0, <2>1, <2>2 DEF IInv, TypeOK, FilesOK, PreviousInv
<1>2. ASSUME ~Idle
      PROVE  /\ PhaseInv' /\ FreshInv' /\ AckInv' /\ FilesOK'
             /\ todo' # <<>> /\ UNCHANGED <<al, previous, missed, trQ>>
  <2>1. CASE Answering
    BY <2>1, AnswerStep
  <2>2. CASE \E p \in DOMAIN Plan : Naming(p)
    BY <2>2, NamingStep
  <2>3. CASE \E x \in Names : PuttingAside(x)
    BY <2>3, AsideStep
  <2>4. CASE \E r \in Names \ {"OFF"} : TakingBack(r)
    BY <2>4, BackStep
  <2> QED
    BY <2>4, <2>3, <2>2, <2>1, <1>2 DEF IInv, PhaseInv
<1>3. CASE ~Idle
  <2>1. KnowInv'
    BY <1>0, <1>2, <1>3 DEF IInv, KnowInv
  <2> QED
    BY <2>1, <1>3, <1>2, <1>0 DEF IInv, TypeOK, FilesOK, PreviousInv
<1> QED
  BY <1>1, <1>3

(* Taking the next command or the next trigger keeps it: the engine is     *)
(* idle then, and the first call of a handler still finds the files so.    *)
LEMMA ReceiveInv == IInv /\ ProgramReceive => IInv'
<1> SUFFICES ASSUME IInv, ProgramReceive PROVE IInv'
  OBVIOUS
<1>0. UNCHANGED <<conf, tod, view, nrestarts, current, cur, swp, lastOn, unsaved>>
  BY DEF ProgramReceive, clock, timed, counters, files
<1>1. Idle
  <2>1. todo = <<>>
    BY DEF ProgramReceive
  <2> QED
    BY <2>1 DEF IInv, PhaseInv, Idle, Answering, Naming, PuttingAside, TakingBack
<1>2. FreshInv' /\ FilesOK'
  BY <1>0 DEF IInv, FreshInv, Good, TypeOK, FilesOK
<1>3. CASE ProgramNotify(FALSE) /\ todo' = todo /\ acked' = acked
  <2>1. previous = current
    BY DEF IInv, PreviousInv, ProgramReceive
  <2>2. KnowInv' /\ al' \in Lists /\ trQ' \in Seq(Message) /\ previous' = current
    BY <1>0, <1>3, <2>1, NotifyKnows DEF IInv
  <2>3. Idle'
    BY <1>0, <1>1, <1>3 DEF Idle, Good
  <2>4. AckInv'
    BY <1>0, <1>3, <2>3 DEF IInv, AckInv
  <2> QED
    BY <2>4, <2>3, <2>2, <1>2, <1>0 DEF IInv, TypeOK, FilesOK, PreviousInv, PhaseInv
<1>4. CASE /\ todo' = Handle(Head(progQ)) /\ acked' = NoAck
           /\ UNCHANGED <<al, previous, missed, trQ>>
  <2> DEFINE c == Head(progQ)
  <2> HIDE DEF c
  <2>1. PhaseInv' /\ todo' # <<>>
    <3>1. CASE todo' = <<Call("ack", Empty), Call("notify", Empty)>>
      <4>1. Answering'
        BY <1>0, <1>1, <3>1 DEF Idle, Answering, Good
      <4> QED
        BY <3>1, <4>1 DEF PhaseInv
    <3>2. CASE /\ c.prog \in DOMAIN Plan
               /\ todo' = <<Call("load", c.prog), Call("move", Empty), Call("current", Empty),
                            Call("current", c.prog), Call("delete", Empty),
                            Call("ack", Empty), Call("notify", Empty)>>
      <4>1. PICK p : p = c.prog
        OBVIOUS
      <4>2. Naming(p)'
        BY <3>2, <4>1 DEF Naming
      <4> QED
        BY <3>2, <4>1, <4>2 DEF PhaseInv
    <3>3. CASE /\ cur # "OFF"
               /\ todo' = <<Call("move", Empty), Call("current", Empty), Call("current", "OFF"),
                            Call("swapped", Empty), Call("swapped", Contents(cur)), Call("load", "OFF"),
                            Call("ack", Empty), Call("notify", Empty)>>
      <4>1. PICK x : x = Contents(cur)
        OBVIOUS
      <4>2. (unsaved' # {} \/ x = lastOn') /\ x \in Names
        BY <4>1, <3>3, <1>1, <1>0 DEF Idle, IInv, TypeOK, FilesOK, Contents, Names, Missing, Empty
      <4>3. PuttingAside(x)'
        BY <3>3, <4>1, <4>2 DEF PuttingAside
      <4> QED
        BY <3>3, <4>2, <4>3 DEF PhaseInv
    <3>4. CASE /\ cur = "OFF"
               /\ todo' = <<Call("move", Empty), Call("current", Empty), Call("current", Resumed),
                            Call("delete", Empty), Call("load", Resumed),
                            Call("ack", Empty), Call("notify", Empty)>>
      <4>1. PICK r : r = Resumed
        OBVIOUS
      <4>2. r \in Names \ {"OFF"}
        BY <4>1, ManagerAssumption DEF ManagerAssumption, Resumed, IInv, TypeOK, FilesOK, Names, Missing
      <4>3. TakingBack(r)'
        BY <3>4, <4>1 DEF TakingBack
      <4> QED
        BY <3>4, <4>2, <4>3 DEF PhaseInv
    <3> QED
      BY <3>4, <3>3, <3>2, <3>1, <1>4, HandleCases DEF c
  <2>2. KnowInv'
    BY <1>0, <1>4 DEF IInv, KnowInv
  <2>3. AckInv' /\ PreviousInv'
    BY <1>4, <2>1 DEF AckInv, PreviousInv
  <2> QED
    BY <2>3, <2>2, <2>1, <1>4, <1>2, <1>0 DEF IInv, TypeOK, FilesOK
<1> QED
  BY <1>3, <1>4 DEF ProgramReceive

(* The other threads leave the engine, its files and the history alone.    *)
Steady == UNCHANGED <<conf, program, files, todo, history, nrestarts>>

(* Such a step keeps the invariant if the rules still know, or will know,  *)
(* what was announced last.                                                *)
LEMMA SteadyInv ==
    ASSUME IInv, Steady, tod' \in Nat, trQ' \in Seq(Message), KnowInv'
    PROVE  IInv'
<1>0. UNCHANGED <<conf, current, previous, al, cur, swp, todo, acked, lastOn, nrestarts, unsaved>>
  BY DEF Steady, program, files, history
<1>1. Good' = Good /\ Idle' = Idle /\ Answering' = Answering
  BY <1>0 DEF Good, Idle, Answering
<1>2. /\ \A p \in DOMAIN Plan : Naming(p) => Naming(p)'
      /\ \A x \in Names : PuttingAside(x) => PuttingAside(x)'
      /\ \A r \in Names \ {"OFF"} : TakingBack(r) => TakingBack(r)'
  BY <1>0 DEF Naming, PuttingAside, TakingBack
<1>3. PhaseInv'
  BY <1>1, <1>2, Zenon DEF IInv, PhaseInv
<1>4. FreshInv' /\ AckInv' /\ PreviousInv'
  BY <1>0, <1>1, Zenon DEF IInv, FreshInv, AckInv, PreviousInv
<1> QED
  BY <1>0, <1>3, <1>4 DEF IInv, TypeOK, FilesOK

(* Appending another message to the queue of the rules, or leaving it.     *)
LEMMA QueueKnows ==
    ASSUME IInv, Steady, view' = view, NEW m \in Message, m.op # "prgstatus",
           trQ' \in {trQ, Append(trQ, m)}
    PROVE  trQ' \in Seq(Message) /\ KnowInv'
<1>0. previous' = previous /\ al' = al /\ missed' = missed /\ trQ \in Seq(Message)
  BY DEF Steady, program, history, IInv, TypeOK
<1>1. trQ' \in Seq(Message)
  BY <1>0, AppendProperties
<1>2. /\ LastAnnounced(trQ, previous, al) => LastAnnounced(trQ', previous, al)
      /\ NoneAnnounced(trQ) => NoneAnnounced(trQ')
  BY <1>0, AppendOther
<1>3. KnowInv'
  BY <1>0, <1>2 DEF IInv, KnowInv
<1> QED
  BY <1>1, <1>3

(* The same of a step that leaves that queue alone.                        *)
LEMMA IdleKnows ==
    ASSUME IInv, Steady, view' = view, trQ' = trQ, tod' \in Nat
    PROVE  IInv'
<1>0. previous' = previous /\ al' = al /\ missed' = missed
  BY DEF Steady, program, history
<1>1. KnowInv'
  BY <1>0 DEF IInv, KnowInv
<1>2. trQ' \in Seq(Message)
  BY DEF IInv, TypeOK
<1> QED
  BY <1>1, <1>2, SteadyInv

(* The thread of the timed rules takes a message.                          *)
LEMMA TimedInv == IInv /\ TimedReceive => IInv'
<1> SUFFICES ASSUME IInv, TimedReceive PROVE IInv'
  OBVIOUS
<1> DEFINE m == Head(trQ)
<1>0. /\ Steady /\ tod' = tod /\ trQ # <<>> /\ trQ' = Tail(trQ)
      /\ view' = IF m.op = "prgstatus"
                 THEN [program |-> m.prog, on |-> m.prog # "OFF" /\ m.list # {}]
                 ELSE view
  BY DEF TimedReceive, Steady, clock, history, counters
<1>1. /\ previous' = previous /\ al' = al /\ missed' = missed
      /\ trQ \in Seq(Message) /\ tod \in Nat
  BY <1>0 DEF Steady, program, history, IInv, TypeOK
<1>2. trQ' \in Seq(Message)
  BY <1>0, <1>1, HeadTailProperties
<1>3. /\ LastAnnounced(trQ, previous, al) =>
            \/ LastAnnounced(trQ', previous, al)
            \/ /\ NoneAnnounced(trQ')
               /\ m.op = "prgstatus" /\ m.prog = previous /\ m.list = al
      /\ NoneAnnounced(trQ) => m.op # "prgstatus" /\ NoneAnnounced(trQ')
  BY <1>0, <1>1, TailAnnounced
<1> HIDE DEF m
<1>4. m.op = "prgstatus" => /\ view'.program = m.prog
                            /\ view'.on = (m.prog # "OFF" /\ m.list # {})
  BY <1>0
<1>5. m.op # "prgstatus" => view' = view
  BY <1>0
<1>6. CASE missed
  BY <1>6, <1>2, <1>1, <1>0, SteadyInv DEF KnowInv
<1>7. CASE LastAnnounced(trQ', previous, al)
  <2>1. KnowInv'
    BY <1>1, <1>7 DEF KnowInv
  <2> QED
    BY <2>1, <1>2, <1>1, <1>0, SteadyInv
<1>8. CASE NoneAnnounced(trQ') /\ m.op = "prgstatus" /\ m.prog = previous /\ m.list = al
  <2>1. KnowInv'
    BY <1>1, <1>4, <1>8, Zenon DEF KnowInv
  <2> QED
    BY <2>1, <1>2, <1>1, <1>0, SteadyInv
<1>9. CASE ~missed /\ NoneAnnounced(trQ') /\ view' = view /\ ~LastAnnounced(trQ, previous, al)
  <2>1. KnowInv'
    BY <1>1, <1>9, Zenon DEF IInv, KnowInv
  <2> QED
    BY <2>1, <1>2, <1>1, <1>0, SteadyInv
<1> QED
  BY <1>9, <1>8, <1>7, <1>6, <1>5, <1>3 DEF IInv, KnowInv

(* The process dies between any two calls and is started again.            *)
LEMMA RestartInv == IInv /\ Restart => IInv'
<1> SUFFICES ASSUME IInv, Restart PROVE IInv'
  OBVIOUS
<1>0. /\ cur' \in {cur, Installed(cur)} /\ current' = Loaded(cur') /\ previous' = Empty /\ al' = {}
      /\ unsaved # {} => unsaved' # {}
      /\ IF cur' = Missing THEN unsaved' # {} ELSE unsaved' = unsaved
      /\ todo' = <<Call("notify", Empty)>> /\ trQ' = <<>>
      /\ view' = [program |-> Empty, on |-> FALSE]
      /\ lastOn' = IF current' = "OFF" THEN lastOn ELSE current'
      /\ nrestarts' = nrestarts + 1 /\ nrestarts \in Nat
      /\ conf' = conf /\ tod' = tod /\ swp' = swp /\ acked' = acked
  BY DEF Restart, clock, IInv, TypeOK
<1>1. cur' \in Names \cup {Missing} /\ current' \in Names
  BY <1>0, ManagerAssumption DEF ManagerAssumption, Installed, Loaded, IInv, TypeOK, FilesOK, Names, Missing
<1>2. Idle'
  <2>1. unsaved' # {} \/ cur' = current'
    BY <1>0 DEF Loaded
  <2> QED
    BY <1>0, <2>1 DEF IInv, FreshInv, Idle, Good
<1>3. FreshInv'
  BY <1>0 DEF FreshInv
<1>4. AckInv'
  <2>1. acked # NoAck => unsaved # {} \/ (cur = acked /\ cur # Missing)
    BY DEF IInv, AckInv, Idle, TypeOK, FilesOK, Names
  <2>2. acked # NoAck => unsaved' # {} \/ acked = current'
    BY <1>0, <2>1 DEF Installed, Loaded
  <2> QED
    BY <1>0, <1>2, <2>2 DEF AckInv
<1>5. KnowInv'
  <2>1. NoneAnnounced(<<>>)
    BY DEF NoneAnnounced
  <2>2. view'.program = Empty /\ view'.on = FALSE
    BY <1>0
  <2> QED
    BY <1>0, <2>1, <2>2 DEF KnowInv
<1>6. PreviousInv'
  BY <1>0 DEF PreviousInv
<1>7. TypeOK'
  BY <1>0, <1>1 DEF IInv, TypeOK, FilesOK, Lists
<1> QED
  BY <1>7, <1>6, <1>5, <1>4, <1>3, <1>2 DEF IInv, PhaseInv

(* The first start, or the one after the agent was left OFF.               *)
LEMMA InitInv == Init => IInv
<1> SUFFICES ASSUME Init PROVE IInv
  OBVIOUS
<1>0. /\ conf \in Configurations /\ cur = Installed(conf.cur) /\ swp = conf.swp
      /\ swp # Missing /\ (swp = Empty \/ conf.cur = "OFF")
  BY ManagerAssumption DEF ManagerAssumption, Init
<1>1. cur \in Names /\ swp \in Names
  BY <1>0, ManagerAssumption DEF ManagerAssumption, Installed, Names, Missing
<1>2. (cur # "OFF" => swp = Empty) /\ current = cur
  BY <1>0, <1>1 DEF Installed, Missing, Init, Loaded, Names
<1>3. Idle /\ FreshInv /\ AckInv /\ PreviousInv
  BY <1>2 DEF Init, Idle, Good, FreshInv, AckInv, PreviousInv
<1>4. KnowInv
  <2>1. NoneAnnounced(<<>>)
    BY DEF NoneAnnounced
  <2> QED
    BY <2>1 DEF Init, KnowInv
<1>5. TypeOK
  BY <1>0, <1>1, <1>2 DEF Init, TypeOK, FilesOK, Lists
<1> QED
  BY <1>3, <1>4, <1>5 DEF IInv, PhaseInv

(* Every step keeps the invariant.                                         *)
LEMMA NextInv == IInv /\ [Next]_vars => IInv'
<1> SUFFICES ASSUME IInv, [Next]_vars PROVE IInv'
  OBVIOUS
<1>0. tod \in Nat /\ conf \in Configurations /\ trQ \in Seq(Message)
  BY DEF IInv, TypeOK
<1>1. ASSUME NEW c \in conf.cmds, Command(c) PROVE IInv'
  <2>1. Steady /\ tod' = tod /\ view' = view
    BY <1>1 DEF Command, Steady, clock, timed
  <2>2. CASE trQ' = trQ
    BY <1>0, <2>1, <2>2, IdleKnows
  <2>3. CASE c.op \in {"rulestatus", "validity"} /\ trQ' = Append(trQ, c)
    <3>1. c \in Message
      BY <1>0 DEF Message
    <3> QED
      BY <3>1, <2>3, <2>1, <1>0, QueueKnows, SteadyInv
  <2> QED
    BY <1>1, <2>2, <2>3 DEF Command
<1>2. ASSUME NEW x \in due, SendTrigger(x) PROVE IInv'
  <2>1. Steady /\ tod' = tod /\ view' = view
    BY <1>2 DEF SendTrigger, Steady, timed, counters
  <2>2. CASE trQ' = trQ
    BY <1>0, <2>1, <2>2, IdleKnows
  <2>3. CASE x = "update" /\ trQ' = Append(trQ, [op |-> x])
    <3> DEFINE m == [op |-> "update"]
    <3>1. m \in Message /\ m.op # "prgstatus"
      BY DEF Message
    <3>2. trQ' = Append(trQ, m)
      BY <2>3
    <3> HIDE DEF m
    <3> QED
      BY <3>2, <3>1, <2>1, <1>0, QueueKnows, SteadyInv
  <2> QED
    BY <1>2, <2>2, <2>3 DEF SendTrigger
<1>3. CASE ActionReceive
  BY <1>0, <1>3, IdleKnows DEF ActionReceive, Steady, clock, timed, counters
<1>4. CASE Tick
  <2>1. tod' \in Nat
    BY <1>0, <1>4, ManagerAssumption DEF Tick, ManagerAssumption
  <2> QED
    BY <1>4, <2>1, IdleKnows DEF Tick, Steady, timed, counters
<1>5. CASE StartTimed
  BY <1>0, <1>5, IdleKnows DEF StartTimed, Steady, clock, counters
<1>6. CASE SwitchOff
  BY <1>0, <1>6, IdleKnows DEF SwitchOff, Steady, clock, timed
<1>7. CASE SwitchOn
  BY <1>0, <1>7, IdleKnows DEF SwitchOn, Steady, clock, timed, counters
<1>8. CASE UNCHANGED vars
  BY <1>0, <1>8, IdleKnows DEF vars, Steady, clock, timed, counters
<1>9. CASE DiskFails
  BY <1>0, <1>9, IdleKnows DEF DiskFails, Steady, clock, timed, counters
<1> QED
  BY <1>9, <1>8, <1>7, <1>6, <1>5, <1>4, <1>3, <1>2, <1>1,
     StepInv, ReceiveInv, TimedInv, RestartInv DEF Next

(* The invariant of the programme engine, its files and what the rules     *)
(* know of it holds in every state, whatever crashes, commands and flips   *)
(* of the agent's status come between the calls of a handler.              *)
THEOREM Inductive == Spec => []IInv
<1>1. Init => IInv
  BY InitInv
<1>2. IInv /\ [Next]_vars => IInv'
  BY NextInv
<1> QED
  BY <1>1, <1>2, PTL DEF Spec

(* Once setprogram has been answered the programme is in force and in      *)
(* CURRENTP, and stays there over any number of restarts, until the next   *)
(* command is taken (ProgramEngine::do_work), unless a file could not be   *)
(* written.                                                                *)
THEOREM AcknowledgedIsDurable == Spec => []AckIsDurable
<1>1. IInv => AckIsDurable
  BY DEF IInv, AckInv, Idle, AckIsDurable
<1> QED
  BY <1>1, Inductive, PTL

(* From OFF, _SWITCH and _ON bring back the last programme in force, or    *)
(* MANUAL, as long as every file could be written and the process has died *)
(* at most once, at whatever call of whatever handler                      *)
(* (ProgramEngine::setprogram).                                            *)
THEOREM SwitchResumesTheLast == Spec => []ResumesTheLast
<1>1. IInv => ResumesTheLast
  <2> SUFFICES ASSUME IInv, current = "OFF", todo = <<>>, nrestarts <= 1, unsaved = {}
               PROVE  Resumed \in {lastOn, "MANUAL"}
    BY DEF ResumesTheLast
  <2>1. Idle
    BY DEF IInv, PhaseInv, Idle, Answering, Naming, PuttingAside, TakingBack
  <2> QED
    BY <2>1 DEF Idle, Good, Resumed
<1> QED
  BY <1>1, Inductive, PTL

(* When the threads are idle and the last announcement was not dropped,    *)
(* the timed rules know the programme in force and whether its list is     *)
(* empty (ProgramEngine::program_notify, TimedRuleEngine::do_work).        *)
THEOREM IdleRulesKnowProgram == Spec => []RulesKnowProgram
<1>1. IInv => RulesKnowProgram
  <2> SUFFICES ASSUME IInv, Quiet, ~missed
               PROVE  view.program = current /\ view.on = (current # "OFF" /\ al # {})
    BY DEF RulesKnowProgram
  <2>1. previous = current /\ trQ = <<>>
    BY DEF IInv, PreviousInv, Quiet
  <2>2. ~LastAnnounced(<<>>, previous, al)
    BY DEF LastAnnounced
  <2> QED
    BY <2>1, <2>2 DEF IInv, KnowInv
<1> QED
  BY <1>1, Inductive, PTL
=============================================================================
