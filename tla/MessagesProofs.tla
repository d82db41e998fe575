---------------------------- MODULE MessagesProofs ----------------------------
(***************************************************************************)
(* Theorems about Messages for every number of senders, versions, messages *)
(* and deaths, every mailbox policy and every set of migration edges.      *)
(*                                                                         *)
(* Three facts about one step carry them: what is awaited is awaited in    *)
(* one place (OneRequest), the versions an actor looks up in an idle phase *)
(* are those of the code unless they were stored late (CacheInv), and a    *)
(* sender that has measured the mailbox holds one of its places (Room).    *)
(***************************************************************************)
EXTENDS Messages, CountingLemmas, SequenceTheorems

Actors == [inc : 1..(MaxDeaths + 1), pc : {"wait", "store", "match", "run", "dead"},
           msg : Msgs, known : Versions]
SenderStates == [pc : {"idle", "resolved", "measured", "asking", "dead"},
                 inc : 0..(MaxDeaths + 1), tag : Versions, ask : BOOLEAN, gap : BOOLEAN]

\* The types, and what the bounds say of the counters.
Typed ==
  /\ code \in Versions /\ cache \in Versions \union {None} /\ bind \in Versions \union {None}
  /\ phase \in {"idle", "suspended", "loaded", "erased", "fenced"}
  /\ late \in BOOLEAN
  /\ actor \in Actors
  /\ mbox \in Seq(Msgs)
  /\ snd \in [Senders -> SenderStates]
  /\ spent \in [sends : Nat, deaths : 0..MaxDeaths]

\* Every incarnation but the first follows a death; what waited died with it.
Incarnations ==
  /\ actor.inc + (IF Alive THEN 0 ELSE 1) <= spent.deaths + 1
  /\ \A s \in Senders : snd[s].inc <= actor.inc
  /\ actor.pc \in {"wait", "dead"} => actor.msg = NoMsg
  /\ ~Alive => mbox = <<>>

\* Who waits for the answer to m is asking this incarnation, when the senders are ss.
Awaited(m, ss, inc) ==
  m.waits => m.from \in Senders /\ ss[m.from].pc = "asking" /\ ss[m.from].inc = inc

OneRequest ==
  /\ Awaited(actor.msg, snd, actor.inc)
  /\ \A i \in DOMAIN mbox :
       /\ Awaited(mbox[i], snd, actor.inc)
       /\ mbox[i].waits /\ actor.msg.waits => mbox[i].from # actor.msg.from
       /\ \A j \in DOMAIN mbox :
            mbox[i].waits /\ mbox[j].waits /\ mbox[i].from = mbox[j].from => i = j

\* What is stored, looked up or handed to a handler is current, unless versions were
\* stored late; between load and erase the entry is stale, and no message is taken.
CacheInv ==
  /\ actor.pc \in {"store", "match", "run"} => phase = "idle"
  /\ phase \in {"idle", "suspended", "erased"} /\ ~late => cache \in {None, code}
  /\ actor.pc = "store" => actor.known = code
  /\ actor.pc = "match" /\ ~late => actor.known = code
  /\ actor.pc = "run" /\ ~late => actor.msg.tag = code
  /\ phase = "suspended" => code < MaxVersion

\* The messages a mailbox policy applies to, and the senders that have measured.
CastMsgs == {m \in Msgs : ~m.ask}
Measured == {s \in Senders : snd[s].pc = "measured" /\ snd[s].inc = actor.inc}

Room ==
  Policy # "unbounded" =>
    Cardinality(Places(mbox, CastMsgs)) + Cardinality(Measured) <= Cap + Cardinality(Senders) - 1

MsgInv == Typed /\ Incarnations /\ OneRequest /\ CacheInv /\ Room

-----------------------------------------------------------------------------
(* Types. *)

LEMMA RestTypes ==
  /\ NoMsg \in Msgs /\ 1 \in Versions /\ ~NoMsg.waits
  /\ Resting \in SenderStates
BY MessagesAssumption DEF NoMsg, Msgs, Resting, Versions, SenderStates

LEMMA TailOf ==
  ASSUME NEW T, NEW q \in Seq(T), q # <<>>
  PROVE  /\ Head(q) \in T /\ Tail(q) \in Seq(T)
         /\ Head(q) = q[1] /\ 1 \in DOMAIN q
         /\ \A i \in DOMAIN Tail(q) : i + 1 \in DOMAIN q /\ Tail(q)[i] = q[i + 1] /\ i \in Nat /\ i >= 1
OBVIOUS

LEMMA AppendOf ==
  ASSUME NEW T, NEW q \in Seq(T), NEW m \in T
  PROVE  /\ Append(q, m) \in Seq(T)
         /\ DOMAIN Append(q, m) = DOMAIN q \union {Len(q) + 1}
         /\ Len(q) + 1 \notin DOMAIN q
         /\ \A i \in DOMAIN q : Append(q, m)[i] = q[i]
         /\ Append(q, m)[Len(q) + 1] = m
OBVIOUS

LEMMA ForgetType ==
  ASSUME NEW m \in Msgs, NEW s \in Senders
  PROVE  /\ Forget(m, s) \in Msgs /\ Forget(m, s).ask = m.ask /\ Forget(m, s).tag = m.tag
         /\ Forget(m, s).from = m.from
         /\ Forget(m, s).waits <=> m.waits /\ m.from # s
BY DEF Forget, Msgs

LEMMA ForgetAll ==
  ASSUME NEW q \in Seq(Msgs), NEW s \in Senders
  PROVE  /\ [i \in DOMAIN q |-> Forget(q[i], s)] \in Seq(Msgs)
         /\ DOMAIN [i \in DOMAIN q |-> Forget(q[i], s)] = DOMAIN q
<1>1. DOMAIN q = 1..Len(q) /\ Len(q) \in Nat
  OBVIOUS
<1>2. \A i \in 1..Len(q) : Forget(q[i], s) \in Msgs
  BY ForgetType
<1>3. [i \in 1..Len(q) |-> Forget(q[i], s)] \in [1..Len(q) -> Msgs]
  BY <1>2
<1> QED  BY <1>1, <1>3, SeqDef

LEMMA MessageType ==
  ASSUME Typed, NEW s \in Senders
  PROVE  Message(s) \in Msgs
BY DEF Typed, Message, Msgs, SenderStates

\* What becomes of the senders, field by field.
LEMMA AskStep ==
  ASSUME Typed, NEW s \in Senders, Ask(s)
  PROVE  \E r \in SenderStates : /\ snd' = [snd EXCEPT ![s] = r]
                                  /\ r.pc = "asking" /\ r.inc = snd[s].inc
<1>1. snd[s] \in SenderStates /\ snd \in [Senders -> SenderStates]
  BY DEF Typed
<1> DEFINE r == [pc |-> "asking", inc |-> snd[s].inc, tag |-> 1, ask |-> snd[s].ask,
                 gap |-> snd[s].gap]
<1>2. r \in SenderStates
  BY <1>1, RestTypes DEF SenderStates
<1>3. snd' = [[snd EXCEPT ![s].pc = "asking"] EXCEPT ![s].tag = 1]
  BY DEF Ask
<1> DEFINE u == [snd EXCEPT ![s].pc = "asking"]
<1>4. u[s] = [pc |-> "asking", inc |-> snd[s].inc, tag |-> snd[s].tag, ask |-> snd[s].ask,
              gap |-> snd[s].gap] /\ DOMAIN u = Senders /\ u \in [Senders -> SenderStates]
  BY <1>1 DEF SenderStates
<1>5. snd' = [u EXCEPT ![s] = r]
  <2>1. snd' = [u EXCEPT ![s] = [u[s] EXCEPT !.tag = 1]]
    BY <1>3
  <2>2. [u[s] EXCEPT !.tag = 1] = r
    <3> HIDE DEF u
    <3> QED  BY <1>4
  <2> HIDE DEF u, r
  <2> QED  BY <2>1, <2>2
<1>6. snd' = [snd EXCEPT ![s] = r]
  BY <1>1, <1>5 DEF u
<1> QED  BY <1>2, <1>6

LEMMA LookUpType ==
  ASSUME Typed, NEW m \in Msgs
  PROVE  /\ LookUp(m) \in Actors
         /\ LookUp(m).inc = actor.inc /\ LookUp(m).msg = m
         /\ \/ LookUp(m).pc = "match" /\ LookUp(m).known = cache /\ cache # None
            \/ LookUp(m).pc = "store" /\ LookUp(m).known = code
BY DEF Typed, LookUp, Actors

LEMMA StopTypes ==
  ASSUME Typed
  PROVE  /\ Waits \in Actors /\ Waits.inc = actor.inc /\ Waits.pc = "wait" /\ Waits.msg = NoMsg
         /\ Dead \in Actors /\ Dead.inc = actor.inc /\ Dead.pc = "dead" /\ Dead.msg = NoMsg
<1>1. /\ Waits \in Actors /\ Waits.inc = actor.inc /\ Waits.pc = "wait" /\ Waits.msg = NoMsg
  BY RestTypes DEF Typed, Waits, Actors
<1> QED  BY <1>1 DEF Dead, Actors

LEMMA MatchAction ==
  ASSUME Typed, Match
  PROVE  \/ actor.msg.tag = actor.known /\ actor' = [actor EXCEPT !.pc = "run", !.known = 1]
            /\ UNCHANGED snd
         \/ \E v \in Versions :
              /\ v = code /\ actor' = LookUp([actor.msg EXCEPT !.tag = v])
              /\ [actor.msg EXCEPT !.tag = v] \in Msgs
              /\ UNCHANGED snd
         \/ /\ actor.msg.tag # actor.known /\ <<actor.msg.tag, code>> \notin Edges
            /\ actor' = Waits
            /\ snd' = IF actor.msg.waits THEN [snd EXCEPT ![actor.msg.from].gap = TRUE] ELSE snd
BY DEF Typed, Match, Msgs, Actors

LEMMA TypedSender ==
  ASSUME MsgInv, NEW s \in Senders, Sender(s)
  PROVE  Typed'
<1> USE RestTypes
<1>1. CASE Resolve(s)
  <2>1. UNCHANGED <<code, cache, bind, phase, late, actor, mbox>>
    BY <1>1 DEF Resolve
  <2>2. spent' \in [sends : Nat, deaths : 0..MaxDeaths]
    <3>1. spent' = [spent EXCEPT !.sends = @ + 1]
      BY <1>1 DEF Resolve
    <3> QED  BY <3>1, MessagesAssumption DEF MsgInv, Typed
  <2>3. snd' \in [Senders -> SenderStates]
    <3>1. CASE Alive
      <4>1. PICK ask \in BOOLEAN, tag \in 1..code :
              snd' = [snd EXCEPT ![s] = [pc |-> "resolved", inc |-> actor.inc, tag |-> tag,
                                            ask |-> ask, gap |-> FALSE]]
        BY <1>1, <3>1 DEF Resolve
      <4>2. tag \in Versions /\ actor.inc \in 0..(MaxDeaths + 1)
        BY MessagesAssumption DEF MsgInv, Typed, Actors, SenderStates, Versions
      <4> QED  BY <4>1, <4>2 DEF MsgInv, Typed, Actors, SenderStates
    <3>2. CASE ~Alive
      BY <1>1, <3>2 DEF Resolve, MsgInv, Typed, Actors, SenderStates
    <3> QED  BY <3>1, <3>2
  <2> QED  BY <2>1, <2>2, <2>3 DEF MsgInv, Typed, Actors, SenderStates
<1>2. CASE Measure(s)
  BY <1>2 DEF Measure, MsgInv, Typed, Actors, SenderStates
<1>3. CASE MailboxFull(s)
  BY <1>3 DEF MailboxFull, MsgInv, Typed, Actors, SenderStates
<1>4. CASE Cast(s)
  BY <1>4, MessageType, AppendOf DEF Cast, Deliver, MsgInv, Typed, Actors, SenderStates
<1>5. CASE Ask(s)
  <2>1. mbox' \in Seq(Msgs)
    BY <1>5, MessageType, AppendOf DEF Ask, Deliver, MsgInv, Typed
  <2>2. snd' \in [Senders -> SenderStates]
    BY <1>5, AskStep DEF SenderStates, MsgInv, Typed
  <2> QED  BY <1>5, <2>1, <2>2 DEF Ask, MsgInv, Typed
<1>6. CASE AskDown(s)
  BY <1>6 DEF AskDown, MsgInv, Typed, Actors, SenderStates
<1>7. CASE AskTimeout(s)
  <2>1. mbox' \in Seq(Msgs)
    BY <1>7, ForgetAll DEF AskTimeout, MsgInv, Typed, Actors, SenderStates
  <2>2. actor' \in Actors
    BY <1>7, ForgetType DEF AskTimeout, MsgInv, Typed, Actors, SenderStates
  <2> QED  BY <1>7, <2>1, <2>2 DEF AskTimeout, MsgInv, Typed, Actors, SenderStates
<1> QED  BY <1>1, <1>2, <1>3, <1>4, <1>5, <1>6, <1>7 DEF Sender

LEMMA TypedOthers ==
  ASSUME MsgInv, \/ Actor \/ Die \/ Restart \/ Suspend \/ Reload \/ ReloadDies
                 \/ BindLooks \/ BindStores \/ UNCHANGED vars
  PROVE  Typed'
<1> USE RestTypes
<1>1. CASE Receive
  BY <1>1, TailOf, LookUpType DEF Receive, MsgInv, Typed, Actors, SenderStates
<1>2. CASE Store
  BY <1>2 DEF Store, MsgInv, Typed, Actors, SenderStates
<1>3. CASE Match
  <2>1. UNCHANGED <<code, cache, phase, mbox, bind, late, spent>>
    BY <1>3 DEF Match
  <2>2. Typed /\ snd \in [Senders -> SenderStates] /\ actor \in Actors
    BY DEF MsgInv, Typed
  <2>3. actor.msg.waits => actor.msg.from \in Senders
    BY DEF MsgInv, OneRequest, Awaited
  <2>4. CASE actor' = [actor EXCEPT !.pc = "run", !.known = 1] /\ UNCHANGED snd
    <3>1. actor' \in Actors
      BY <2>2, <2>4 DEF Actors
    <3> QED  BY <2>1, <2>2, <2>4, <3>1 DEF Typed
  <2>5. CASE /\ \E v \in Versions : /\ actor' = LookUp([actor.msg EXCEPT !.tag = v])
                                    /\ [actor.msg EXCEPT !.tag = v] \in Msgs
             /\ UNCHANGED snd
    <3>1. actor' \in Actors
      BY <2>2, <2>5, LookUpType
    <3> QED  BY <2>1, <2>2, <2>5, <3>1 DEF Typed
  <2>6. CASE /\ actor' = Waits
             /\ snd' = IF actor.msg.waits THEN [snd EXCEPT ![actor.msg.from].gap = TRUE] ELSE snd
    <3>1. actor' \in Actors
      BY <2>2, <2>6, StopTypes
    <3>2. snd' \in [Senders -> SenderStates]
      BY <2>2, <2>3, <2>6 DEF SenderStates
    <3> QED  BY <2>1, <2>2, <3>1, <3>2 DEF Typed
  <2> QED  BY <1>3, <2>2, <2>4, <2>5, <2>6, MatchAction
<1>4. CASE Finish
  BY <1>4, StopTypes DEF Finish, MsgInv, Typed, Actors, SenderStates, OneRequest, Awaited
<1>5. CASE Die
  BY <1>5, StopTypes, MessagesAssumption DEF Die, MsgInv, Typed, Actors, SenderStates
<1>6. CASE Restart
  <2>1. actor.inc + 1 \in 1..(MaxDeaths + 1)
    BY <1>6, MessagesAssumption DEF Restart, MsgInv, Typed, Actors, SenderStates, Incarnations
  <2> QED  BY <1>6, <2>1 DEF Restart, MsgInv, Typed, Actors, SenderStates
<1>7. CASE Suspend
  BY <1>7 DEF Suspend, MsgInv, Typed, Actors, SenderStates
<1>8. CASE Load
  BY <1>8, MessagesAssumption DEF Load, MsgInv, Typed, Actors, SenderStates, CacheInv, Versions
<1>9. CASE Abort
  BY <1>9 DEF Abort, MsgInv, Typed, Actors, SenderStates
<1>10. CASE Erase
  BY <1>10 DEF Erase, MsgInv, Typed, Actors, SenderStates
<1>11. CASE Resume
  BY <1>11 DEF Resume, MsgInv, Typed, Actors, SenderStates
<1>12. CASE ReloadDies
  BY <1>12, StopTypes, MessagesAssumption DEF ReloadDies, MsgInv, Typed, Actors, SenderStates
<1>13. CASE BindLooks
  BY <1>13 DEF BindLooks, MsgInv, Typed, Actors, SenderStates
<1>14. CASE BindStores
  BY <1>14 DEF BindStores, MsgInv, Typed, Actors, SenderStates
<1>15. CASE UNCHANGED vars
  BY <1>15 DEF vars, MsgInv, Typed, Actors, SenderStates
<1> QED  BY <1>1, <1>2, <1>3, <1>4, <1>5, <1>6, <1>7, <1>8, <1>9, <1>10, <1>11, <1>12, <1>13,
            <1>14, <1>15 DEF Actor, Reload

-----------------------------------------------------------------------------
(* Incarnations, and what an actor that is gone leaves. *)

\* A step of a sender changes its own state only; the messages of the others keep their
\* place and what they say.
LEMMA SenderEffect ==
  ASSUME Typed, NEW s \in Senders, Sender(s)
  PROVE  /\ UNCHANGED <<code, cache, phase, bind, late>>
         /\ \A t \in Senders \ {s} : snd'[t] = snd[t]
         /\ actor'.inc = actor.inc /\ actor'.pc = actor.pc /\ actor'.known = actor.known
         /\ actor'.msg.tag = actor.msg.tag /\ spent'.deaths = spent.deaths
         /\ snd'[s].inc \in {snd[s].inc, actor.inc, 0}
         /\ ~Alive => UNCHANGED <<mbox, actor>> \/ AskTimeout(s)
<1>1. CASE Resolve(s)
  BY <1>1 DEF Resolve, Typed
<1>2. CASE Measure(s)
  BY <1>2 DEF Measure, Typed, Resting
<1>3. CASE MailboxFull(s)
  BY <1>3 DEF MailboxFull, Typed, Resting
<1>4. CASE Cast(s)
  BY <1>4 DEF Cast, Deliver, Reaches, Typed, Resting
<1>5. CASE Ask(s)
  BY <1>5, AskStep DEF Ask, Deliver, Reaches, Typed
<1>6. CASE AskDown(s)
  BY <1>6 DEF AskDown, Typed, Resting
<1>7. CASE AskTimeout(s)
  <2>1. actor' = [actor EXCEPT !.msg = Forget(@, s)] /\ actor.msg \in Msgs
    BY <1>7 DEF AskTimeout, Typed, Actors
  <2> QED  BY <1>7, <2>1, ForgetType DEF AskTimeout, Typed, Actors, Resting
<1> QED  BY <1>1, <1>2, <1>3, <1>4, <1>5, <1>6, <1>7 DEF Sender

LEMMA IncarnationsSender ==
  ASSUME MsgInv, NEW s \in Senders, Sender(s)
  PROVE  Incarnations'
<1>1. Typed /\ Incarnations
  BY DEF MsgInv
<1>2. Alive' <=> Alive
  BY <1>1, SenderEffect DEF Alive
<1>3. \A t \in Senders : snd'[t].inc <= actor'.inc
  BY <1>1, SenderEffect DEF Typed, Incarnations, Actors
<1>4. CASE AskTimeout(s)
  <2>1. actor' = [actor EXCEPT !.msg = Forget(@, s)]
    BY <1>4 DEF AskTimeout
  <2>2. actor.msg = NoMsg => actor'.msg = NoMsg
    BY <1>1, <2>1, MessagesAssumption DEF Forget, Typed, Actors, NoMsg
  <2>3. mbox = <<>> => mbox' = <<>>
    BY <1>4 DEF AskTimeout
  <2> QED  BY <1>1, <1>2, <1>3, <2>2, <2>3, SenderEffect DEF Incarnations
<1>5. CASE ~AskTimeout(s)
  <2>1. ~Alive => UNCHANGED <<mbox, actor>>
    BY <1>1, <1>5, SenderEffect
  <2>2. UNCHANGED actor
    BY <1>5 DEF Sender, Resolve, Measure, MailboxFull, Cast, Ask, AskDown
  <2> QED  BY <1>1, <1>2, <1>3, <2>1, <2>2, SenderEffect DEF Incarnations
<1> QED  BY <1>4, <1>5

LEMMA IncarnationsOthers ==
  ASSUME MsgInv, \/ Actor \/ Die \/ Restart \/ Suspend \/ Reload \/ ReloadDies
                 \/ BindLooks \/ BindStores \/ UNCHANGED vars
  PROVE  Incarnations'
<1>1. Typed /\ Incarnations
  BY DEF MsgInv
<1>2. CASE Receive
  BY <1>1, <1>2, TailOf, LookUpType DEF Receive, Incarnations, Alive, Typed
<1>3. CASE Store
  BY <1>1, <1>3 DEF Store, Incarnations, Alive, Typed, Actors
<1>4. CASE Match
  <2>1. UNCHANGED <<mbox, spent>> /\ actor.pc = "match"
    BY <1>4 DEF Match
  <2>2. actor'.inc = actor.inc /\ actor'.pc # "dead" /\ (actor'.pc = "wait" => actor'.msg = NoMsg)
    BY <1>1, <1>4, MatchAction, LookUpType, StopTypes DEF Typed, Actors
  <2>3. \A t \in Senders : snd'[t].inc = snd[t].inc
    <3>1. actor.msg.waits => actor.msg.from \in Senders
      BY DEF MsgInv, OneRequest, Awaited
    <3>2. UNCHANGED snd \/ (actor.msg.waits /\ snd' = [snd EXCEPT ![actor.msg.from].gap = TRUE])
      BY <1>4 DEF Match
    <3> QED  BY <1>1, <3>1, <3>2 DEF Typed, SenderStates
  <2> QED  BY <1>1, <2>1, <2>2, <2>3 DEF Incarnations, Alive
<1>5. CASE Finish
  BY <1>1, <1>5, StopTypes DEF Finish, Incarnations, Alive, Typed, Actors, SenderStates, Resting
<1>6. CASE Die
  BY <1>1, <1>6, StopTypes DEF Die, Incarnations, Alive, Typed, Actors
<1>7. CASE Restart
  BY <1>1, <1>7 DEF Restart, Incarnations, Alive, Typed, Actors, SenderStates
<1>8. CASE ReloadDies
  BY <1>1, <1>8, StopTypes DEF ReloadDies, Incarnations, Alive, Typed, Actors
<1>9. CASE Suspend \/ Reload \/ BindLooks \/ BindStores \/ UNCHANGED vars
  <2>1. UNCHANGED <<actor, mbox, snd, spent>>
    BY <1>9 DEF Suspend, Reload, Load, Abort, Erase, Resume, BindLooks, BindStores, vars
  <2> QED  BY <1>1, <2>1 DEF Incarnations, Alive
<1> QED  BY <1>2, <1>3, <1>4, <1>5, <1>6, <1>7, <1>8, <1>9 DEF Actor

-----------------------------------------------------------------------------
(* An answer is awaited in one place. *)

LEMMA OneRequestSender ==
  ASSUME MsgInv, NEW s \in Senders, Sender(s)
  PROVE  OneRequest'
<1>1. Typed /\ Incarnations /\ OneRequest
  BY DEF MsgInv
\* Who is not asking this actor has no message that waits.
<1>2. ASSUME snd[s].pc # "asking" \/ snd[s].inc # actor.inc
      PROVE  /\ actor.msg.waits => actor.msg.from # s
             /\ \A i \in DOMAIN mbox : mbox[i].waits => mbox[i].from # s
  BY <1>1, <1>2 DEF OneRequest, Awaited
<1>3. ASSUME UNCHANGED <<actor, mbox>>, snd[s].pc # "asking" \/ snd[s].inc # actor.inc
      PROVE  OneRequest'
  BY <1>1, <1>2, <1>3, SenderEffect DEF OneRequest, Awaited
<1>4. CASE Resolve(s) \/ Measure(s) \/ MailboxFull(s)
  BY <1>3, <1>4 DEF Resolve, Measure, MailboxFull
<1>5. CASE Cast(s)
  <2>1. snd[s].pc # "asking" /\ UNCHANGED actor
    BY <1>5 DEF Cast
  <2>2. Message(s) \in Msgs /\ ~Message(s).waits
    BY <1>1, <1>5, MessageType DEF Cast, Message
  <2>3. CASE mbox' = mbox
    BY <1>3, <2>1, <2>3
  <2>4. CASE mbox' = Append(mbox, Message(s))
    <3>1. /\ DOMAIN mbox' = DOMAIN mbox \union {Len(mbox) + 1}
          /\ \A i \in DOMAIN mbox : mbox'[i] = mbox[i]
          /\ ~mbox'[Len(mbox) + 1].waits
      BY <1>1, <2>2, <2>4, AppendOf DEF Typed
    <3> QED  BY <1>1, <1>2, <2>1, <3>1, SenderEffect DEF OneRequest, Awaited
  <2> QED  BY <1>5, <2>3, <2>4 DEF Cast, Deliver
<1>6. CASE Ask(s)
  <2>1. snd[s].pc # "asking" /\ UNCHANGED actor
    BY <1>6 DEF Ask
  <2>2. snd'[s].pc = "asking" /\ snd'[s].inc = snd[s].inc
    BY <1>1, <1>6, AskStep DEF Typed
  <2>3. CASE mbox' = mbox
    BY <1>3, <2>1, <2>3
  <2>4. CASE Reaches(s) /\ mbox' = Append(mbox, Message(s))
    <3> DEFINE n == Len(mbox) + 1
    <3>1. /\ DOMAIN mbox' = DOMAIN mbox \union {n} /\ n \notin DOMAIN mbox
          /\ \A i \in DOMAIN mbox : mbox'[i] = mbox[i]
          /\ mbox'[n].from = s
      BY <1>1, <2>4, MessageType, AppendOf DEF Typed, Message
    <3> HIDE DEF n
    <3>2. Awaited(mbox'[n], snd', actor'.inc)
      BY <2>1, <2>2, <2>4, <3>1 DEF Awaited, Reaches
    <3>3. /\ Awaited(actor'.msg, snd', actor'.inc)
          /\ \A i \in DOMAIN mbox : Awaited(mbox[i], snd', actor'.inc)
      BY <1>1, <1>2, <2>1, SenderEffect DEF OneRequest, Awaited
    <3> QED  BY <1>1, <1>2, <2>1, <3>1, <3>2, <3>3 DEF OneRequest
  <2> QED  BY <1>6, <2>3, <2>4 DEF Ask, Deliver
<1>7. CASE AskDown(s)
  <2>1. UNCHANGED <<actor, mbox>> /\ ~Reaches(s)
    BY <1>7 DEF AskDown
  <2>2. CASE Alive
    BY <1>3, <2>1, <2>2 DEF Reaches
  <2>3. CASE ~Alive
    BY <1>1, <2>1, <2>3, RestTypes DEF Incarnations, Alive, OneRequest, Awaited
  <2> QED  BY <2>2, <2>3
<1>8. CASE AskTimeout(s)
  <2>1. /\ actor'.msg = Forget(actor.msg, s) /\ actor.msg \in Msgs
        /\ DOMAIN mbox' = DOMAIN mbox
        /\ \A i \in DOMAIN mbox : mbox'[i] = Forget(mbox[i], s) /\ mbox[i] \in Msgs
    BY <1>1, <1>8 DEF AskTimeout, Typed, Actors
  <2>2. /\ actor'.msg.from = actor.msg.from
        /\ actor'.msg.waits <=> actor.msg.waits /\ actor.msg.from # s
        /\ \A i \in DOMAIN mbox : /\ mbox'[i].from = mbox[i].from
                                  /\ mbox'[i].waits <=> mbox[i].waits /\ mbox[i].from # s
    BY <2>1, ForgetType
  <2>3. /\ \A t \in Senders \ {s} : snd'[t] = snd[t]
        /\ actor'.inc = actor.inc
    BY <1>1, SenderEffect
  <2> QED  BY <1>1, <2>1, <2>2, <2>3 DEF OneRequest, Awaited
<1> QED  BY <1>4, <1>5, <1>6, <1>7, <1>8 DEF Sender

LEMMA OneRequestOthers ==
  ASSUME MsgInv, \/ Actor \/ Die \/ Restart \/ Suspend \/ Reload \/ ReloadDies
                 \/ BindLooks \/ BindStores \/ UNCHANGED vars
  PROVE  OneRequest'
<1>1. Typed /\ Incarnations /\ OneRequest /\ ~NoMsg.waits
  BY RestTypes DEF MsgInv
<1>2. CASE Receive
  <2>1. mbox \in Seq(Msgs) /\ mbox # <<>> /\ mbox' = Tail(mbox) /\ actor.pc = "wait"
    BY <1>1, <1>2 DEF Receive, Typed
  <2>2. /\ mbox[1] \in Msgs /\ 1 \in DOMAIN mbox
        /\ \A i \in DOMAIN mbox' : i + 1 \in DOMAIN mbox /\ mbox'[i] = mbox[i + 1] /\ i \in Nat /\ i >= 1
    BY <2>1, TailOf
  <2>3. actor'.msg = mbox[1] /\ actor'.inc = actor.inc /\ UNCHANGED snd
    BY <1>1, <1>2, <2>1, <2>2, TailOf, LookUpType DEF Receive
  <2> QED  BY <1>1, <2>2, <2>3 DEF OneRequest, Awaited
<1>3. CASE Match
  <2>1. UNCHANGED mbox
    BY <1>3 DEF Match
  <2>2. /\ \A t \in Senders : snd'[t].pc = snd[t].pc /\ snd'[t].inc = snd[t].inc
        /\ actor'.inc = actor.inc
    <3>1. actor.msg.waits => actor.msg.from \in Senders
      BY <1>1 DEF OneRequest, Awaited
    <3>2. UNCHANGED snd \/ (actor.msg.waits /\ snd' = [snd EXCEPT ![actor.msg.from].gap = TRUE])
      BY <1>3 DEF Match
    <3>3. actor'.inc = actor.inc
      BY <1>1, <1>3, MatchAction, LookUpType, StopTypes DEF Typed, Actors
    <3> QED  BY <1>1, <3>1, <3>2, <3>3 DEF Typed, SenderStates
  <2>3. \/ actor'.msg.from = actor.msg.from /\ (actor'.msg.waits <=> actor.msg.waits)
        \/ ~actor'.msg.waits
    <3>1. CASE actor' = [actor EXCEPT !.pc = "run", !.known = 1]
      BY <1>1, <3>1 DEF Typed, Actors
    <3>2. ASSUME NEW v, actor' = LookUp([actor.msg EXCEPT !.tag = v]),
                 [actor.msg EXCEPT !.tag = v] \in Msgs
          PROVE  actor'.msg.from = actor.msg.from /\ (actor'.msg.waits <=> actor.msg.waits)
      <4>1. actor'.msg = [actor.msg EXCEPT !.tag = v]
        BY <1>1, <3>2, LookUpType
      <4> QED  BY <1>1, <4>1 DEF Typed, Actors, Msgs
    <3>3. CASE actor' = Waits
      BY <1>1, <3>3, StopTypes
    <3> QED  BY <1>1, <1>3, <3>1, <3>2, <3>3, MatchAction
  <2> QED  BY <1>1, <2>1, <2>2, <2>3 DEF OneRequest, Awaited
<1>4. CASE Finish
  <2>1. actor'.msg = NoMsg /\ actor'.inc = actor.inc /\ UNCHANGED mbox
    BY <1>1, <1>4, StopTypes DEF Finish
  <2>2. \A i \in DOMAIN mbox : mbox[i].waits => snd'[mbox[i].from] = snd[mbox[i].from]
    BY <1>1, <1>4 DEF Finish, OneRequest, Awaited, Typed
  <2> QED  BY <1>1, <2>1, <2>2 DEF OneRequest, Awaited
<1>5. CASE Die \/ ReloadDies
  <2>1. actor'.msg = NoMsg /\ mbox' = <<>>
    BY <1>1, <1>5, StopTypes DEF Die, ReloadDies
  <2> QED  BY <1>1, <2>1 DEF OneRequest, Awaited
<1>6. CASE Restart
  <2>1. actor'.msg = NoMsg /\ mbox' = <<>>
    BY <1>1, <1>6 DEF Restart, Incarnations, Alive, Typed, Actors
  <2> QED  BY <1>1, <2>1 DEF OneRequest, Awaited
<1>7. CASE Store
  <2>1. UNCHANGED <<mbox, snd>> /\ actor'.msg = actor.msg /\ actor'.inc = actor.inc
    BY <1>1, <1>7 DEF Store, Typed, Actors
  <2> QED  BY <1>1, <2>1 DEF OneRequest, Awaited
<1>8. CASE Suspend \/ Reload \/ BindLooks \/ BindStores \/ UNCHANGED vars
  <2>1. UNCHANGED <<actor, mbox, snd>>
    BY <1>8 DEF Suspend, Reload, Load, Abort, Erase, Resume, BindLooks, BindStores, vars
  <2> QED  BY <1>1, <2>1 DEF OneRequest, Awaited
<1> QED  BY <1>2, <1>3, <1>4, <1>5, <1>6, <1>7, <1>8 DEF Actor

-----------------------------------------------------------------------------
(* What a handler sees is current. *)

LEMMA CacheSender ==
  ASSUME MsgInv, NEW s \in Senders, Sender(s)
  PROVE  CacheInv'
<1>1. Typed /\ CacheInv
  BY DEF MsgInv
<1> QED  BY <1>1, SenderEffect DEF CacheInv

LEMMA CacheOthers ==
  ASSUME MsgInv, \/ Actor \/ Die \/ Restart \/ Suspend \/ Reload \/ ReloadDies
                 \/ BindLooks \/ BindStores \/ UNCHANGED vars
  PROVE  CacheInv'
<1>1. Typed /\ CacheInv /\ actor \in Actors
  BY DEF MsgInv, Typed
<1>2. CASE Receive
  <2>1. /\ UNCHANGED <<code, cache, phase, late>> /\ phase = "idle"
        /\ \/ actor'.pc = "match" /\ actor'.known = cache /\ cache # None
           \/ actor'.pc = "store" /\ actor'.known = code
    BY <1>1, <1>2, TailOf, LookUpType DEF Receive, Typed
  <2> QED  BY <1>1, <2>1 DEF CacheInv
<1>3. CASE Store
  BY <1>1, <1>3 DEF Store, CacheInv, Actors
<1>4. CASE Match
  <2>1. UNCHANGED <<code, cache, phase, late>> /\ phase = "idle" /\ actor.pc = "match"
    BY <1>1, <1>4 DEF Match, CacheInv
  <2>2. CASE actor.msg.tag = actor.known /\ actor' = [actor EXCEPT !.pc = "run", !.known = 1]
    <3>1. actor'.pc = "run" /\ actor'.msg = actor.msg
      BY <1>1, <2>2 DEF Actors
    <3> QED  BY <1>1, <2>1, <2>2, <3>1 DEF CacheInv
  <2>3. ASSUME NEW m \in Msgs, actor' = LookUp(m)
        PROVE  CacheInv'
    BY <1>1, <2>1, <2>3, LookUpType DEF CacheInv
  <2>4. CASE actor' = Waits
    BY <1>1, <2>1, <2>4, StopTypes DEF CacheInv
  <2> QED  BY <1>1, <1>4, <2>2, <2>3, <2>4, MatchAction
<1>5. CASE Finish
  BY <1>1, <1>5, StopTypes DEF Finish, CacheInv
<1>6. CASE Die
  BY <1>1, <1>6, StopTypes DEF Die, CacheInv
<1>7. CASE ReloadDies
  BY <1>1, <1>7, StopTypes DEF ReloadDies, CacheInv
<1>8. CASE Restart
  BY <1>1, <1>8 DEF Restart, CacheInv, Actors
<1>9. CASE Suspend
  BY <1>1, <1>9, MessagesAssumption DEF Suspend, CacheInv, Typed, Versions
<1>10. CASE Load
  BY <1>1, <1>10 DEF Load, CacheInv
<1>11. CASE Abort \/ Resume
  BY <1>1, <1>11 DEF Abort, Resume, CacheInv
<1>12. CASE Erase
  BY <1>1, <1>12 DEF Erase, CacheInv
<1>13. CASE BindLooks
  BY <1>1, <1>13 DEF BindLooks, CacheInv
<1>14. CASE BindStores
  BY <1>1, <1>14 DEF BindStores, CacheInv, Typed
<1>15. CASE UNCHANGED vars
  BY <1>1, <1>15 DEF vars, CacheInv
<1> QED  BY <1>2, <1>3, <1>4, <1>5, <1>6, <1>7, <1>8, <1>9, <1>10, <1>11, <1>12, <1>13, <1>14,
            <1>15 DEF Actor, Reload

-----------------------------------------------------------------------------
(* The bound of a mailbox. *)

LEMMA Counts ==
  ASSUME Typed
  PROVE  /\ Cardinality(Places(mbox, CastMsgs)) \in Nat
         /\ IsFiniteSet(Measured) /\ Cardinality(Measured) \in Nat
         /\ Cardinality(Senders) \in Nat /\ Cardinality(Measured) <= Cardinality(Senders)
<1>1. mbox \in Seq(Msgs)
  BY DEF Typed
<1>2. Cardinality(Places(mbox, CastMsgs)) \in Nat
  BY <1>1, PlacesFinite
<1>3. Measured \in SUBSET Senders /\ IsFiniteSet(Senders)
  BY MessagesAssumption DEF Measured
<1>4. IsFiniteSet(Measured) /\ Cardinality(Measured) <= Cardinality(Senders)
  BY <1>3, FS_Subset
<1> QED  BY <1>2, <1>3, <1>4, FS_CardinalityType

\* The senders that may have measured never outnumber the senders.
LEMMA RoomNext ==
  ASSUME Typed', Cardinality(Places(mbox', CastMsgs)) < Cap
  PROVE  Room'
<1>1. mbox' \in Seq(Msgs)
  BY DEF Typed
<1>2. Cardinality(Places(mbox', CastMsgs)) \in Nat
  BY <1>1, PlacesFinite
<1>3. Measured' \in SUBSET Senders /\ IsFiniteSet(Senders)
  BY MessagesAssumption DEF Measured
<1>4. IsFiniteSet(Measured') /\ Cardinality(Measured') <= Cardinality(Senders)
  BY <1>3, FS_Subset
<1>5. Cardinality(Measured') \in Nat /\ Cardinality(Senders) \in Nat
  BY <1>3, <1>4, FS_CardinalityType
<1> QED  BY <1>2, <1>4, <1>5, MessagesAssumption DEF Room

LEMMA FewerPlaces ==
  ASSUME Typed, Typed', Room,
         Cardinality(Places(mbox', CastMsgs)) <= Cardinality(Places(mbox, CastMsgs)),
         Measured' \subseteq Measured
  PROVE  Room'
<1>1. Cardinality(Measured') <= Cardinality(Measured)
  BY Counts, FS_Subset
<1>2. Cardinality(Places(mbox', CastMsgs)) \in Nat /\ Cardinality(Measured') \in Nat
  <2>1. mbox' \in Seq(Msgs) /\ IsFiniteSet(Measured')
    <3>1. IsFiniteSet(Measured)
      BY Counts
    <3> QED  BY <3>1, FS_Subset DEF Typed
  <2> QED  BY <2>1, PlacesFinite, FS_CardinalityType
<1> QED  BY <1>1, <1>2, Counts, MessagesAssumption DEF Room

LEMMA NoPlaces == Cardinality(Places(<<>>, CastMsgs)) = 0
<1>1. Places(<<>>, CastMsgs) = {}
  BY DEF Places
<1> QED  BY <1>1, FS_EmptySet

LEMMA PlacesBelowLength ==
  ASSUME NEW q \in Seq(Msgs), NEW S
  PROVE  Cardinality(Places(q, S)) <= Len(q)
<1>1. IsFiniteSet(1..Len(q)) /\ Cardinality(1..Len(q)) = Len(q)
  <2>1. 1 \in Int /\ Len(q) \in Int /\ Len(q) >= 0
    OBVIOUS
  <2>2. Cardinality(1..Len(q)) = IF 1 > Len(q) THEN 0 ELSE Len(q) - 1 + 1
    BY <2>1, FS_Interval
  <2> QED  BY <2>1, <2>2, FS_Interval
<1>2. Places(q, S) \in SUBSET (1..Len(q))
  BY DEF Places
<1> QED  BY <1>1, <1>2, FS_Subset

LEMMA RoomSender ==
  ASSUME MsgInv, Typed', NEW s \in Senders, Sender(s)
  PROVE  Room'
<1>1. Typed /\ Room /\ mbox \in Seq(Msgs)
  BY DEF MsgInv, Typed
<1>2. \A t \in Senders \ {s} : t \in Measured' <=> t \in Measured
  BY <1>1, SenderEffect DEF Measured
<1>3. ASSUME snd'[s].pc # "measured", UNCHANGED mbox
      PROVE  Room'
  BY <1>1, <1>2, <1>3, Counts, FewerPlaces DEF Measured
<1>4. CASE Resolve(s)
  <2>1. snd'[s].pc # "measured"
    BY <1>1, <1>4 DEF Resolve, Typed
  <2> QED  BY <1>3, <1>4, <2>1 DEF Resolve
<1>5. CASE Measure(s)
  <2>1. CASE Reaches(s) /\ ~Full(Len(mbox))
    <3>1. Cardinality(Places(mbox, CastMsgs)) < Cap
      BY <1>1, <2>1, Counts, PlacesBelowLength, MessagesAssumption DEF Full
    <3>2. UNCHANGED mbox
      BY <1>5 DEF Measure
    <3> QED  BY <3>1, <3>2, RoomNext
  <2>2. CASE ~(Reaches(s) /\ ~Full(Len(mbox)))
    BY <1>1, <1>3, <1>5, <2>2 DEF Measure, Typed, Resting
  <2> QED  BY <2>1, <2>2
<1>6. CASE MailboxFull(s)
  BY <1>1, <1>3, <1>6 DEF MailboxFull, Typed, Resting
<1>7. CASE Cast(s)
  <2>1. snd'[s].pc = "idle" /\ UNCHANGED actor /\ Message(s) \in Msgs
    BY <1>1, <1>7, MessageType DEF Cast, Typed, Resting
  <2>2. CASE mbox' = mbox
    BY <1>3, <2>1, <2>2
  <2>3. CASE Policy # "unbounded" /\ Reaches(s) /\ mbox' = Append(mbox, Message(s))
    <3>1. s \in Measured
      BY <1>7, <2>3 DEF Cast, Measured, Reaches
    <3>2. Measured' = Measured \ {s}
      BY <1>2, <2>1 DEF Measured
    <3>3. Cardinality(Measured') = Cardinality(Measured) - 1
      BY <1>1, <3>1, <3>2, Counts, FS_RemoveElement
    <3>4. Cardinality(Places(mbox', CastMsgs)) <= Cardinality(Places(mbox, CastMsgs)) + 1
      BY <1>1, <2>1, <2>3, PlacesAppend, Counts
    <3>5. Cardinality(Places(mbox', CastMsgs)) \in Nat
      BY PlacesFinite DEF Typed
    <3> QED  BY <1>1, <3>3, <3>4, <3>5, Counts, MessagesAssumption DEF Room
  <2>4. CASE Policy = "unbounded"
    BY <2>4 DEF Room
  <2> QED  BY <1>7, <2>2, <2>3, <2>4 DEF Cast, Deliver
<1>8. CASE Ask(s)
  <2>1. snd'[s].pc = "asking" /\ Message(s) \in Msgs /\ Message(s) \notin CastMsgs
    <3>1. Message(s).ask
      BY <1>8 DEF Ask, Message
    <3> QED  BY <1>1, <1>8, <3>1, MessageType, AskStep DEF Typed, CastMsgs
  <2>2. CASE mbox' = mbox
    BY <1>3, <2>1, <2>2
  <2>3. CASE mbox' = Append(mbox, Message(s))
    <3>1. Cardinality(Places(mbox', CastMsgs)) <= Cardinality(Places(mbox, CastMsgs))
      BY <1>1, <2>1, <2>3, PlacesAppend, Counts
    <3>2. Measured' \subseteq Measured
      BY <1>2, <2>1 DEF Measured
    <3> QED  BY <1>1, <3>1, <3>2, FewerPlaces
  <2> QED  BY <1>8, <2>2, <2>3 DEF Ask, Deliver
<1>9. CASE AskDown(s)
  BY <1>1, <1>3, <1>9 DEF AskDown, Typed, Resting
<1>10. CASE AskTimeout(s)
  <2>1. DOMAIN mbox' = DOMAIN mbox /\ \A i \in DOMAIN mbox : mbox'[i] = Forget(mbox[i], s)
    BY <1>10 DEF AskTimeout
  <2>2. \A i \in DOMAIN mbox : mbox[i] \in CastMsgs <=> mbox'[i] \in CastMsgs
    BY <1>1, <2>1, ForgetType DEF CastMsgs
  <2>3. Places(mbox', CastMsgs) = Places(mbox, CastMsgs)
    BY <2>1, <2>2 DEF Places
  <2>4. snd'[s].pc # "measured"
    BY <1>1, <1>10 DEF AskTimeout, Typed, Resting
  <2>5. Measured' \subseteq Measured
    BY <1>2, <2>4 DEF Measured
  <2> QED  BY <1>1, <2>3, <2>5, Counts, FewerPlaces
<1> QED  BY <1>4, <1>5, <1>6, <1>7, <1>8, <1>9, <1>10 DEF Sender

LEMMA RoomOthers ==
  ASSUME MsgInv, Typed', \/ Actor \/ Die \/ Restart \/ Suspend \/ Reload \/ ReloadDies
                         \/ BindLooks \/ BindStores \/ UNCHANGED vars
  PROVE  Room'
<1>1. Typed /\ Incarnations /\ Room /\ mbox \in Seq(Msgs) /\ mbox' \in Seq(Msgs)
  BY DEF MsgInv, Typed
<1>2. ASSUME mbox' = <<>>
      PROVE  Room'
  BY <1>2, NoPlaces, MessagesAssumption, RoomNext
<1>3. CASE Receive
  <2>1. Cardinality(Places(mbox', CastMsgs)) <= Cardinality(Places(mbox, CastMsgs))
    BY <1>1, <1>3, PlacesTail, Counts DEF Receive
  <2>2. Measured' = Measured
    BY <1>1, <1>3, TailOf, LookUpType DEF Receive, Measured
  <2> QED  BY <1>1, <2>1, <2>2, FewerPlaces
<1>4. CASE Match \/ Finish \/ Store
  <2>1. UNCHANGED mbox
    BY <1>4 DEF Match, Finish, Store
  <2>2. actor'.inc = actor.inc
    <3>1. CASE Match
      <4>1. CASE actor' = [actor EXCEPT !.pc = "run", !.known = 1]
        BY <1>1, <4>1 DEF Typed, Actors
      <4>2. CASE \E m \in Msgs : actor' = LookUp(m)
        BY <1>1, <4>2, LookUpType
      <4>3. CASE actor' = Waits
        BY <1>1, <4>3, StopTypes
      <4> QED  BY <1>1, <3>1, <4>1, <4>2, <4>3, MatchAction
    <3>2. CASE Finish
      BY <1>1, <3>2, StopTypes DEF Finish
    <3>3. CASE Store
      BY <1>1, <3>3 DEF Typed, Actors, Store
    <3> QED  BY <1>4, <3>1, <3>2, <3>3
  <2>3. actor.msg.waits => actor.msg.from \in Senders
    BY DEF MsgInv, OneRequest, Awaited
  <2>4. \/ UNCHANGED snd
        \/ actor.msg.waits /\ snd' = [snd EXCEPT ![actor.msg.from].gap = TRUE]
        \/ actor.msg.waits /\ snd' = [snd EXCEPT ![actor.msg.from] = Resting]
    BY <1>4 DEF Match, Finish, Store
  <2>5. \A t \in Senders : snd'[t].pc = "measured" => snd[t].pc = "measured" /\ snd'[t].inc = snd[t].inc
    <3>1. CASE UNCHANGED snd
      BY <3>1
    <3>2. ASSUME NEW t \in Senders, snd' = [snd EXCEPT ![t].gap = TRUE]
          PROVE  \A u \in Senders : snd'[u].pc = snd[u].pc /\ snd'[u].inc = snd[u].inc
      BY <1>1, <3>2 DEF Typed, SenderStates
    <3>3. ASSUME NEW t \in Senders, snd' = [snd EXCEPT ![t] = Resting]
          PROVE  \A u \in Senders : snd'[u].pc = "measured" => snd'[u] = snd[u]
      BY <1>1, <3>3 DEF Typed, Resting
    <3> QED  BY <2>3, <2>4, <3>1, <3>2, <3>3
  <2>6. Measured' \subseteq Measured
    BY <2>2, <2>5 DEF Measured
  <2> QED  BY <1>1, <2>1, <2>6, Counts, FewerPlaces
<1>5. CASE Die \/ ReloadDies
  BY <1>2, <1>5 DEF Die, ReloadDies
<1>6. CASE Restart
  BY <1>1, <1>2, <1>6 DEF Restart, Incarnations
<1>7. CASE Suspend \/ Reload \/ BindLooks \/ BindStores \/ UNCHANGED vars
  <2>1. UNCHANGED <<actor, mbox, snd>>
    BY <1>7 DEF Suspend, Reload, Load, Abort, Erase, Resume, BindLooks, BindStores, vars
  <2> QED  BY <1>1, <2>1 DEF Room, Measured
<1> QED  BY <1>3, <1>4, <1>5, <1>6, <1>7 DEF Actor

-----------------------------------------------------------------------------
(* The invariant, and what follows from it. *)

LEMMA MsgInvInit ==
  ASSUME Init
  PROVE  MsgInv
<1> USE RestTypes
<1>1. Typed
  <2>1. actor \in Actors
    BY MessagesAssumption DEF Init, Actors
  <2>2. snd \in [Senders -> SenderStates] /\ mbox \in Seq(Msgs)
    BY DEF Init
  <2>3. spent \in [sends : Nat, deaths : 0..MaxDeaths]
    BY MessagesAssumption DEF Init
  <2> QED  BY <2>1, <2>2, <2>3 DEF Init, Typed
<1>2. Incarnations /\ OneRequest /\ CacheInv
  <2>1. actor.msg = NoMsg /\ actor.pc = "wait" /\ actor.inc = 1 /\ mbox = <<>> /\ spent.deaths = 0
        /\ \A s \in Senders : snd[s].inc = 0
    BY DEF Init, Resting
  <2> QED  BY <2>1 DEF Init, Incarnations, Alive, OneRequest, Awaited, CacheInv
<1>3. Room
  <2>1. Cardinality(Places(mbox, CastMsgs)) = 0
    BY NoPlaces DEF Init
  <2> QED  BY <1>1, <2>1, Counts, MessagesAssumption DEF Room
<1> QED  BY <1>1, <1>2, <1>3 DEF MsgInv

LEMMA MsgInvNext ==
  ASSUME MsgInv, [Next]_vars
  PROVE  MsgInv'
<1>1. CASE \E s \in Senders : Sender(s)
  BY <1>1, TypedSender, IncarnationsSender, OneRequestSender, CacheSender, RoomSender DEF MsgInv
<1>2. CASE \/ Actor \/ Die \/ Restart \/ Suspend \/ Reload \/ ReloadDies
           \/ BindLooks \/ BindStores \/ UNCHANGED vars
  BY <1>2, TypedOthers, IncarnationsOthers, OneRequestOthers, CacheOthers, RoomOthers DEF MsgInv
<1> QED  BY <1>1, <1>2 DEF Next

LEMMA MsgInvAlways == Spec => []MsgInv
<1>1. Init => MsgInv
  BY MsgInvInit
<1>2. MsgInv /\ [Next]_vars => MsgInv'
  BY MsgInvNext
<1> QED  BY <1>1, <1>2, PTL DEF Spec

\* At most one of the messages that wait comes from s.
LEMMA AwaitedOnce ==
  ASSUME MsgInv, NEW s \in Senders
  PROVE  Cardinality({i \in DOMAIN mbox : mbox[i].from = s /\ mbox[i].waits})
           + (IF actor.msg.from = s /\ actor.msg.waits THEN 1 ELSE 0)
             <= (IF snd[s].pc = "asking" THEN 1 ELSE 0)
<1> DEFINE W == {i \in DOMAIN mbox : mbox[i].from = s /\ mbox[i].waits}
<1> DEFINE Handled == actor.msg.from = s /\ actor.msg.waits
<1>1. OneRequest
  BY DEF MsgInv
<1>2. Handled => snd[s].pc = "asking" /\ W = {}
  BY <1>1 DEF OneRequest, Awaited
<1>3. W = {} \/ ((\E i \in W : W = {i}) /\ snd[s].pc = "asking")
  BY <1>1 DEF OneRequest, Awaited
<1>4. (W = {} => Cardinality(W) = 0) /\ ((\E i \in W : W = {i}) => Cardinality(W) = 1)
  <2> HIDE DEF W
  <2> QED  BY FS_EmptySet, FS_Singleton
<1>5. Cardinality(W) + (IF Handled THEN 1 ELSE 0) <= (IF snd[s].pc = "asking" THEN 1 ELSE 0)
  <2> HIDE DEF W, Handled
  <2> QED  BY <1>2, <1>3, <1>4
<1> QED  BY <1>5

\* The variables keep their domains and an answer is awaited in one place only, in the
\* mailbox of the actor that was asked or in the handler it runs, whatever times out,
\* dies or is started again (try_ask, gen_server:call).
THEOREM MessagesTypeCorrect == Spec => []TypeOK
<1>1. MsgInv => TypeOK
  <2> SUFFICES ASSUME MsgInv PROVE TypeOK
    OBVIOUS
  <2>1. Typed
    BY DEF MsgInv
  <2>2. \A i \in DOMAIN mbox : mbox[i] \in Msgs
    BY <2>1 DEF Typed
  <2> QED  BY <2>1, <2>2, AwaitedOnce DEF Typed, TypeOK, Actors, SenderStates
<1> QED  BY <1>1, MsgInvAlways, PTL

\* Every record a handler gets is of the version that is loaded, however many reloads it
\* waited through, unless a process outside the cohort stored versions late
\* (migrate_message, cached_record_versions, invalidate_record_versions).
THEOREM HandlersCurrent == Spec => []HandlersSeeCurrent
<1>1. MsgInv => HandlersSeeCurrent
  BY DEF MsgInv, CacheInv, HandlersSeeCurrent
<1> QED  BY <1>1, MsgInvAlways, PTL

\* A message is dropped in front of its handler only when the loaded code has no edge
\* from its version (the badtag branch of migrate_message).
THEOREM DropsAreGaps == Spec => OnlyGapsDropped
<1> DEFINE Drop == actor.pc = "match" /\ actor'.pc = "wait" /\ ~late
                     => actor.msg.tag # code /\ <<actor.msg.tag, code>> \notin Edges
<1>1. MsgInv /\ [Next]_vars => [Drop]_vars
  <2> SUFFICES ASSUME MsgInv, Next, actor.pc = "match", actor'.pc = "wait", ~late
               PROVE  actor.msg.tag # code /\ <<actor.msg.tag, code>> \notin Edges
    BY DEF vars
  <2>1. Typed /\ CacheInv /\ actor.known = code /\ phase = "idle"
    BY DEF MsgInv, CacheInv
  <2>2. CASE \E s \in Senders : Sender(s)
    BY <2>1, <2>2, SenderEffect
  <2>3. CASE Match
    <3>1. CASE actor' = [actor EXCEPT !.pc = "run", !.known = 1]
      BY <2>1, <3>1 DEF Typed, Actors
    <3>2. CASE \E m \in Msgs : actor' = LookUp(m)
      BY <2>1, <3>2, LookUpType
    <3> QED  BY <2>1, <2>3, <3>1, <3>2, MatchAction
  <2>4. CASE Receive \/ Store \/ Finish \/ Restart \/ Suspend \/ ReloadDies
    BY <2>1, <2>4 DEF Receive, Store, Finish, Restart, Alive, Suspend, ReloadDies
  <2>5. CASE Die
    BY <2>1, <2>5, StopTypes DEF Die
  <2>6. CASE Reload \/ BindLooks \/ BindStores
    BY <2>6 DEF Reload, Load, Abort, Erase, Resume, BindLooks, BindStores
  <2> QED  BY <2>2, <2>3, <2>4, <2>5, <2>6 DEF Next, Actor
<1>2. Spec => [][Drop]_vars
  BY <1>1, MsgInvAlways, PTL DEF Spec
<1> QED  BY <1>2 DEF OnlyGapsDropped

\* A bounded mailbox exceeds its bound by less than the number of senders: each of them
\* may have measured before the others cast (enqueue, in send_op and send_fn).
THEOREM MailboxSoftlyBounded == Spec => []SoftBound
<1>1. MsgInv => SoftBound
  <2> SUFFICES ASSUME MsgInv PROVE SoftBound
    OBVIOUS
  <2>1. Typed /\ Room
    BY DEF MsgInv
  <2>2. {i \in DOMAIN mbox : ~mbox[i].ask} = Places(mbox, CastMsgs)
    BY <2>1 DEF Typed, Places, CastMsgs
  <2>3. Policy # "unbounded" => Cardinality(Places(mbox, CastMsgs)) <= Cap + Cardinality(Senders) - 1
    BY <2>1, Counts, MessagesAssumption DEF Room
  <2> QED  BY <2>2, <2>3 DEF SoftBound
<1> QED  BY <1>1, MsgInvAlways, PTL
=============================================================================
