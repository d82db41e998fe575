------------------------------- MODULE Messages -------------------------------
(* The messages of one actor across reloads: the sends and asks of ridge_rt with *)
(* their mailbox policies, the receive path, which migrates a record built by    *)
(* older code before a handler sees it, and the cache of record versions it      *)
(* trusts.  HotReload says when code is replaced; here a reload suspends the     *)
(* actor between two messages, loads, erases the cache and resumes.              *)
EXTENDS Naturals, Sequences, FiniteSets

CONSTANTS
  Senders,           \* processes that send; none of them is an actor of the cohort
  Askers,            \* those that also ask
  Policy,            \* the actor's mailbox: "unbounded", "drop_newest" or "error"
  Cap,               \* its bound
  Edges,             \* <<v, w>>: version w of the module migrates records of version v
  None,
  MaxVersion,        \* bound: versions of the module that declares the record
  MaxSends,          \* bound: messages that are built
  MaxDeaths          \* bound: times the actor dies

ASSUME MessagesAssumption ==
  /\ IsFiniteSet(Senders) /\ Askers \subseteq Senders
  /\ Policy \in {"unbounded", "drop_newest", "error"}
  /\ Cap \in Nat \ {0} /\ MaxVersion \in Nat \ {0}
  /\ MaxSends \in Nat /\ MaxDeaths \in Nat
  /\ Edges \subseteq {e \in (1..MaxVersion) \X (1..MaxVersion) : e[1] < e[2]}
  /\ None \notin Nat /\ None \notin Senders

VARIABLES
  code,              \* the version that is loaded
  cache,             \* persistent_term {ridge_rt_rec_vsn, Mod}
  phase,             \* the reload: "idle", "suspended", "loaded", "erased" or "fenced"
  actor,             \* the child: its incarnation, where it is, and what it handles
  mbox,              \* the mailbox of that incarnation
  snd,               \* each sender
  bind,              \* a process outside the cohort that looks the versions up
  late,              \* history: that process stored versions older than the code
  spent              \* messages built and deaths

vars == <<code, cache, phase, actor, mbox, snd, bind, late, spent>>

Versions == 1..MaxVersion
NoMsg == [from |-> None, tag |-> 1, ask |-> FALSE, waits |-> FALSE]
Resting == [pc |-> "idle", inc |-> 0, tag |-> 1, ask |-> FALSE, gap |-> FALSE]

Init ==
  /\ code = 1 /\ cache = None /\ phase = "idle"
  /\ actor = [inc |-> 1, pc |-> "wait", msg |-> NoMsg, known |-> 1]
  /\ mbox = <<>>
  /\ snd = [s \in Senders |-> Resting]
  /\ bind = None
  /\ late = FALSE
  /\ spent = [sends |-> 0, deaths |-> 0]

Alive == actor.pc # "dead"

-----------------------------------------------------------------------------
(* The sender's side: send_op, send_fn and try_ask.                              *)

\* resolve_handle_pid, with the payload built before: a send to an actor that is
\* gone does nothing, an ask of one reads Noproc at once.  A supervised handle finds
\* the incarnation of the moment.
Resolve(s) ==
  /\ snd[s].pc = "idle"
  /\ spent.sends < MaxSends /\ spent' = [spent EXCEPT !.sends = @ + 1]
  /\ IF Alive
       THEN \E ask \in BOOLEAN, tag \in 1..code :
              /\ ask => s \in Askers
              /\ snd' = [snd EXCEPT ![s] = [pc |-> "resolved", inc |-> actor.inc, tag |-> tag,
                                            ask |-> ask, gap |-> FALSE]]
       ELSE UNCHANGED snd
  /\ UNCHANGED <<code, cache, phase, actor, mbox, bind, late>>

\* Mutant: a mailbox at its bound is not yet full.
FullLax(n) == n > Cap

Full(n) == n >= Cap

Reaches(s) == Alive /\ snd[s].inc = actor.inc

\* process_info(Pid, message_queue_len), before the cast.  What does not fit is dropped,
\* or in an error-policy mailbox kills the sender of a send_op (send_fn tells it).
Measure(s) ==
  /\ snd[s].pc = "resolved" /\ ~snd[s].ask
  /\ Policy # "unbounded"
  /\ snd' = [snd EXCEPT ![s] =
               IF Reaches(s) /\ ~Full(Len(mbox)) THEN [@ EXCEPT !.pc = "measured"]
               ELSE Resting]
  /\ UNCHANGED <<code, cache, phase, actor, mbox, bind, late, spent>>

MailboxFull(s) ==
  /\ snd[s].pc = "resolved" /\ ~snd[s].ask
  /\ Policy = "error" /\ Reaches(s) /\ Full(Len(mbox))
  /\ snd' = [snd EXCEPT ![s] = [Resting EXCEPT !.pc = "dead"]]
  /\ UNCHANGED <<code, cache, phase, actor, mbox, bind, late, spent>>

Message(s) == [from |-> s, tag |-> snd[s].tag, ask |-> snd[s].ask, waits |-> snd[s].ask]

\* What reaches a process that is gone is lost.
Deliver(s) == mbox' = IF Reaches(s) THEN Append(mbox, Message(s)) ELSE mbox

Cast(s) ==
  /\ ~snd[s].ask
  /\ snd[s].pc = IF Policy = "unbounded" THEN "resolved" ELSE "measured"
  /\ Deliver(s)
  /\ snd' = [snd EXCEPT ![s] = Resting]
  /\ UNCHANGED <<code, cache, phase, actor, bind, late, spent>>

\* gen_server:call; the policy does not apply.
Ask(s) ==
  /\ snd[s].pc = "resolved" /\ snd[s].ask
  /\ Deliver(s)
  /\ snd' = [snd EXCEPT ![s].pc = "asking", ![s].tag = 1]
  /\ UNCHANGED <<code, cache, phase, actor, bind, late, spent>>

\* Mutant: the caller looks at the child of the moment.
AskDownDeaf(s) ==
  /\ snd[s].pc = "asking" /\ ~Alive
  /\ snd' = [snd EXCEPT ![s] = Resting]
  /\ UNCHANGED <<code, cache, phase, actor, mbox, bind, late, spent>>

\* The monitor of the call: the process is gone, also when another took its place.
AskDown(s) ==
  /\ snd[s].pc = "asking" /\ ~Reaches(s)
  /\ snd' = [snd EXCEPT ![s] = Resting]
  /\ UNCHANGED <<code, cache, phase, actor, mbox, bind, late, spent>>

\* Mutant: the answer may still be delivered, to whatever the caller asks next.
AskTimeoutKept(s) ==
  /\ snd[s].pc = "asking"
  /\ snd' = [snd EXCEPT ![s] = Resting]
  /\ UNCHANGED <<code, cache, phase, actor, mbox, bind, late, spent>>

\* The deadline of an ask that has one.  The request stays where it is, and its answer
\* will be thrown away.
Forget(m, s) == IF m.from = s THEN [m EXCEPT !.waits = FALSE] ELSE m

AskTimeout(s) ==
  /\ snd[s].pc = "asking"
  /\ snd' = [snd EXCEPT ![s] = Resting]
  /\ mbox' = [i \in DOMAIN mbox |-> Forget(mbox[i], s)]
  /\ actor' = [actor EXCEPT !.msg = Forget(@, s)]
  /\ UNCHANGED <<code, cache, phase, bind, late, spent>>

-----------------------------------------------------------------------------
(* The actor: migrate_message in front of every handler.                         *)

\* cached_record_versions: what is stored, or else what the loaded code says.
LookUp(m) ==
  IF cache # None THEN [actor EXCEPT !.pc = "match", !.msg = m, !.known = cache]
  ELSE [actor EXCEPT !.pc = "store", !.msg = m, !.known = code]

Waits == [actor EXCEPT !.pc = "wait", !.msg = NoMsg, !.known = 1]
Dead == [Waits EXCEPT !.pc = "dead"]

\* Mutant: the actor goes on while it is suspended.
ReceiveSuspended ==
  /\ actor.pc = "wait" /\ mbox # <<>>
  /\ actor' = LookUp(Head(mbox))
  /\ mbox' = Tail(mbox)
  /\ UNCHANGED <<code, cache, phase, snd, bind, late, spent>>

Receive ==
  /\ actor.pc = "wait" /\ phase = "idle" /\ mbox # <<>>
  /\ actor' = LookUp(Head(mbox))
  /\ mbox' = Tail(mbox)
  /\ UNCHANGED <<code, cache, phase, snd, bind, late, spent>>

Store ==
  /\ actor.pc = "store"
  /\ cache' = actor.known
  /\ actor' = [actor EXCEPT !.pc = "match"]
  /\ UNCHANGED <<code, phase, mbox, snd, bind, late, spent>>

\* A current record goes to its handler; an older one through the edge of the loaded
\* code, and is looked at again; one without an edge is dropped, and whoever asked
\* gets no answer.
Match ==
  LET m == actor.msg IN
  /\ actor.pc = "match"
  /\ \/ /\ m.tag = actor.known
        /\ actor' = [actor EXCEPT !.pc = "run", !.known = 1]
        /\ UNCHANGED snd
     \/ /\ m.tag # actor.known /\ <<m.tag, code>> \in Edges
        /\ actor' = LookUp([m EXCEPT !.tag = code])
        /\ UNCHANGED snd
     \/ /\ m.tag # actor.known /\ <<m.tag, code>> \notin Edges
        /\ actor' = Waits
        /\ snd' = IF m.waits THEN [snd EXCEPT ![m.from].gap = TRUE] ELSE snd
  /\ UNCHANGED <<code, cache, phase, mbox, bind, late, spent>>

\* The handler returns, and answers an ask.
Finish ==
  /\ actor.pc = "run"
  /\ actor' = Waits
  /\ snd' = IF actor.msg.waits THEN [snd EXCEPT ![actor.msg.from] = Resting] ELSE snd
  /\ UNCHANGED <<code, cache, phase, mbox, bind, late, spent>>

\* A handler raises, or somebody kills the process, with all that waits in its mailbox.
Die ==
  /\ Alive
  /\ spent.deaths < MaxDeaths /\ spent' = [spent EXCEPT !.deaths = @ + 1]
  /\ actor' = Dead /\ mbox' = <<>>
  /\ UNCHANGED <<code, cache, phase, snd, bind, late>>

\* The supervisor starts the child again; actor_startup lets it pass when no reload
\* is under way and no fence is up.
Restart ==
  /\ ~Alive /\ phase = "idle"
  /\ actor' = [actor EXCEPT !.inc = @ + 1, !.pc = "wait"]
  /\ UNCHANGED <<code, cache, phase, mbox, snd, bind, late, spent>>

-----------------------------------------------------------------------------
(* A reload, as far as the actor and the cache see it.                           *)

\* sys:suspend takes effect between two messages.
Suspend ==
  /\ phase = "idle" /\ actor.pc \in {"wait", "dead"} /\ code < MaxVersion
  /\ phase' = "suspended"
  /\ UNCHANGED <<code, cache, actor, mbox, snd, bind, late, spent>>

Abort ==
  /\ phase = "suspended"
  /\ phase' = "idle"
  /\ UNCHANGED <<code, cache, actor, mbox, snd, bind, late, spent>>

Load ==
  /\ phase = "suspended"
  /\ phase' = "loaded" /\ code' = code + 1
  /\ UNCHANGED <<cache, actor, mbox, snd, bind, late, spent>>

\* Mutant: the entry is left alone.
EraseNone ==
  /\ phase = "loaded"
  /\ phase' = "erased" /\ UNCHANGED <<cache, late>>
  /\ UNCHANGED <<code, actor, mbox, snd, bind, spent>>

\* invalidate_record_versions.
Erase ==
  /\ phase = "loaded"
  /\ phase' = "erased" /\ cache' = None /\ late' = FALSE
  /\ UNCHANGED <<code, actor, mbox, snd, bind, spent>>

Resume ==
  /\ phase = "erased"
  /\ phase' = "idle"
  /\ UNCHANGED <<code, cache, actor, mbox, snd, bind, late, spent>>

\* The applicator dies before the owner knows that the code is in: the cohort is
\* stopped, and the fence stays.
ReloadDies ==
  /\ phase \in {"loaded", "erased"}
  /\ spent.deaths < MaxDeaths /\ spent' = [spent EXCEPT !.deaths = @ + 1]
  /\ phase' = "fenced"
  /\ actor' = Dead /\ mbox' = <<>>
  /\ UNCHANGED <<code, cache, snd, bind, late>>

-----------------------------------------------------------------------------
(* A process that is no actor, and so is not suspended, migrates a collection.   *)

BindLooks ==
  /\ bind = None /\ cache = None
  /\ bind' = code
  /\ UNCHANGED <<code, cache, phase, actor, mbox, snd, late, spent>>

BindStores ==
  /\ bind # None
  /\ cache' = bind /\ bind' = None
  /\ late' = (late \/ bind # code)
  /\ UNCHANGED <<code, phase, actor, mbox, snd, spent>>

-----------------------------------------------------------------------------
Sender(s) ==
  Resolve(s) \/ Measure(s) \/ MailboxFull(s) \/ Cast(s) \/ Ask(s) \/ AskDown(s) \/ AskTimeout(s)

Actor == Receive \/ Store \/ Match \/ Finish
Reload == Load \/ Abort \/ Erase \/ Resume

Next ==
  \/ \E s \in Senders : Sender(s)
  \/ Actor \/ Die \/ Restart
  \/ Suspend \/ Reload \/ ReloadDies
  \/ BindLooks \/ BindStores

Spec == Init /\ [][Next]_vars

\* Handlers return, a reload goes on or gives up, a call's monitor fires; an ask need not have a deadline.  A
\* suspend request waits its turn in the mailbox, so it cannot overtake a message for
\* ever.  Nobody has to send, to restart the actor or to reload.
FairSpec ==
  /\ Spec
  /\ SF_vars(Receive) /\ WF_vars(Store \/ Match \/ Finish) /\ WF_vars(Reload)
  /\ \A s \in Askers : WF_vars(AskDown(s))

-----------------------------------------------------------------------------
(* Properties.                                                                   *)

Msgs == [from : Senders \union {None}, tag : Versions, ask : BOOLEAN, waits : BOOLEAN]

\* Where each process can be; an ask whose answer is awaited is in one place only.
TypeOK ==
  /\ code \in Versions /\ cache \in Versions \union {None} /\ bind \in Versions \union {None}
  /\ phase \in {"idle", "suspended", "loaded", "erased", "fenced"}
  /\ late \in BOOLEAN
  /\ actor \in [inc : 1..(MaxDeaths + 1), pc : {"wait", "store", "match", "run", "dead"},
                msg : Msgs, known : Versions]
  /\ \A i \in DOMAIN mbox : mbox[i] \in Msgs
  /\ snd \in [Senders -> [pc : {"idle", "resolved", "measured", "asking", "dead"},
                          inc : 0..(MaxDeaths + 1), tag : Versions,
                          ask : BOOLEAN, gap : BOOLEAN]]
  /\ \A s \in Senders :
       Cardinality({i \in DOMAIN mbox : mbox[i].from = s /\ mbox[i].waits})
         + (IF actor.msg.from = s /\ actor.msg.waits THEN 1 ELSE 0)
           <= (IF snd[s].pc = "asking" THEN 1 ELSE 0)

\* "stale-tagged values are migrated through the chain before any handler sees them":
\* a handler gets records of the code it runs, also a message that was queued across a
\* reload or was sent by a process that still runs old code.  The one way around it is
\* a process outside the cohort that read the versions before a load and stores them
\* after the entry was erased.
HandlersSeeCurrent == actor.pc = "run" /\ ~late => actor.msg.tag = code

\* A record is dropped only for want of an edge, never one of the current shape and
\* never one that the loaded code can migrate; again unless versions were stored late.
OnlyGapsDropped ==
  [][actor.pc = "match" /\ actor'.pc = "wait" /\ ~late
       => actor.msg.tag # code /\ <<actor.msg.tag, code>> \notin Edges]_vars

\* The bound is soft, since a sender measures and then casts: no more casts wait than
\* the bound and one for every sender that measured before the last of them arrived.
SoftBound ==
  Policy # "unbounded" =>
    Cardinality({i \in DOMAIN mbox : ~mbox[i].ask}) <= Cap + Cardinality(Senders) - 1

\* An ask ends without the help of a deadline, by its answer or by the death of the
\* actor it went to (whatever took its place).  The one that waits for its deadline, or
\* with `timeout never` for ever, is the one whose request was dropped for want of an edge.
AsksEnd ==
  \A s \in Askers :
    snd[s].pc = "asking" ~> snd[s].pc # "asking" \/ snd[s].gap
===============================================================================
