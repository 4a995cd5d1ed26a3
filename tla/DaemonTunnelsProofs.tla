------------------------ MODULE DaemonTunnelsProofs ------------------------
(***************************************************************************)
(* Proofs about DaemonTunnels: its properties hold for any number of       *)
(* requests, sessions, tunnels and restarts.                               *)
(*                                                                         *)
(* The invariant has a part for each of them.                              *)
(*  - Types: who may ask what, and where.                                  *)
(*  - Answers: a tunnel somebody has been given is above every id that     *)
(*    the daemon speaks of, so that installing it disturbs nothing; it is  *)
(*    routed.  ServedWhileUp follows.                                      *)
(*  - Faithful: tunnels are announced again as they are.  UrlKept follows. *)
(*  - StaleInv: what the present session has yet to announce.  Reannounced *)
(*    follows.                                                             *)
(*  - Named, FoundInv, ListedInv: a specification that is back after a     *)
(*    close call has dropped it has a tunnel that nobody is about to       *)
(*    delete.  ClosedOrListed follows.                                     *)
(*  - RestoreInv: what the present session has yet to open.  Restored      *)
(*    follows.                                                             *)
(* First comes what every action does, field by field (the lemmas named    *)
(* ...Effect), then four groups of facts about every step (StepFacts,      *)
(* AnnounceFacts, CloserFacts, SpecFacts) from which each part is kept.    *)
(***************************************************************************)
EXTENDS DaemonTunnels, TLAPS

-----------------------------------------------------------------------------
(* Types.                                                                  *)
Subs == Hosts \cup {Random}
SpecTypes == [local : Locals, sub : Subs]
Asks == [op : {"none", "open", "close"}, local : Locals \cup {Random}, sub : Subs,
         persist : BOOLEAN, id : 0..MaxTunnels]
Acks == [id : 0..MaxTunnels, host : Hosts \cup {0}]
Calls == [pc : {"idle", "found", "forgot", "wait", "answered", "returned"}, on : 0..MaxSessions,
          ask : Asks, ack : Acks]
Entries == [old : 1..MaxTunnels, local : Locals, sub : Hosts, persist : BOOLEAN]
Restores == [pc : {"off", "sleep", "run", "done"}, live : SUBSET Entries,
             specs : SUBSET SpecTypes, next : SUBSET SpecTypes, announced : SUBSET Locals, ok : BOOLEAN]
Messages == [who : Requesters, ask : Asks]

(* What the messages to the gateway ask to close, a closer asked to close. *)
Sound == {m \in Messages : m.ask.op = "close" => Closing(m.ask.id)}

NumberTypes ==
    /\ up \in BOOLEAN /\ hello \in BOOLEAN /\ n \in 0..MaxSessions /\ restarts \in 0..MaxRestarts
    /\ given \in 0..MaxTunnels
    /\ served \subseteq Sessions
    /\ up \/ hello => n > 0
    /\ ~(up /\ hello)

TunnelTypes ==
    /\ DOMAIN tunnels \subseteq 1..given
    /\ \A id \in DOMAIN tunnels : tunnels[id] \in TunnelOf /\ tunnels[id].on <= n

BoundTypes ==
    /\ bound \subseteq [id : 1..MaxTunnels, host : Hosts, sess : Sessions]
    /\ \A l \in bound : l.id <= given
    /\ \A k, l \in bound : k.host = l.host => k = l

StateTypes == TunnelTypes /\ persistent \subseteq SpecTypes /\ BoundTypes

(* What c, a call of p, may be: openers and restorations open, closers     *)
(* close, and what a closer asked stays for ever, as it makes one request. *)
GoodCall(p, c) ==
    /\ c.ask.id <= given /\ c.ack.id <= given /\ c.on <= n
    /\ c.pc \in {"wait", "answered"} => c.ask.op # "none" /\ c.on > 0
    /\ c.pc = "answered" /\ c.ask.op = "open" /\ c.ack.id # 0 => c.ack.host \in Hosts
    /\ c.pc \in {"found", "forgot"} => c.ask.op = "close"
    /\ c.ask.op = "open" => c.ask.local \in Locals
    /\ p \notin Closers => c.ask.op # "close"
    /\ p \in Closers => c.ask.op # "open" /\ (c.ask.op = "close" <=> c # Idle)
    /\ p \in Openers => c.ask.id = 0
    /\ p \in Sessions /\ c # Idle => c.pc \in {"wait", "answered"} /\ c.on >= p

CallTypes ==
    /\ call \in [Requesters -> Calls]
    /\ \A p \in Requesters : GoodCall(p, call[p])

(* What restoreTunnels of session s may be at.                             *)
GoodRestore(s) ==
    /\ \A e \in restore[s].live : e.old <= given
    /\ restore[s].pc # "off" => s <= n /\ (hello => s < n)
    /\ restore[s].pc \in {"off", "sleep"} => restore[s].announced = {}
    /\ restore[s].pc # "run" => /\ restore[s].live = {} /\ restore[s].specs = {} /\ restore[s].next = {}
                                /\ call[s] = Idle
    /\ restore[s].next # {} => restore[s].live = {} /\ call[s] = Idle
    /\ \A x, y \in restore[s].next : x = y

RestoreTypes ==
    /\ restore \in [Sessions -> Restores]
    /\ \A s \in Sessions : GoodRestore(s)

MessageTypes == msgs \in [Sessions -> Seq(Sound)]

Types == NumberTypes /\ StateTypes /\ CallTypes /\ RestoreTypes /\ MessageTypes

(* What the assumption says of the constants, their labels and names.       *)
LEMMA Constants ==
    /\ MaxSessions \in Nat /\ MaxTunnels \in Nat /\ MaxRestarts \in Nat
    /\ Random \notin Hosts /\ Random \notin Nat
    /\ 1..MaxTunnels \subseteq Hosts
    /\ \A p \in Openers : /\ Wanted[p].local \in Locals /\ Wanted[p].sub \in Subs
                          /\ Wanted[p].persist \in BOOLEAN
    /\ \A f \in Files : f \subseteq SpecTypes
    /\ Requesters = Openers \cup Closers \cup Sessions
    /\ \A p \in Closers : p \notin Openers /\ p \notin Sessions
    /\ \A p \in Openers : p \notin Sessions
<1> USE TunnelsAssumption
<1>1. Random \notin Hosts
  BY DEF Hosts, Names
<1>2. \A spec \in Specs : spec.local \in Locals /\ spec.sub \in Subs
  BY DEF Locals, Subs, Hosts, Names
<1>3. \A p \in Openers : Wanted[p].local \in Locals /\ Wanted[p].sub \in Subs
  <2> SUFFICES ASSUME NEW p \in Openers
                 PROVE  Wanted[p].local \in Locals /\ Wanted[p].sub \in Subs
    OBVIOUS
  <2>2. SpecFor(Wanted[p]) \in Specs
    BY DEF Specs
  <2>3. SpecFor(Wanted[p]).local = Wanted[p].local /\ SpecFor(Wanted[p]).sub = Wanted[p].sub
    BY DEF SpecFor
  <2> QED
    BY <1>2, <2>2, <2>3
<1>4. \A f \in Files : f \subseteq SpecTypes
  <2> SUFFICES ASSUME NEW f \in Files, NEW spec \in f PROVE spec \in SpecTypes
    OBVIOUS
  <2>2. spec \in Specs
    BY DEF Specs
  <2>3. spec = [local |-> spec.local, sub |-> spec.sub]
    OBVIOUS
  <2> QED
    BY <1>2, <2>2, <2>3 DEF SpecTypes
<1>5. 1..MaxTunnels \subseteq Hosts
  BY DEF Hosts
<1>6. \A s \in Sessions : s \in Nat
  BY DEF Sessions
<1> QED
  BY <1>1, <1>3, <1>4, <1>5, <1>6 DEF Requesters

(* The constants of the calls and the restorations are of their types.      *)
LEMMA IdleFields ==
    /\ Idle \in Calls /\ NoAsk \in Asks /\ NoAck \in Acks
    /\ Idle.pc = "idle" /\ Idle.on = 0 /\ Idle.ask = NoAsk /\ Idle.ack = NoAck
    /\ NoAsk.op = "none" /\ NoAsk.id = 0 /\ NoAck.id = 0 /\ NoAsk.local = Random
    /\ Off \in Restores /\ Off.pc = "off" /\ Off.live = {} /\ Off.specs = {} /\ Off.next = {}
    /\ Off.announced = {} /\ Off.ok = TRUE
<1> USE Constants
<1>1. NoAsk \in Asks
  BY DEF NoAsk, Asks, Subs
<1>2. NoAck \in Acks
  BY DEF NoAck, Acks
<1>3. Off \in Restores
  BY DEF Off, Restores
<1>4. Idle \in Calls
  BY <1>1, <1>2 DEF Idle, Calls
<1> QED
  BY <1>1, <1>2, <1>3, <1>4 DEF NoAsk, NoAck, Idle, Off

(* What is left of a finished request. *)
LEMMA FinishedFields ==
    ASSUME CallTypes, NEW p \in Requesters
    PROVE  /\ Finished(p) \in Calls
           /\ p \in Sessions => Finished(p) = Idle
           /\ p \notin Sessions => Finished(p).pc = "returned"
           /\ p \in Closers => Finished(p).ask = call[p].ask
           /\ p \notin Closers => Finished(p).ask = NoAsk
           /\ Finished(p).ack = NoAck
           /\ Finished(p).on = 0
<1> USE Constants, IdleFields
<1>1. CASE p \in Sessions
  BY <1>1 DEF Finished
<1>2. CASE p \notin Sessions
  <2>1. PICK ask \in Asks : ask = IF p \in Closers THEN call[p].ask ELSE NoAsk
    BY DEF CallTypes, Calls
  <2>2. Finished(p) = [Idle EXCEPT !.pc = "returned", !.ask = ask]
    BY <1>2, <2>1 DEF Finished
  <2>3. Finished(p) = [pc |-> "returned", on |-> 0, ask |-> ask, ack |-> NoAck]
    BY <2>2 DEF Idle
  <2>4. [pc |-> "returned", on |-> 0, ask |-> ask, ack |-> NoAck] \in Calls
    BY <2>1 DEF Calls
  <2> QED
    BY <1>2, <2>1, <2>3, <2>4
<1> QED
  BY <1>1, <1>2

(* A request to close is never taken back. *)
ClosersKept == \A p \in Closers : call[p].ask.op = "close" => call'[p].ask = call[p].ask

(* No step makes what a message asks to close something nobody asked to.   *)
LEMMA SoundStable ==
    ASSUME CallTypes, ClosersKept
    PROVE  Sound \subseteq Sound' /\ \A id : Closing(id) => Closing(id)'
BY DEF Sound, Closing, ClosersKept, Messages

(* Sequences over a larger set.                                             *)
LEMMA SeqMono ==
    ASSUME NEW S, NEW T, S \subseteq T
    PROVE  Seq(S) \subseteq Seq(T)
OBVIOUS

(* The messages do not change.                                             *)
LEMMA MessagesFrame ==
    ASSUME CallTypes, MessageTypes, ClosersKept, msgs' = msgs
    PROVE  MessageTypes'
BY SoundStable, SeqMono DEF MessageTypes

(* The requests do not change. *)
LEMMA CallFrame ==
    ASSUME CallTypes, NumberTypes, call' = call,
           given' \in Nat, given <= given', n' \in Nat, n <= n'
    PROVE  CallTypes' /\ ClosersKept
<1>2. ASSUME NEW q \in Requesters PROVE GoodCall(q, call[q])'
  <2>1. GoodCall(q, call[q])
    BY DEF CallTypes
  <2>2. call[q].ask.id \in Nat /\ call[q].ack.id \in Nat /\ call[q].on \in Nat
    BY Constants DEF CallTypes, Calls, Asks, Acks
  <2> QED
    BY <2>1, <2>2 DEF GoodCall, NumberTypes
<1> QED
  BY <1>2 DEF CallTypes, ClosersKept

(* Only the call of p changes. *)
OnlyCall(p) == /\ call' \in [Requesters -> Calls]
               /\ \A q \in Requesters \ {p} : call'[q] = call[q]

(* An assignment to call[p].                                                *)
LEMMA OnlyCallEffect ==
    ASSUME CallTypes, NEW p \in Requesters, NEW c \in Calls, call' = [call EXCEPT ![p] = c]
    PROVE  OnlyCall(p) /\ call'[p] = c
BY DEF OnlyCall, CallTypes

(* One request changes, to a call that may be. *)
LEMMA CallUpdate ==
    ASSUME CallTypes, NumberTypes, NEW p \in Requesters, OnlyCall(p),
           given' \in Nat, given <= given', n' \in Nat, n <= n',
           GoodCall(p, call[p])',
           p \in Closers /\ call[p].ask.op = "close" => call'[p].ask = call[p].ask
    PROVE  CallTypes' /\ ClosersKept
<1>2. ASSUME NEW q \in Requesters \ {p} PROVE GoodCall(q, call[q])'
  <2>1. GoodCall(q, call[q])
    BY DEF CallTypes
  <2>2. call[q].ask.id \in Nat /\ call[q].ack.id \in Nat /\ call[q].on \in Nat
    BY Constants DEF CallTypes, Calls, Asks, Acks
  <2>3. call'[q] = call[q]
    BY DEF OnlyCall
  <2> QED
    BY <2>1, <2>2, <2>3 DEF GoodCall, NumberTypes
<1>4. ClosersKept
  BY Constants DEF ClosersKept, OnlyCall
<1> QED
  BY <1>2, <1>4 DEF CallTypes, OnlyCall

(* The calls and the messages after a step that asks.                      *)
AskCall(ask) == [pc |-> "wait", on |-> n, ask |-> ask, ack |-> NoAck]

(* Ask: p waits for what it asks, and the message is one of the queue.      *)
LEMMA AskEffect ==
    ASSUME Types, NEW p \in Requesters, NEW ask \in Asks, Ask(p, ask),
           call[p] = Idle \/ (p \in Closers /\ call[p].ask = ask),
           up \/ hello, n' = n, given' = given,
           ask.id <= given, ask.op \in {"open", "close"},
           ask.op = "open" => ask.local \in Locals,
           ask.op = "close" <=> p \in Closers,
           p \in Openers => ask.id = 0,
           p \in Sessions => n >= p
    PROVE  /\ CallTypes' /\ MessageTypes' /\ ClosersKept
           /\ OnlyCall(p) /\ call'[p] = AskCall(ask)
<1> USE Constants, IdleFields
<1>1. n \in Sessions /\ n \in Nat /\ n > 0 /\ given \in Nat /\ n <= MaxSessions
  BY DEF Types, NumberTypes, Sessions
<1>2. PICK c \in Calls : c = AskCall(ask)
  <2>1. AskCall(ask) \in Calls
    BY <1>1 DEF AskCall, Calls
  <2> QED
    BY <2>1
<1>a. c.pc = "wait" /\ c.on = n /\ c.ask = ask /\ c.ack = NoAck
  BY <1>2 DEF AskCall
<1>3. call' = [call EXCEPT ![p] = c] /\ c # Idle
  BY <1>2, <1>a DEF Ask, AskCall
<1>b. OnlyCall(p) /\ call'[p] = c
  BY <1>3, OnlyCallEffect DEF Types
<1>4. GoodCall(p, call[p])'
  BY <1>1, <1>a, <1>b, <1>3 DEF GoodCall
<1>5. CallTypes' /\ ClosersKept
  <2>1. CallTypes /\ NumberTypes
    BY DEF Types
  <2>2. p \in Closers /\ call[p].ask.op = "close" => call'[p].ask = call[p].ask
    BY <1>a, <1>b
  <2>3. n' \in Nat /\ n <= n' /\ given' \in Nat /\ given <= given'
    BY <1>1
  <2> QED
    BY <1>b, <1>4, <2>1, <2>2, <2>3, CallUpdate
<1>6. call'[p].ask = ask
  BY <1>a, <1>b
<1> DEFINE m == [who |-> p, ask |-> ask]
<1>7. m \in Sound'
  <2>1. m \in Messages /\ m.ask = ask
    BY DEF Messages
  <2>2. ask.op = "close" => Closing(ask.id)'
    BY <1>6 DEF Closing
  <2> QED
    BY <2>1, <2>2 DEF Sound, Messages
<1>8. MessageTypes'
  <2>1. msgs' = [msgs EXCEPT ![n] = Append(@, m)]
    BY DEF Ask
  <2>2. \A s \in Sessions : msgs[s] \in Seq(Sound')
    BY <1>5, SoundStable, SeqMono DEF Types, MessageTypes
  <2> HIDE DEF m
  <2>3. Append(msgs[n], m) \in Seq(Sound')
    BY <1>1, <1>7, <2>2
  <2> QED
    BY <1>1, <2>1, <2>2, <2>3 DEF Types, MessageTypes, Sessions
<1> QED
  BY <1>2, <1>b, <1>5, <1>8

(* The calls after a step that ends one.                                   *)
LEMMA ReturnsEffect ==
    ASSUME Types, NEW p \in Requesters, Returns(p), call[p] # Idle,
           n' = n, given' = given
    PROVE  /\ CallTypes' /\ ClosersKept
           /\ call'[p] = Finished(p) /\ \A q \in Requesters \ {p} : call'[q] = call[q]
           /\ OnlyCall(p)
<1> USE Constants, IdleFields
<1>1. PICK c \in Calls : c = Finished(p)
  BY FinishedFields DEF Types
<1>2. call' = [call EXCEPT ![p] = c]
  BY <1>1 DEF Returns
<1>b. OnlyCall(p) /\ call'[p] = c
  BY <1>2, OnlyCallEffect DEF Types
<1>3. GoodCall(p, call[p])'
  <2>1. GoodCall(p, call[p]) /\ call[p].ask.id \in Nat /\ given \in Nat /\ n \in Nat
    BY DEF Types, CallTypes, Calls, Asks, NumberTypes
  <2> QED
    BY <1>1, <1>b, <2>1, FinishedFields DEF GoodCall, Types
<1>4. p \in Closers => c.ask = call[p].ask
  BY <1>1, FinishedFields DEF Types
<1>5. CallTypes' /\ ClosersKept
  <2>1. CallTypes /\ NumberTypes
    BY DEF Types
  <2>2. given \in Nat /\ n \in Nat
    BY <2>1 DEF NumberTypes
  <2> QED
    BY <1>b, <1>3, <1>4, <2>1, <2>2, CallUpdate DEF GoodCall
<1> QED
  BY <1>1, <1>b, <1>5 DEF OnlyCall

(* A call that has its answer. *)
WithAck(old, a) == [old EXCEPT !.pc = "answered", !.ack = a]

(* An answer changes the state and the acknowledgement of a call only.      *)
LEMMA WithAckFields ==
    ASSUME NEW c \in Calls, NEW ack \in Acks
    PROVE  /\ WithAck(c, ack) \in Calls
           /\ WithAck(c, ack).pc = "answered" /\ WithAck(c, ack).ack = ack
           /\ WithAck(c, ack).on = c.on /\ WithAck(c, ack).ask = c.ask
BY DEF WithAck, Calls

(* The calls after an answer: of its asker, if it still waits.             *)
AnsweredAs(w, ack) == /\ call'[w].pc = "answered" /\ call'[w].on = call[w].on
                    /\ call'[w].ask = call[w].ask /\ call'[w].ack = ack

(* Reply: an answer reaches who waits on the present session, or nobody.    *)
LEMMA ReplyEffect ==
    ASSUME Types, NEW s \in Sessions, NEW m \in Messages, NEW ack \in Acks, Reply(s, m, ack),
           ack.id <= given', n' = n, given' \in Nat, given <= given',
           m.ask.op = "open" /\ ack.id # 0 => ack.host \in Hosts
    PROVE  /\ CallTypes' /\ ClosersKept
           /\ \/ call' = call
              \/ /\ up /\ s = n /\ Waits(m.who) /\ call[m.who].on = n /\ call[m.who].ask = m.ask
                 /\ AnsweredAs(m.who, ack)
                 /\ \A q \in Requesters \ {m.who} : call'[q] = call[q]
<1> USE Constants, IdleFields
<1>0. CASE call' = call
  <2>1. CallTypes /\ NumberTypes
    BY DEF Types
  <2>2. n \in Nat
    BY <2>1 DEF NumberTypes
  <2> QED
    BY <1>0, <2>1, <2>2, CallFrame
<1>1. CASE call' # call
  <2>0. PICK w \in Requesters : w = m.who
    BY DEF Messages
  <2>1. call[w] \in Calls /\ call \in [Requesters -> Calls]
    BY DEF Types, CallTypes
  <2>2. up /\ s = n /\ Waits(w) /\ call[w].on = n /\ call[w].ask = m.ask
    BY <1>1, <2>0 DEF Reply
  <2>3. PICK c \in Calls : c = WithAck(call[w], ack)
    BY <2>1, WithAckFields
  <2>a. c.pc = "answered" /\ c.on = call[w].on /\ c.ask = call[w].ask /\ c.ack = ack
    BY <2>1, <2>3, WithAckFields
  <2>4. call' = [call EXCEPT ![w] = WithAck(call[w], ack)]
    BY <1>1, <2>0 DEF Reply, WithAck
  <2>5. call' = [call EXCEPT ![w] = c]
    BY <2>3, <2>4
  <2>c. OnlyCall(w) /\ call'[w] = c
    BY <2>1, <2>5, OnlyCallEffect DEF Types
  <2>6. GoodCall(w, call[w])'
    <3>1. GoodCall(w, call[w]) /\ call[w].pc = "wait" /\ call[w].ask = m.ask /\ call[w].ask.id \in Nat /\ ack.id \in Nat
           /\ given \in Nat /\ call[w].on \in Nat
      BY <2>1, <2>2 DEF Types, CallTypes, Calls, Asks, Acks, NumberTypes, Waits
    <3>2. c # Idle
      BY <2>a
    <3>3. call[w] # Idle
      BY <3>1
    <3> QED
      BY <2>a, <2>c, <3>1, <3>2, <3>3 DEF GoodCall
  <2>7. CallTypes' /\ ClosersKept
    <3>1. CallTypes /\ NumberTypes
      BY DEF Types
    <3>2. n \in Nat
      BY <3>1 DEF NumberTypes
    <3> QED
      BY <2>1, <2>a, <2>c, <2>6, <3>1, <3>2, CallUpdate DEF GoodCall
  <2>8. call'[w] = c /\ \A q \in Requesters \ {w} : call'[q] = call[q]
    BY <2>c DEF OnlyCall
  <2> QED
    BY <2>0, <2>2, <2>a, <2>7, <2>8 DEF AnsweredAs
<1> QED
  BY <1>0, <1>1

(* The tunnels after an acknowledged one is installed.                     *)
InstalledAs(t, c) ==
    /\ t.local = c.ask.local /\ t.host = c.ack.host /\ t.sub = c.ask.sub
    /\ t.persist = c.ask.persist /\ t.status = "active" /\ t.on = c.on

InstallTunnel(c) ==
    [local |-> c.ask.local, host |-> c.ack.host, sub |-> c.ask.sub,
     persist |-> c.ask.persist, status |-> "active", on |-> c.on]

(* Install: the acknowledged tunnel is there and what it replaces is not.   *)
LEMMA InstallEffect ==
    ASSUME Types, NEW p \in Requesters, Opened(p), call[p].ask.op = "open", Install(p),
           n' = n, given' = given
    PROVE  /\ TunnelTypes' /\ persistent' \subseteq SpecTypes
           /\ persistent' = UpsertPersistent(InstallTunnel(call[p]))
           /\ DOMAIN tunnels' = (DOMAIN tunnels \ {call[p].ask.id}) \cup {call[p].ack.id}
           /\ InstalledAs(tunnels'[call[p].ack.id], call[p])
           /\ \A id \in DOMAIN tunnels \ {call[p].ask.id, call[p].ack.id} : tunnels'[id] = tunnels[id]
<1> USE Constants
<1>1. PICK c \in Calls : c = call[p] /\ GoodCall(p, c)
  BY DEF Types, CallTypes
<1>2. c.pc = "answered" /\ c.ack.id # 0 /\ c.ask.op = "open" /\ c.ack.id \in 1..given /\ c.on \in Sessions /\ c.on <= n
      /\ c.ask.local \in Locals /\ c.ack.host \in Hosts /\ c.ask.sub \in Subs /\ c.ask.persist \in BOOLEAN
  BY <1>1 DEF Opened, GoodCall, Calls, Asks, Acks, Types, NumberTypes, Sessions
<1>3. PICK t \in TunnelOf : t = InstallTunnel(c)
  <2>1. InstallTunnel(c) \in TunnelOf
    BY <1>2 DEF InstallTunnel, TunnelOf, Subs
  <2> QED
    BY <2>1
<1>4. InstalledAs(t, c)
  BY <1>3 DEF InstalledAs, InstallTunnel
<1>5. /\ tunnels' = [id \in (DOMAIN tunnels \ {c.ask.id}) \cup {c.ack.id} |->
                      IF id = c.ack.id THEN t ELSE tunnels[id]]
      /\ persistent' = UpsertPersistent(t)
  BY <1>1, <1>3 DEF Install, InstallTunnel
<1>6. persistent' \subseteq SpecTypes
  <2>1. SpecFor(t) \in SpecTypes
    BY <1>2, <1>4 DEF SpecFor, SpecTypes, InstalledAs
  <2> QED
    BY <1>5, <2>1 DEF UpsertPersistent, Types, StateTypes
<1>7. TunnelTypes'
  BY <1>2, <1>4, <1>5 DEF TunnelTypes, Types, StateTypes, InstalledAs
<1> QED
  BY <1>1, <1>3, <1>4, <1>5, <1>6, <1>7

(* One restoration changes. *)
OnlyRestore(s) == /\ restore' \in [Sessions -> Restores]
                  /\ \A q \in Sessions \ {s} : restore'[q] = restore[q]

(* An assignment to restore[s].                                             *)
LEMMA OnlyRestoreEffect ==
    ASSUME RestoreTypes, NEW s \in Sessions, NEW r \in Restores, restore' = [restore EXCEPT ![s] = r]
    PROVE  OnlyRestore(s) /\ restore'[s] = r
BY DEF OnlyRestore, RestoreTypes

(* Only restoration s changes, to this.                                    *)
RestoreAt(s, pc, live, specs, announced, ok) ==
    /\ OnlyRestore(s)
    /\ restore'[s].pc = pc /\ restore'[s].live = live /\ restore'[s].specs = specs
    /\ restore'[s].announced = announced /\ restore'[s].ok = ok

(* One restoration changes, to one that may be.                             *)
LEMMA RestoreUpdate ==
    ASSUME RestoreTypes, NumberTypes, NEW s \in Sessions, OnlyRestore(s), GoodRestore(s)',
           given' \in Nat, given <= given', n' \in Nat, n <= n', hello' => hello,
           \A q \in Sessions \ {s} : call[q] = Idle => call'[q] = Idle
    PROVE  RestoreTypes'
<1>1. ASSUME NEW q \in Sessions \ {s} PROVE GoodRestore(q)'
  <2>1. GoodRestore(q) /\ restore'[q] = restore[q] /\ restore[q] \in Restores /\ given \in Nat /\ n \in Nat /\ q \in Nat
    BY DEF RestoreTypes, OnlyRestore, NumberTypes, Sessions
  <2>2. \A e \in restore[q].live : e.old \in Nat
    BY <2>1, Constants DEF Restores, Entries
  <2> QED
    BY <2>1, <2>2 DEF GoodRestore
<1> QED
  BY <1>1 DEF RestoreTypes, OnlyRestore

(* A restoration that runs goes on, or ends with nothing left.              *)
LEMMA RestoreStep ==
    ASSUME RestoreTypes, NumberTypes, NEW s \in Sessions, NEW pc, NEW l, NEW k, NEW a, NEW b,
           RestoreAt(s, pc, l, k, a, b), restore[s].pc = "run", pc \in {"run", "done"},
           \A e \in l : e \in restore[s].live, n' = n, given' = given, hello' => hello,
           pc = "done" => l = {} /\ k = {} /\ restore'[s].next = {} /\ call'[s] = Idle,
           restore'[s].next # {} => l = {} /\ call'[s] = Idle,
           \A x, y \in restore'[s].next : x = y,
           \A q \in Sessions \ {s} : call[q] = Idle => call'[q] = Idle
    PROVE  RestoreTypes'
<1>1. GoodRestore(s) /\ OnlyRestore(s) /\ given \in Nat /\ n \in Nat
  BY DEF RestoreTypes, RestoreAt, NumberTypes
<1>2. GoodRestore(s)'
  BY <1>1 DEF GoodRestore, RestoreAt
<1> QED
  BY <1>1, <1>2, RestoreUpdate

(* The restorations do not change.                                          *)
LEMMA RestoreFrame ==
    ASSUME RestoreTypes, NumberTypes, restore' = restore,
           given' \in Nat, given <= given', n' \in Nat, n <= n', hello' => hello,
           \A q \in Sessions : call[q] = Idle => call'[q] = Idle
    PROVE  RestoreTypes'
<1>1. ASSUME NEW q \in Sessions PROVE GoodRestore(q)'
  <2>1. GoodRestore(q) /\ restore[q] \in Restores /\ given \in Nat /\ n \in Nat /\ q \in Nat
    BY DEF RestoreTypes, NumberTypes, Sessions
  <2>2. \A e \in restore[q].live : e.old \in Nat
    BY <2>1, Constants DEF Restores, Entries
  <2> QED
    BY <2>1, <2>2 DEF GoodRestore
<1> QED
  BY <1>1 DEF RestoreTypes

WithLive(old, newl) == [old EXCEPT !.live = newl]

(* One restoration with another list of tunnels to announce.                *)
LEMMA WithLiveAt ==
    ASSUME RestoreTypes, NEW s \in Sessions, NEW l \in SUBSET Entries,
           restore' = [restore EXCEPT ![s] = WithLive(restore[s], l)]
    PROVE  /\ RestoreAt(s, restore[s].pc, l, restore[s].specs, restore[s].announced, restore[s].ok)
           /\ restore'[s].next = restore[s].next
<1>1. ASSUME NEW r \in Restores
      PROVE  /\ WithLive(r, l) \in Restores
             /\ WithLive(r, l).pc = r.pc /\ WithLive(r, l).live = l
             /\ WithLive(r, l).specs = r.specs /\ WithLive(r, l).announced = r.announced
             /\ WithLive(r, l).ok = r.ok
             /\ WithLive(r, l).next = r.next
  BY DEF WithLive, Restores
<1>2. restore[s] \in Restores
  BY DEF RestoreTypes
<1>3. OnlyRestore(s) /\ restore'[s] = WithLive(restore[s], l)
  <2>1. PICK r \in Restores : r = WithLive(restore[s], l)
    BY <1>1, <1>2
  <2> QED
    BY <2>1, OnlyRestoreEffect
<1> QED
  BY <1>1, <1>2, <1>3 DEF RestoreAt

WithAnnounced(old, newa) == [old EXCEPT !.announced = newa]

(* One restoration with other addresses announced.                          *)
LEMMA WithAnnouncedAt ==
    ASSUME RestoreTypes, NEW s \in Sessions, NEW a \in SUBSET Locals,
           restore' = [restore EXCEPT ![s] = WithAnnounced(restore[s], a)]
    PROVE  /\ RestoreAt(s, restore[s].pc, restore[s].live, restore[s].specs, a, restore[s].ok)
           /\ restore'[s].next = restore[s].next
<1>1. ASSUME NEW r \in Restores
      PROVE  /\ WithAnnounced(r, a) \in Restores
             /\ WithAnnounced(r, a).pc = r.pc /\ WithAnnounced(r, a).live = r.live
             /\ WithAnnounced(r, a).specs = r.specs /\ WithAnnounced(r, a).announced = a
             /\ WithAnnounced(r, a).ok = r.ok
             /\ WithAnnounced(r, a).next = r.next
  BY DEF WithAnnounced, Restores
<1>2. restore[s] \in Restores
  BY DEF RestoreTypes
<1>3. OnlyRestore(s) /\ restore'[s] = WithAnnounced(restore[s], a)
  <2>1. PICK r \in Restores : r = WithAnnounced(restore[s], a)
    BY <1>1, <1>2
  <2> QED
    BY <2>1, OnlyRestoreEffect
<1> QED
  BY <1>1, <1>2, <1>3 DEF RestoreAt

WithOk(old, newb) == [old EXCEPT !.ok = newb]

(* One restoration with another outcome.                                    *)
LEMMA WithOkAt ==
    ASSUME RestoreTypes, NEW s \in Sessions, NEW b \in BOOLEAN,
           restore' = [restore EXCEPT ![s] = WithOk(restore[s], b)]
    PROVE  /\ RestoreAt(s, restore[s].pc, restore[s].live, restore[s].specs, restore[s].announced, b)
           /\ restore'[s].next = restore[s].next
<1>1. ASSUME NEW r \in Restores
      PROVE  /\ WithOk(r, b) \in Restores
             /\ WithOk(r, b).pc = r.pc /\ WithOk(r, b).live = r.live
             /\ WithOk(r, b).specs = r.specs /\ WithOk(r, b).announced = r.announced
             /\ WithOk(r, b).ok = b
             /\ WithOk(r, b).next = r.next
  BY DEF WithOk, Restores
<1>2. restore[s] \in Restores
  BY DEF RestoreTypes
<1>3. OnlyRestore(s) /\ restore'[s] = WithOk(restore[s], b)
  <2>1. PICK r \in Restores : r = WithOk(restore[s], b)
    BY <1>1, <1>2
  <2> QED
    BY <2>1, OnlyRestoreEffect
<1> QED
  BY <1>1, <1>2, <1>3 DEF RestoreAt

WithoutLive(old, newe) == [old EXCEPT !.live = old.live \ {newe}, !.ok = FALSE]

(* One restoration that could not announce a tunnel.                        *)
LEMMA WithoutLiveAt ==
    ASSUME RestoreTypes, NEW s \in Sessions, NEW e,
           restore' = [restore EXCEPT ![s] = WithoutLive(restore[s], e)]
    PROVE  /\ RestoreAt(s, restore[s].pc, restore[s].live \ {e}, restore[s].specs, restore[s].announced, FALSE)
           /\ restore'[s].next = restore[s].next
<1>1. ASSUME NEW r \in Restores
      PROVE  /\ WithoutLive(r, e) \in Restores
             /\ WithoutLive(r, e).pc = r.pc
             /\ WithoutLive(r, e).live = r.live \ {e}
             /\ WithoutLive(r, e).specs = r.specs
             /\ WithoutLive(r, e).announced = r.announced
             /\ WithoutLive(r, e).ok = FALSE
             /\ WithoutLive(r, e).next = r.next
  BY DEF WithoutLive, Restores
<1>2. restore[s] \in Restores
  BY DEF RestoreTypes
<1>3. OnlyRestore(s) /\ restore'[s] = WithoutLive(restore[s], e)
  <2>1. PICK r \in Restores : r = WithoutLive(restore[s], e)
    BY <1>1, <1>2
  <2> QED
    BY <2>1, OnlyRestoreEffect
<1> QED
  BY <1>1, <1>2, <1>3 DEF RestoreAt

WithSpecs(old, newk) == [old EXCEPT !.specs = newk]

(* One restoration with other specifications to open.                       *)
LEMMA WithSpecsAt ==
    ASSUME RestoreTypes, NEW s \in Sessions, NEW k \in SUBSET SpecTypes,
           restore' = [restore EXCEPT ![s] = WithSpecs(restore[s], k)]
    PROVE  /\ RestoreAt(s, restore[s].pc, restore[s].live, k, restore[s].announced, restore[s].ok)
           /\ restore'[s].next = restore[s].next
<1>1. ASSUME NEW r \in Restores
      PROVE  /\ WithSpecs(r, k) \in Restores
             /\ WithSpecs(r, k).pc = r.pc /\ WithSpecs(r, k).live = r.live
             /\ WithSpecs(r, k).specs = k /\ WithSpecs(r, k).announced = r.announced
             /\ WithSpecs(r, k).ok = r.ok
             /\ WithSpecs(r, k).next = r.next
  BY DEF WithSpecs, Restores
<1>2. restore[s] \in Restores
  BY DEF RestoreTypes
<1>3. OnlyRestore(s) /\ restore'[s] = WithSpecs(restore[s], k)
  <2>1. PICK r \in Restores : r = WithSpecs(restore[s], k)
    BY <1>1, <1>2
  <2> QED
    BY <2>1, OnlyRestoreEffect
<1> QED
  BY <1>1, <1>2, <1>3 DEF RestoreAt

WithChosen(old, newk, newx) == [old EXCEPT !.specs = newk, !.next = newx]

(* One restoration past one specification.                                *)
LEMMA WithChosenAt ==
    ASSUME RestoreTypes, NEW s \in Sessions, NEW k \in SUBSET SpecTypes, NEW x \in SUBSET SpecTypes,
           restore' = [restore EXCEPT ![s] = WithChosen(restore[s], k, x)]
    PROVE  /\ RestoreAt(s, restore[s].pc, restore[s].live, k, restore[s].announced, restore[s].ok)
           /\ restore'[s].next = x
<1>1. ASSUME NEW r \in Restores
      PROVE  /\ WithChosen(r, k, x) \in Restores
             /\ WithChosen(r, k, x).pc = r.pc
             /\ WithChosen(r, k, x).live = r.live
             /\ WithChosen(r, k, x).specs = k
             /\ WithChosen(r, k, x).next = x
             /\ WithChosen(r, k, x).announced = r.announced
             /\ WithChosen(r, k, x).ok = r.ok
  BY DEF WithChosen, Restores
<1>2. restore[s] \in Restores
  BY DEF RestoreTypes
<1>3. OnlyRestore(s) /\ restore'[s] = WithChosen(restore[s], k, x)
  <2>1. PICK r \in Restores : r = WithChosen(restore[s], k, x)
    BY <1>1, <1>2
  <2> QED
    BY <2>1, OnlyRestoreEffect
<1> QED
  BY <1>1, <1>2, <1>3 DEF RestoreAt

WithNoNext(old) == [old EXCEPT !.next = {}]

(* One restoration that has asked for a specification.                    *)
LEMMA WithNoNextAt ==
    ASSUME RestoreTypes, NEW s \in Sessions,
           restore' = [restore EXCEPT ![s] = WithNoNext(restore[s])]
    PROVE  /\ RestoreAt(s, restore[s].pc, restore[s].live, restore[s].specs, restore[s].announced, restore[s].ok)
           /\ restore'[s].next = {}
<1>1. ASSUME NEW r \in Restores
      PROVE  /\ WithNoNext(r) \in Restores
             /\ WithNoNext(r).pc = r.pc
             /\ WithNoNext(r).live = r.live
             /\ WithNoNext(r).specs = r.specs
             /\ WithNoNext(r).next = {}
             /\ WithNoNext(r).announced = r.announced
             /\ WithNoNext(r).ok = r.ok
  BY DEF WithNoNext, Restores
<1>2. restore[s] \in Restores
  BY DEF RestoreTypes
<1>3. OnlyRestore(s) /\ restore'[s] = WithNoNext(restore[s])
  <2>1. PICK r \in Restores : r = WithNoNext(restore[s])
    BY <1>1, <1>2
  <2> QED
    BY <2>1, OnlyRestoreEffect
<1> QED
  BY <1>1, <1>2, <1>3 DEF RestoreAt

WithFailed(old) == [old EXCEPT !.next = {}, !.ok = FALSE]

(* One restoration that could not open a specification.                   *)
LEMMA WithFailedAt ==
    ASSUME RestoreTypes, NEW s \in Sessions,
           restore' = [restore EXCEPT ![s] = WithFailed(restore[s])]
    PROVE  /\ RestoreAt(s, restore[s].pc, restore[s].live, restore[s].specs, restore[s].announced, FALSE)
           /\ restore'[s].next = {}
<1>1. ASSUME NEW r \in Restores
      PROVE  /\ WithFailed(r) \in Restores
             /\ WithFailed(r).pc = r.pc
             /\ WithFailed(r).live = r.live
             /\ WithFailed(r).specs = r.specs
             /\ WithFailed(r).next = {}
             /\ WithFailed(r).announced = r.announced
             /\ WithFailed(r).ok = FALSE
  BY DEF WithFailed, Restores
<1>2. restore[s] \in Restores
  BY DEF RestoreTypes
<1>3. OnlyRestore(s) /\ restore'[s] = WithFailed(restore[s])
  <2>1. PICK r \in Restores : r = WithFailed(restore[s])
    BY <1>1, <1>2
  <2> QED
    BY <2>1, OnlyRestoreEffect
<1> QED
  BY <1>1, <1>2, <1>3 DEF RestoreAt

WithPc(old, newa) == [old EXCEPT !.pc = newa]

(* One restoration elsewhere in its code.                                   *)
LEMMA WithPcAt ==
    ASSUME RestoreTypes, NEW s \in Sessions, NEW a \in {"off", "sleep", "run", "done"},
           restore' = [restore EXCEPT ![s] = WithPc(restore[s], a)]
    PROVE  /\ RestoreAt(s, a, restore[s].live, restore[s].specs, restore[s].announced, restore[s].ok)
           /\ restore'[s].next = restore[s].next
<1>1. ASSUME NEW r \in Restores
      PROVE  /\ WithPc(r, a) \in Restores
             /\ WithPc(r, a).pc = a /\ WithPc(r, a).live = r.live
             /\ WithPc(r, a).specs = r.specs /\ WithPc(r, a).announced = r.announced
             /\ WithPc(r, a).ok = r.ok
             /\ WithPc(r, a).next = r.next
  BY DEF WithPc, Restores
<1>2. restore[s] \in Restores
  BY DEF RestoreTypes
<1>3. OnlyRestore(s) /\ restore'[s] = WithPc(restore[s], a)
  <2>1. PICK r \in Restores : r = WithPc(restore[s], a)
    BY <1>1, <1>2
  <2> QED
    BY <2>1, OnlyRestoreEffect
<1> QED
  BY <1>1, <1>2, <1>3 DEF RestoreAt

WithLists(old, newl, newk, newa) == [old EXCEPT !.live = newl, !.specs = newk, !.pc = newa]

(* One restoration with both its lists.                                     *)
LEMMA WithListsAt ==
    ASSUME RestoreTypes, NEW s \in Sessions, NEW l \in SUBSET Entries, NEW k \in SUBSET SpecTypes, NEW a \in {"off", "sleep", "run", "done"},
           restore' = [restore EXCEPT ![s] = WithLists(restore[s], l, k, a)]
    PROVE  /\ RestoreAt(s, a, l, k, restore[s].announced, restore[s].ok)
           /\ restore'[s].next = restore[s].next
<1>1. ASSUME NEW r \in Restores
      PROVE  /\ WithLists(r, l, k, a) \in Restores
             /\ WithLists(r, l, k, a).pc = a /\ WithLists(r, l, k, a).live = l
             /\ WithLists(r, l, k, a).specs = k /\ WithLists(r, l, k, a).announced = r.announced
             /\ WithLists(r, l, k, a).ok = r.ok
             /\ WithLists(r, l, k, a).next = r.next
  BY DEF WithLists, Restores
<1>2. restore[s] \in Restores
  BY DEF RestoreTypes
<1>3. OnlyRestore(s) /\ restore'[s] = WithLists(restore[s], l, k, a)
  <2>1. PICK r \in Restores : r = WithLists(restore[s], l, k, a)
    BY <1>1, <1>2
  <2> QED
    BY <2>1, OnlyRestoreEffect
<1> QED
  BY <1>1, <1>2, <1>3 DEF RestoreAt

(* What the requests ask. *)
LEMMA OpenFields ==
    ASSUME NEW w, NEW id
    PROVE  LET a == Open(w, id) IN
           /\ a.op = "open" /\ a.local = w.local /\ a.sub = w.sub /\ a.persist = w.persist /\ a.id = id
           /\ (w.local \in Locals /\ w.sub \in Subs /\ w.persist \in BOOLEAN /\ id \in 0..MaxTunnels => a \in Asks)
BY DEF Open, Asks

(* A request to close.                                                      *)
LEMMA CloseFields ==
    ASSUME NEW t, NEW id
    PROVE  LET a == Close(t, id) IN
           /\ a.op = "close" /\ a.local = t.local /\ a.sub = t.sub /\ a.persist = t.persist /\ a.id = id
           /\ (t.local \in Locals /\ t.sub \in Subs /\ t.persist \in BOOLEAN /\ id \in 0..MaxTunnels => a \in Asks)
BY DEF Close, Asks

(* The steps of the openers and closers.                                   *)
LEMMA OpenAsksEffect ==
    ASSUME Types, NEW p \in Openers, OpenAsks(p)
    PROVE  /\ CallTypes' /\ MessageTypes' /\ ClosersKept
           /\ OnlyCall(p) /\ call'[p] = AskCall(Open(Wanted[p], 0))
<1> USE Constants
<1>1. PICK ask \in Asks : ask = Open(Wanted[p], 0)
  BY OpenFields
<1>2. ask.op = "open" /\ ask.local \in Locals /\ ask.id = 0
  BY <1>1, OpenFields
<1>3. given \in Nat
  BY DEF Types, NumberTypes
<1>4. call[p] = Idle /\ (up \/ hello) /\ Ask(p, ask) /\ n' = n /\ given' = given /\ p \in Requesters
  BY <1>1 DEF OpenAsks, daemonVars
<1>5. call[p] = Idle \/ (p \in Closers /\ call[p].ask = ask)
  BY <1>4
<1> QED
  BY <1>1, <1>2, <1>3, <1>4, <1>5, AskEffect

(* CloseFinds: the closer has a tunnel of the daemon.                       *)
LEMMA CloseFindsEffect ==
    ASSUME Types, NEW p \in Closers, CloseFinds(p)
    PROVE  /\ CallTypes' /\ MessageTypes' /\ ClosersKept /\ OnlyCall(p) /\ call[p] = Idle
           /\ call'[p].pc = "found" /\ call'[p].ack = NoAck /\ call'[p].on \in {0, n}
           /\ \E id \in DOMAIN tunnels : call'[p].ask = Close(tunnels[id], id)
<1> USE Constants, IdleFields
<1>0. CallTypes /\ NumberTypes /\ MessageTypes /\ TunnelTypes
  BY DEF Types, StateTypes
<1>1. PICK id \in DOMAIN tunnels :
        call' = [call EXCEPT ![p] = [pc |-> "found", on |-> Control, ask |-> Close(tunnels[id], id), ack |-> NoAck]]
  BY DEF CloseFinds
<1>2. tunnels[id] \in TunnelOf /\ id \in 1..given /\ given \in 0..MaxTunnels /\ n \in 0..MaxSessions
  BY <1>0 DEF TunnelTypes, NumberTypes
<1>3. PICK ask \in Asks : /\ ask = Close(tunnels[id], id) /\ ask.op = "close" /\ ask.id = id
  <2>1. tunnels[id].local \in Locals /\ tunnels[id].sub \in Subs /\ tunnels[id].persist \in BOOLEAN /\ id \in 0..MaxTunnels
    BY <1>2 DEF TunnelOf, Subs
  <2> QED
    BY <2>1, CloseFields
<1>4. PICK on \in 0..MaxSessions : on = Control /\ on <= n /\ on \in {0, n}
  BY <1>2 DEF Control
<1>5. PICK c \in Calls : c = [pc |-> "found", on |-> on, ask |-> ask, ack |-> NoAck]
  <2>1. [pc |-> "found", on |-> on, ask |-> ask, ack |-> NoAck] \in Calls
    BY DEF Calls
  <2> QED
    BY <2>1
<1>6. c.pc = "found" /\ c.on = on /\ c.ask = ask /\ c.ack = NoAck
  BY <1>5
<1>7. OnlyCall(p) /\ call'[p] = c
  <2>1. call' = [call EXCEPT ![p] = c]
    BY <1>1, <1>3, <1>4, <1>5
  <2> QED
    BY <1>0, <2>1, OnlyCallEffect
<1>8. n' = n /\ given' = given /\ call[p] = Idle /\ msgs' = msgs
  BY DEF CloseFinds, daemonVars, gatewayVars
<1>9. GoodCall(p, call[p])'
  BY <1>2, <1>3, <1>4, <1>6, <1>7, <1>8 DEF GoodCall
<1>10. CallTypes' /\ ClosersKept
  BY <1>0, <1>2, <1>7, <1>8, <1>9, CallUpdate DEF GoodCall
<1> QED
  BY <1>0, <1>3, <1>4, <1>6, <1>7, <1>8, <1>10, MessagesFrame

WithCallPc(old, newpc) == [old EXCEPT !.pc = newpc]

(* CloseForgets: the specifications go.                                     *)
LEMMA CloseForgetsEffect ==
    ASSUME Types, NEW p \in Closers, CloseForgets(p)
    PROVE  /\ CallTypes' /\ MessageTypes' /\ ClosersKept /\ OnlyCall(p)
           /\ call[p].pc = "found" /\ call'[p].pc = "forgot" /\ call[p] # Idle
           /\ call'[p].on = call[p].on /\ call'[p].ask = call[p].ask /\ call'[p].ack = call[p].ack
           /\ call[p].ask.op = "close"
           /\ persistent' = RemovePersistent(call[p].ask)
           /\ persistent' \subseteq persistent
<1> USE Constants, IdleFields
<1>0. CallTypes /\ NumberTypes /\ MessageTypes /\ call[p] \in Calls /\ GoodCall(p, call[p])
  BY DEF Types, CallTypes
<1>1. ASSUME NEW d \in Calls
      PROVE  /\ WithCallPc(d, "forgot") \in Calls /\ WithCallPc(d, "forgot").pc = "forgot"
             /\ WithCallPc(d, "forgot").on = d.on /\ WithCallPc(d, "forgot").ask = d.ask
             /\ WithCallPc(d, "forgot").ack = d.ack
  BY DEF WithCallPc, Calls
<1>2. PICK c \in Calls : /\ c = WithCallPc(call[p], "forgot") /\ c.pc = "forgot"
                        /\ c.on = call[p].on /\ c.ask = call[p].ask /\ c.ack = call[p].ack
  BY <1>0, <1>1
<1>3. call' = [call EXCEPT ![p] = WithCallPc(call[p], "forgot")]
  BY DEF CloseForgets, WithCallPc
<1>4. OnlyCall(p) /\ call'[p] = c
  <2>1. call' = [call EXCEPT ![p] = c] /\ p \in Requesters
    BY <1>2, <1>3
  <2> QED
    BY <1>0, <2>1, OnlyCallEffect
<1>5. /\ n' = n /\ given' = given /\ call[p].pc = "found" /\ msgs' = msgs /\ n \in Nat /\ given \in Nat
      /\ persistent' = RemovePersistent(call[p].ask)
  BY <1>0 DEF CloseForgets, daemonVars, gatewayVars, NumberTypes
<1>6. GoodCall(p, call[p])'
  <2>1. call[p] # Idle /\ c # Idle
    BY <1>2, <1>5
  <2> QED
    BY <1>0, <1>2, <1>4, <1>5, <2>1 DEF GoodCall
<1>7. CallTypes' /\ ClosersKept
  BY <1>0, <1>2, <1>4, <1>5, <1>6, CallUpdate DEF GoodCall
<1>8. persistent' \subseteq persistent
  BY <1>5 DEF RemovePersistent
<1> QED
  BY <1>0, <1>2, <1>4, <1>5, <1>7, <1>8, MessagesFrame DEF GoodCall

(* CloseAsks: the closer waits.                                             *)
LEMMA CloseAsksEffect ==
    ASSUME Types, NEW p \in Closers, CloseAsks(p)
    PROVE  /\ CallTypes' /\ MessageTypes' /\ ClosersKept /\ OnlyCall(p)
           /\ call[p].pc = "forgot" /\ call[p].ask.op = "close"
           /\ call'[p] = AskCall(call[p].ask)
<1> USE Constants, IdleFields
<1>1. call[p].pc = "forgot" /\ Control # 0 /\ Ask(p, call[p].ask) /\ n' = n /\ given' = given
  BY DEF CloseAsks, daemonVars
<1>2. PICK ask \in Asks : ask = call[p].ask
  BY DEF Types, CallTypes, Calls
<1>3. GoodCall(p, call[p])
  BY DEF Types, CallTypes
<1>4. ask.op = "close" /\ ask.id <= given
  BY <1>1, <1>2, <1>3 DEF GoodCall
<1>5. up \/ hello
  BY <1>1 DEF Control
<1>6. Ask(p, ask)
  BY <1>1, <1>2
<1> QED
  BY <1>1, <1>2, <1>4, <1>5, <1>6, AskEffect

(* A tunnel shown as stale is otherwise as it was.                         *)
StaleOnly(id) ==
    /\ DOMAIN tunnels' = DOMAIN tunnels
    /\ \A i \in DOMAIN tunnels \ {id} : tunnels'[i] = tunnels[i]
    /\ id \in DOMAIN tunnels =>
         /\ tunnels'[id].local = tunnels[id].local /\ tunnels'[id].host = tunnels[id].host
         /\ tunnels'[id].sub = tunnels[id].sub /\ tunnels'[id].persist = tunnels[id].persist
         /\ tunnels'[id].on = tunnels[id].on /\ tunnels'[id].status = "stale"

AsStale(old) == [old EXCEPT !.status = "stale"]
(* A tunnel shown as stale is a tunnel.                                     *)
LEMMA AsStaleFields ==
    ASSUME NEW t \in TunnelOf
    PROVE  /\ AsStale(t) \in TunnelOf
           /\ AsStale(t).local = t.local /\ AsStale(t).host = t.host /\ AsStale(t).sub = t.sub
           /\ AsStale(t).persist = t.persist /\ AsStale(t).on = t.on /\ AsStale(t).status = "stale"
BY DEF AsStale, TunnelOf

(* Stale: one tunnel shows as stale.                                        *)
LEMMA StaleEffect ==
    ASSUME Types, NEW id, Stale(id), n' = n, given' = given
    PROVE  TunnelTypes' /\ StaleOnly(id)
<1>1. tunnels' = [i \in DOMAIN tunnels |-> IF i = id THEN AsStale(tunnels[i]) ELSE tunnels[i]]
  BY DEF Stale, AsStale
<1>2. \A i \in DOMAIN tunnels : tunnels[i] \in TunnelOf
  BY DEF Types, StateTypes, TunnelTypes
<1>3. DOMAIN tunnels' = DOMAIN tunnels /\ \A i \in DOMAIN tunnels \ {id} : tunnels'[i] = tunnels[i]
  BY <1>1
<1>4. id \in DOMAIN tunnels => tunnels'[id] = AsStale(tunnels[id])
  BY <1>1
<1>5. StaleOnly(id)
  BY <1>2, <1>3, <1>4, AsStaleFields DEF StaleOnly
<1>6. TunnelTypes'
  BY <1>2, <1>3, <1>4, AsStaleFields DEF Types, StateTypes, TunnelTypes
<1> QED
  BY <1>5, <1>6

(* The steps of restoreTunnels.                                            *)
LEMMA SnapshotEffect ==
    ASSUME Types, NEW s \in Sessions, Snapshot(s)
    PROVE  /\ RestoreTypes' /\ restore[s].pc = "sleep"
           /\ \E pc \in {"run", "done"} :
                /\ pc = "done" => DOMAIN tunnels = {} /\ persistent = {}
                /\ RestoreAt(s, pc, {AsNamed(id) : id \in DOMAIN tunnels}, persistent,
                             restore[s].announced, restore[s].ok)
           /\ restore'[s].next = {}
<1> USE Constants
<1>1. RestoreTypes /\ NumberTypes /\ restore[s] \in Restores
  BY DEF Types, RestoreTypes
<1> DEFINE L == {AsNamed(id) : id \in DOMAIN tunnels}
<1>2. PICK l \in SUBSET Entries : l = L /\ \A e \in l : e.old <= given
  <2>1. ASSUME NEW id \in DOMAIN tunnels PROVE AsNamed(id) \in Entries /\ AsNamed(id).old = id /\ id <= given
    <3>1. tunnels[id] \in TunnelOf /\ id \in 1..given /\ given \in 0..MaxTunnels
      BY <1>1 DEF Types, StateTypes, TunnelTypes, NumberTypes
    <3> QED
      BY <3>1 DEF AsNamed, Entries, TunnelOf
  <2>2. L \in SUBSET Entries /\ \A e \in L : e.old <= given
    BY <2>1
  <2> HIDE DEF L
  <2> QED
    BY <2>2
<1>3. PICK k \in SUBSET SpecTypes : k = persistent
  BY DEF Types, StateTypes
<1>4. PICK pc \in {"off", "sleep", "run", "done"} :
        pc = IF DOMAIN tunnels = {} /\ persistent = {} THEN "done" ELSE "run"
  OBVIOUS
<1>5. restore' = [restore EXCEPT ![s] = WithLists(restore[s], l, k, pc)]
  <2>1. restore' = [restore EXCEPT ![s] = WithLists(restore[s], L, persistent,
                      IF DOMAIN tunnels = {} /\ persistent = {} THEN "done" ELSE "run")]
    BY DEF Snapshot, WithLists
  <2> HIDE DEF L
  <2> QED
    BY <1>2, <1>3, <1>4, <2>1
<1>6. RestoreAt(s, pc, l, k, restore[s].announced, restore[s].ok) /\ restore'[s].next = {}
  <2>1. restore[s].next = {}
    BY <1>1 DEF RestoreTypes, GoodRestore, Snapshot
  <2> QED
    BY <1>1, <1>5, <2>1, WithListsAt
<1>7. GoodRestore(s)'
  <2>1. GoodRestore(s) /\ restore[s].pc = "sleep" /\ given' = given /\ n' = n /\ call' = call /\ hello' = hello
    BY <1>1 DEF RestoreTypes, Snapshot, daemonVars, gatewayVars
  <2>2. pc = "done" => l = {} /\ k = {}
    BY <1>2, <1>3, <1>4
  <2> QED
    BY <1>2, <1>4, <1>6, <2>1, <2>2 DEF GoodRestore, RestoreAt
<1>8. RestoreTypes'
  <2>1. given' = given /\ n' = n /\ call' = call /\ hello' = hello /\ given \in Nat /\ n \in Nat
    BY <1>1 DEF Snapshot, daemonVars, gatewayVars, NumberTypes
  <2> QED
    BY <1>1, <1>6, <1>7, <2>1, RestoreUpdate DEF RestoreAt
<1> QED
  BY <1>2, <1>3, <1>4, <1>6, <1>8 DEF Snapshot

(* Announce: one tunnel less to announce, and the session waits.            *)
LEMMA AnnounceEffect ==
    ASSUME Types, NEW s \in Sessions, Announce(s)
    PROVE  /\ CallTypes' /\ MessageTypes' /\ ClosersKept /\ RestoreTypes'
           /\ restore[s].pc = "run" /\ OnlyCall(s) /\ s <= n
           /\ \E e \in restore[s].live :
                /\ call'[s] = AskCall(Open(e, e.old))
                /\ RestoreAt(s, "run", restore[s].live \ {e}, restore[s].specs,
                             restore[s].announced, restore[s].ok)
           /\ restore'[s].next = {} /\ restore[s].next = {}
<1> USE Constants
<1>1. RestoreTypes /\ NumberTypes /\ CallTypes /\ MessageTypes /\ GoodRestore(s) /\ restore[s] \in Restores
  BY DEF Types, RestoreTypes
<1>2. PICK e \in restore[s].live :
        /\ Ask(s, Open(e, e.old))
        /\ restore' = [restore EXCEPT ![s] = WithLive(restore[s], restore[s].live \ {e})]
  BY DEF Announce, WithLive
<1>3. e \in Entries /\ e.old <= given /\ restore[s].pc = "run" /\ s <= n /\ restore[s].next = {}
  BY <1>1, <1>2 DEF GoodRestore, Restores
<1>4. PICK ask \in Asks : /\ ask = Open(e, e.old)
                        /\ ask.op = "open" /\ ask.local \in Locals /\ ask.id <= given
  <2>1. e.local \in Locals /\ e.sub \in Subs /\ e.persist \in BOOLEAN /\ e.old \in 0..MaxTunnels
    BY <1>3 DEF Entries, Subs
  <2>2. Open(e, e.old) \in Asks /\ Open(e, e.old).op = "open" /\ Open(e, e.old).local = e.local
        /\ Open(e, e.old).id = e.old
    BY <2>1, OpenFields
  <2> QED
    BY <1>3, <2>1, <2>2
<1>5. call[s] = Idle /\ up /\ n' = n /\ given' = given /\ hello' = hello /\ s \in Requesters /\ s \notin Closers /\ s \notin Openers
  BY DEF Announce, daemonVars
<1>6. CallTypes' /\ MessageTypes' /\ ClosersKept /\ OnlyCall(s) /\ call'[s] = AskCall(ask)
  <2>1. (up \/ hello) /\ (call[s] = Idle \/ (s \in Closers /\ call[s].ask = ask))
    BY <1>5
  <2> QED
    BY <1>2, <1>3, <1>4, <1>5, <2>1, AskEffect
<1>7. /\ RestoreAt(s, "run", restore[s].live \ {e}, restore[s].specs, restore[s].announced, restore[s].ok)
      /\ restore'[s].next = {}
  <2>1. PICK l \in SUBSET Entries : l = restore[s].live \ {e}
    BY <1>1 DEF Restores
  <2> QED
    BY <1>1, <1>2, <1>3, <2>1, WithLiveAt
<1>8. RestoreTypes'
  <2>1. \A q \in Sessions \ {s} : call[q] = Idle => call'[q] = Idle
    BY <1>6 DEF OnlyCall
  <2> DEFINE l == restore[s].live \ {e}
  <2>2. \A x \in l : x \in restore[s].live
    OBVIOUS
  <2>3. RestoreAt(s, "run", l, restore[s].specs, restore[s].announced, restore[s].ok) /\ restore'[s].next = {}
    BY <1>7
  <2> HIDE DEF l
  <2> QED
    BY <1>1, <1>3, <1>5, <2>1, <2>2, <2>3, RestoreStep
<1> QED
  BY <1>3, <1>4, <1>6, <1>7, <1>8

(* A restoration waits only while it runs, for an opening.                 *)
LEMMA RestoreAsks ==
    ASSUME Types, NEW s \in Sessions, call[s] # Idle
    PROVE  /\ restore[s].pc = "run" /\ call[s].ask.op = "open" /\ s <= n /\ call[s].ask.local \in Locals
           /\ restore[s].next = {}
<1>1. GoodCall(s, call[s]) /\ GoodRestore(s) /\ call[s].ask \in Asks
  BY Constants DEF Types, CallTypes, RestoreTypes, Calls
<1> QED
  BY <1>1, Constants DEF GoodCall, GoodRestore, Asks

(* Announced: the address of what was asked has been announced.             *)
LEMMA AnnouncedEffect ==
    ASSUME Types, NEW s \in Sessions, Announced(s)
    PROVE  /\ RestoreTypes' /\ restore[s].pc = "run" /\ call[s].ask.op = "open"
           /\ RestoreAt(s, "run", restore[s].live, restore[s].specs,
                        restore[s].announced \cup {call[s].ask.local}, restore[s].ok)
           /\ restore'[s].next = {} /\ restore[s].next = {}
<1> USE Constants
<1>1. RestoreTypes /\ NumberTypes /\ restore[s] \in Restores /\ call[s] # Idle
  BY IdleFields DEF Types, RestoreTypes, Announced, Opened
<1>2. restore[s].pc = "run" /\ call[s].ask.local \in Locals /\ call[s].ask.op = "open" /\ restore[s].next = {}
  BY <1>1, RestoreAsks
<1>3. PICK a \in SUBSET Locals : a = restore[s].announced \cup {call[s].ask.local}
  BY <1>1, <1>2 DEF Restores
<1>4. RestoreAt(s, "run", restore[s].live, restore[s].specs, a, restore[s].ok) /\ restore'[s].next = {}
  <2>1. restore' = [restore EXCEPT ![s] = WithAnnounced(restore[s], restore[s].announced \cup {call[s].ask.local})]
    BY DEF Announced, WithAnnounced
  <2> QED
    BY <1>1, <1>2, <1>3, <2>1, WithAnnouncedAt
<1>5. RestoreTypes'
  <2>1. n' = n /\ given' = given /\ hello' = hello /\ s \in Requesters
    BY DEF Announced, daemonVars, gatewayVars
  <2>2. \A q \in Sessions \ {s} : call[q] = Idle => call'[q] = Idle
    BY <1>1, <2>1, ReturnsEffect DEF Announced
  <2> QED
    BY <1>1, <1>2, <1>4, <2>1, <2>2, RestoreStep
<1> QED
  BY <1>2, <1>3, <1>4, <1>5

(* SpecFails: the restoration has failed, asked or not.                     *)
LEMMA SpecFailsEffect ==
    ASSUME Types, NEW s \in Sessions, SpecFails(s)
    PROVE  /\ RestoreTypes' /\ CallTypes' /\ ClosersKept /\ restore[s].pc = "run"
           /\ RestoreAt(s, "run", restore[s].live, restore[s].specs, restore[s].announced, FALSE)
           /\ restore'[s].next = {} /\ call'[s] = Idle
           /\ \A q \in Requesters \ {s} : call'[q] = call[q]
           /\ call[s] = Idle \/ (call[s].ask.op = "open" /\ ~Opened(s))
<1> USE Constants
<1>1. RestoreTypes /\ NumberTypes /\ CallTypes /\ GoodRestore(s)
  BY DEF Types, RestoreTypes
<1>2. n' = n /\ given' = given /\ hello' = hello /\ s \in Requesters /\ Returns(s) /\ n \in Nat /\ given \in Nat
  BY <1>1 DEF SpecFails, daemonVars, gatewayVars, NumberTypes
<1>3. restore[s].pc = "run" /\ (call[s] = Idle \/ (call[s].ask.op = "open" /\ ~Opened(s)))
  <2>1. CASE restore[s].next # {}
    <3>1. restore[s].pc = "run"
      BY <1>1, <2>1 DEF GoodRestore
    <3>2. call[s] = Idle
      BY <1>1, <2>1 DEF GoodRestore
    <3> QED
      BY <3>1, <3>2
  <2>2. CASE Waits(s) \/ Refused(s)
    <3>1. call[s] # Idle /\ ~Opened(s)
      BY <2>2, IdleFields DEF Waits, Refused, Opened
    <3> QED
      BY <3>1, RestoreAsks
  <2> QED
    BY <2>1, <2>2 DEF SpecFails
<1>4. RestoreAt(s, "run", restore[s].live, restore[s].specs, restore[s].announced, FALSE) /\ restore'[s].next = {}
  <2>1. restore' = [restore EXCEPT ![s] = WithFailed(restore[s])]
    BY DEF SpecFails, WithFailed
  <2> QED
    BY <1>1, <1>3, <2>1, WithFailedAt
<1>5. /\ CallTypes' /\ ClosersKept /\ call'[s] = Idle
      /\ \A q \in Requesters \ {s} : call'[q] = call[q]
  <2>1. CASE call[s] # Idle
    BY <1>1, <1>2, <2>1, ReturnsEffect, FinishedFields
  <2>2. CASE call[s] = Idle
    <3>1. Finished(s) = Idle
      BY DEF Finished
    <3>2. call' = call
      BY <1>1, <1>2, <2>2, <3>1 DEF Returns, CallTypes
    <3> QED
      BY <1>1, <1>2, <2>2, <3>2, CallFrame
  <2> QED
    BY <2>1, <2>2
<1>6. RestoreTypes'
  <2>1. \A q \in Sessions \ {s} : call[q] = Idle => call'[q] = Idle
    BY <1>5
  <2> QED
    BY <1>1, <1>2, <1>3, <1>4, <1>5, <2>1, RestoreStep
<1> QED
  BY <1>3, <1>4, <1>5, <1>6

(* Asked and given up.                                                     *)
Unanswered(s) == /\ Waits(s) \/ Refused(s)
                 /\ call[s].ask.id # 0
                 /\ Stale(call[s].ask.id) /\ Returns(s)
                 /\ restore' = [restore EXCEPT ![s].ok = FALSE]

(* A failed announcement that was asked: the restoration has failed.        *)
LEMMA UnansweredEffect ==
    ASSUME Types, NEW s \in Sessions, Unanswered(s), n' = n, given' = given, hello' = hello
    PROVE  /\ RestoreTypes' /\ restore[s].pc = "run" /\ call[s].ask.op = "open" /\ call[s] # Idle
           /\ RestoreAt(s, "run", restore[s].live, restore[s].specs, restore[s].announced, FALSE)
           /\ restore'[s].next = {} /\ restore[s].next = {}
<1> USE Constants
<1>1. RestoreTypes /\ NumberTypes /\ call[s] # Idle
  BY IdleFields DEF Types, Unanswered, Waits, Refused
<1>2. restore[s].pc = "run" /\ call[s].ask.op = "open" /\ restore[s].next = {}
  BY <1>1, RestoreAsks
<1>3. RestoreAt(s, "run", restore[s].live, restore[s].specs, restore[s].announced, FALSE) /\ restore'[s].next = {}
  <2>1. restore' = [restore EXCEPT ![s] = WithOk(restore[s], FALSE)]
    BY DEF Unanswered, WithOk
  <2> QED
    BY <1>1, <1>2, <2>1, WithOkAt
<1>4. RestoreTypes'
  <2>1. \A q \in Sessions \ {s} : call[q] = Idle => call'[q] = Idle
    BY <1>1, ReturnsEffect DEF Unanswered
  <2> QED
    BY <1>1, <1>2, <1>3, <2>1, RestoreStep
<1> QED
  BY <1>1, <1>2, <1>3, <1>4

(* Given up before it is asked.                                            *)
NotAsked(s) == /\ call[s] = Idle /\ UNCHANGED call
               /\ \E e \in restore[s].live :
                   /\ Stale(e.old)
                   /\ restore' = [restore EXCEPT ![s] = [@ EXCEPT !.live = restore[s].live \ {e}, !.ok = FALSE]]

(* A failed announcement that was not: one tunnel less to announce.         *)
LEMMA NotAskedEffect ==
    ASSUME Types, NEW s \in Sessions, NotAsked(s), n' = n, given' = given, hello' = hello
    PROVE  /\ RestoreTypes' /\ restore[s].pc = "run" /\ restore'[s].next = {} /\ restore[s].next = {}
           /\ \E e \in restore[s].live :
                /\ Stale(e.old)
                /\ RestoreAt(s, "run", restore[s].live \ {e}, restore[s].specs, restore[s].announced, FALSE)
<1> USE Constants
<1>1. RestoreTypes /\ NumberTypes /\ GoodRestore(s) /\ restore[s] \in Restores
  BY DEF Types, RestoreTypes
<1>2. PICK e \in restore[s].live :
        /\ Stale(e.old)
        /\ restore' = [restore EXCEPT ![s] = [@ EXCEPT !.live = restore[s].live \ {e}, !.ok = FALSE]]
  BY Zenon DEF NotAsked
<1>a. restore' = [restore EXCEPT ![s] = WithoutLive(restore[s], e)]
  BY <1>2 DEF WithoutLive
<1>3. restore[s].pc = "run" /\ restore[s].next = {}
  BY <1>1, <1>2 DEF GoodRestore
<1>4. PICK l \in SUBSET Entries : l = restore[s].live \ {e}
  BY <1>1 DEF Restores
<1>5. RestoreAt(s, "run", l, restore[s].specs, restore[s].announced, FALSE) /\ restore'[s].next = {}
  BY <1>1, <1>a, <1>3, <1>4, WithoutLiveAt
<1>6. RestoreTypes'
  <2>1. call' = call /\ \A x \in l : x \in restore[s].live
    BY <1>4 DEF NotAsked
  <2> QED
    BY <1>1, <1>3, <1>5, <2>1, RestoreStep
<1> QED
  BY <1>2, <1>3, <1>4, <1>5, <1>6

(* SpecSkipped: one specification less.                                     *)
LEMMA SpecSkippedEffect ==
    ASSUME Types, NEW s \in Sessions, SpecSkipped(s)
    PROVE  /\ RestoreTypes' /\ restore'[s].next = {} /\ restore[s].pc = "run" /\ restore[s].live = {} /\ call[s] = Idle /\ restore[s].next = {}
           /\ \E spec \in restore[s].specs :
                /\ Skips(s, spec)
                /\ RestoreAt(s, "run", restore[s].live, restore[s].specs \ {spec},
                             restore[s].announced, restore[s].ok)
<1> USE Constants
<1>1. RestoreTypes /\ NumberTypes /\ GoodRestore(s) /\ restore[s] \in Restores
  BY DEF Types, RestoreTypes
<1>2. PICK spec \in restore[s].specs :
        /\ Skips(s, spec)
        /\ restore' = [restore EXCEPT ![s] = WithSpecs(restore[s], restore[s].specs \ {spec})]
  BY DEF SpecSkipped, WithSpecs
<1>3. restore[s].pc = "run" /\ restore[s].live = {} /\ call[s] = Idle /\ restore[s].next = {}
  BY <1>1, <1>2 DEF GoodRestore, SpecSkipped, NextSpec
<1>4. PICK k \in SUBSET SpecTypes : k = restore[s].specs \ {spec}
  BY <1>1 DEF Restores
<1>5. RestoreAt(s, "run", restore[s].live, k, restore[s].announced, restore[s].ok) /\ restore'[s].next = {}
  BY <1>1, <1>2, <1>3, <1>4, WithSpecsAt
<1>6. RestoreTypes'
  <2>1. call' = call /\ n' = n /\ given' = given /\ hello' = hello
    BY DEF SpecSkipped, daemonVars, gatewayVars
  <2> QED
    BY <1>1, <1>3, <1>5, <2>1, RestoreStep
<1> QED
  BY <1>2, <1>3, <1>4, <1>5, <1>6

(* SpecChosen: one specification is to be asked for.                        *)
LEMMA SpecChosenEffect ==
    ASSUME Types, NEW s \in Sessions, SpecChosen(s)
    PROVE  /\ RestoreTypes' /\ restore[s].pc = "run" /\ restore[s].live = {} /\ call[s] = Idle /\ restore[s].next = {}
           /\ \E spec \in restore[s].specs :
                /\ ~Skips(s, spec)
                /\ RestoreAt(s, "run", restore[s].live, restore[s].specs \ {spec},
                             restore[s].announced, restore[s].ok)
                /\ restore'[s].next = {spec}
<1> USE Constants
<1>1. RestoreTypes /\ NumberTypes /\ GoodRestore(s) /\ restore[s] \in Restores
  BY DEF Types, RestoreTypes
<1>2. PICK spec \in restore[s].specs :
        /\ ~Skips(s, spec)
        /\ restore' = [restore EXCEPT ![s] = WithChosen(restore[s], restore[s].specs \ {spec}, {spec})]
  BY DEF SpecChosen, WithChosen
<1>3. restore[s].pc = "run" /\ restore[s].live = {} /\ call[s] = Idle /\ restore[s].next = {}
  BY <1>1, <1>2 DEF GoodRestore, SpecChosen, NextSpec
<1>4. PICK k \in SUBSET SpecTypes : k = restore[s].specs \ {spec}
  BY <1>1 DEF Restores
<1>5. RestoreAt(s, "run", restore[s].live, k, restore[s].announced, restore[s].ok) /\ restore'[s].next = {spec}
  <2>1. PICK x \in SUBSET SpecTypes : x = {spec}
    BY <1>1, <1>2 DEF Restores
  <2>3. RestoreTypes /\ restore[s].pc = "run"
    BY <1>1, <1>3
  <2>2. restore' = [restore EXCEPT ![s] = WithChosen(restore[s], k, x)]
    BY <1>2, <1>4, <2>1
  <2>4. /\ RestoreAt(s, restore[s].pc, restore[s].live, k, restore[s].announced, restore[s].ok)
        /\ restore'[s].next = x
    BY <2>2, <2>3, WithChosenAt
  <2> QED
    BY <1>3, <2>1, <2>4
<1>6. RestoreTypes'
  <2>1. call' = call /\ n' = n /\ given' = given /\ hello' = hello
    BY DEF SpecChosen, daemonVars, gatewayVars
  <2> QED
    BY <1>1, <1>3, <1>5, <2>1, RestoreStep
<1> QED
  BY <1>2, <1>3, <1>4, <1>5, <1>6

(* SpecAsks: a specification is asked for.                                  *)
LEMMA SpecAsksEffect ==
    ASSUME Types, NEW s \in Sessions, SpecAsks(s)
    PROVE  /\ CallTypes' /\ MessageTypes' /\ ClosersKept /\ RestoreTypes' /\ OnlyCall(s)
           /\ restore[s].pc = "run" /\ restore[s].live = {} /\ call[s] = Idle /\ s <= n /\ up
           /\ RestoreAt(s, "run", restore[s].live, restore[s].specs, restore[s].announced, restore[s].ok)
           /\ restore'[s].next = {}
           /\ \E spec \in restore[s].next :
                call'[s] = AskCall(Open([local |-> spec.local, sub |-> spec.sub, persist |-> TRUE], 0))
<1> USE Constants
<1>1. RestoreTypes /\ NumberTypes /\ CallTypes /\ MessageTypes /\ GoodRestore(s) /\ restore[s] \in Restores
  BY DEF Types, RestoreTypes
<1>2. PICK spec \in restore[s].next : Ask(s, Open([local |-> spec.local, sub |-> spec.sub, persist |-> TRUE], 0))
  BY Zenon DEF SpecAsks
<1>3. restore[s].pc = "run" /\ restore[s].live = {} /\ call[s] = Idle /\ s <= n
  BY <1>1, <1>2 DEF GoodRestore
<1>4. RestoreAt(s, "run", restore[s].live, restore[s].specs, restore[s].announced, restore[s].ok) /\ restore'[s].next = {}
  <2>1. restore' = [restore EXCEPT ![s] = WithNoNext(restore[s])]
    BY DEF SpecAsks, WithNoNext
  <2> QED
    BY <1>1, <1>3, <2>1, WithNoNextAt
<1>5. /\ n' = n /\ given' = given /\ hello' = hello /\ s \in Requesters /\ s \notin Closers /\ s \notin Openers
      /\ n \in Nat /\ given \in Nat /\ up
  BY <1>1 DEF SpecAsks, daemonVars, NumberTypes
<1>6. /\ CallTypes' /\ MessageTypes' /\ ClosersKept /\ OnlyCall(s)
      /\ call'[s] = AskCall(Open([local |-> spec.local, sub |-> spec.sub, persist |-> TRUE], 0))
  <2>1. PICK w : w = [local |-> spec.local, sub |-> spec.sub, persist |-> TRUE]
    OBVIOUS
  <2>2. w.local \in Locals /\ w.sub \in Subs /\ w.persist \in BOOLEAN
    BY <1>1, <1>2, <2>1 DEF Restores, SpecTypes
  <2>3. PICK ask \in Asks : ask = Open(w, 0)
    BY <2>2, OpenFields
  <2>4. ask.op = "open" /\ ask.local \in Locals /\ ask.id = 0
    BY <2>2, <2>3, OpenFields
  <2>5. Ask(s, ask)
    BY <1>2, <2>1, <2>3
  <2>6. CallTypes' /\ MessageTypes' /\ ClosersKept /\ OnlyCall(s) /\ call'[s] = AskCall(ask)
    <3>1. (up \/ hello) /\ (call[s] = Idle \/ (s \in Closers /\ call[s].ask = ask))
      BY <1>3, <1>5
    <3> QED
      BY <1>3, <1>5, <2>4, <2>5, <3>1, AskEffect
  <2> QED
    BY <2>1, <2>3, <2>6
<1>7. RestoreTypes'
  <2>1. \A q \in Sessions \ {s} : call[q] = Idle => call'[q] = Idle
    BY <1>6 DEF OnlyCall
  <2> QED
    BY <1>1, <1>3, <1>4, <1>5, <2>1, RestoreStep
<1> QED
  BY <1>2, <1>3, <1>4, <1>5, <1>6, <1>7

(* RestoreEnds: nothing is left to do.                                      *)
LEMMA RestoreEndsEffect ==
    ASSUME Types, NEW s \in Sessions, RestoreEnds(s)
    PROVE  /\ RestoreTypes' /\ restore[s].pc = "run" /\ restore[s].live = {} /\ restore[s].specs = {} /\ call[s] = Idle
           /\ RestoreAt(s, "done", restore[s].live, restore[s].specs, restore[s].announced, restore[s].ok)
           /\ restore'[s].next = {} /\ restore[s].next = {}
<1>1. RestoreTypes /\ NumberTypes /\ n' = n /\ given' = given /\ hello' = hello /\ call' = call
  BY DEF Types, RestoreEnds, daemonVars, gatewayVars
<1>2. restore' = [restore EXCEPT ![s] = WithPc(restore[s], "done")]
  BY DEF RestoreEnds, WithPc
<1>3. /\ RestoreAt(s, "done", restore[s].live, restore[s].specs, restore[s].announced, restore[s].ok)
      /\ restore'[s].next = restore[s].next
  BY <1>1, <1>2, WithPcAt
<1>4. restore[s].pc = "run" /\ restore[s].live = {} /\ restore[s].specs = {} /\ call[s] = Idle /\ restore[s].next = {}
  BY DEF RestoreEnds, NextSpec
<1>5. RestoreTypes'
  BY <1>1, <1>3, <1>4, RestoreStep
<1> QED
  BY <1>3, <1>4, <1>5

(* The steps of the gateway.                                               *)
LEMMA HandlesEffect ==
    ASSUME Types, NEW s \in Sessions, Handles(s)
    PROVE  /\ Head(msgs[s]) \in Sound /\ Head(msgs[s]) \in Messages /\ Head(msgs[s]).ask \in Asks
           /\ ClosersKept => MessageTypes'
<1>1. msgs[s] \in Seq(Sound) /\ msgs[s] # <<>> /\ CallTypes /\ MessageTypes
  BY DEF Types, MessageTypes, Handles
<1>2. Head(msgs[s]) \in Sound /\ Tail(msgs[s]) \in Seq(Sound)
  BY <1>1
<1>3. ASSUME ClosersKept PROVE MessageTypes'
  <2>1. \A q \in Sessions : msgs[q] \in Seq(Sound')
    BY <1>1, <1>3, SoundStable, SeqMono DEF MessageTypes
  <2>2. Tail(msgs[s]) \in Seq(Sound')
    BY <1>2, <1>1, <1>3, SoundStable, SeqMono
  <2> QED
    BY <1>1, <2>1, <2>2 DEF MessageTypes, Handles
<1> QED
  BY <1>2, <1>3 DEF Sound, Messages

(* GatewayOpens: a new tunnel is bound and told to who still waits.         *)
LEMMA GatewayOpensEffect ==
    ASSUME Types, NEW s \in Sessions, GatewayOpens(s)
    PROVE  /\ CallTypes' /\ ClosersKept /\ MessageTypes' /\ BoundTypes'
           /\ given' = given + 1 /\ given' <= MaxTunnels /\ given \in Nat
           /\ \E m \in Messages, host \in Hosts :
                /\ m.ask.op = "open" /\ m.ask.sub \in {Random, host}
                /\ bound' = bound \cup {[id |-> given', host |-> host, sess |-> s]}
                /\ \/ call' = call
                   \/ /\ up /\ s = n /\ Waits(m.who) /\ call[m.who].on = n /\ call[m.who].ask = m.ask
                      /\ AnsweredAs(m.who, [id |-> given', host |-> host])
                      /\ \A q \in Requesters \ {m.who} : call'[q] = call[q]
<1> USE Constants
<1>1. PICK m \in Messages : m = Head(msgs[s]) /\ m.ask \in Asks
  BY HandlesEffect DEF GatewayOpens
<1>2. given \in Nat /\ given' = given + 1 /\ given < MaxTunnels /\ n' = n
  BY DEF GatewayOpens, daemonVars, Types, NumberTypes
<1>3. PICK host \in Hosts : host = IF m.ask.sub = Random THEN given + 1 ELSE m.ask.sub
  <2>1. given + 1 \in Hosts
    BY <1>2 DEF Hosts
  <2> QED
    BY <1>1, <2>1 DEF Asks, Subs
<1>4. /\ m.ask.op = "open" /\ ~Taken(host)
      /\ bound' = bound \cup {[id |-> given', host |-> host, sess |-> s]}
      /\ Reply(s, m, [id |-> given', host |-> host])
  BY <1>1, <1>2, <1>3 DEF GatewayOpens
<1>5. PICK ack \in Acks : ack = [id |-> given', host |-> host] /\ ack.id = given' /\ ack.host = host
  <2>1. [id |-> given', host |-> host] \in Acks
    BY <1>2 DEF Acks
  <2> QED
    BY <2>1
<1>6. Reply(s, m, ack)
  BY <1>4, <1>5
<1>7. /\ CallTypes' /\ ClosersKept
      /\ \/ call' = call
         \/ /\ up /\ s = n /\ Waits(m.who) /\ call[m.who].on = n /\ call[m.who].ask = m.ask
            /\ AnsweredAs(m.who, ack)
            /\ \A q \in Requesters \ {m.who} : call'[q] = call[q]
  BY <1>2, <1>5, <1>6, ReplyEffect
<1>8. BoundTypes'
  <2>1. BoundTypes /\ \A k \in bound : k.host # host
    BY <1>4 DEF Types, StateTypes, Taken
  <2>2. [id |-> given', host |-> host, sess |-> s] \in [id : 1..MaxTunnels, host : Hosts, sess : Sessions]
    BY <1>2
  <2>3. \A k \in bound : k.id \in Nat /\ k.id <= given'
    BY <2>1, <1>2 DEF BoundTypes
  <2> QED
    BY <1>2, <1>4, <2>1, <2>2, <2>3 DEF BoundTypes
<1>9. MessageTypes'
  BY <1>7, HandlesEffect DEF GatewayOpens
<1> QED
  BY <1>2, <1>1, <1>3, <1>4, <1>5, <1>7, <1>8, <1>9

(* Fewer bound hostnames are bound hostnames.                               *)
LEMMA BoundLess ==
    ASSUME BoundTypes, bound' \subseteq bound, given' = given
    PROVE  BoundTypes'
BY DEF BoundTypes

(* GatewayRefuses: nothing is told but a refusal.                           *)
LEMMA GatewayRefusesEffect ==
    ASSUME Types, NEW s \in Sessions, GatewayRefuses(s)
    PROVE  /\ CallTypes' /\ ClosersKept /\ MessageTypes'
           /\ \/ call' = call
              \/ \E m \in Messages :
                   /\ up /\ s = n /\ Waits(m.who) /\ call[m.who].on = n /\ m.ask.op = "open" /\ call[m.who].ask = m.ask
                   /\ AnsweredAs(m.who, NoAck)
                   /\ \A q \in Requesters \ {m.who} : call'[q] = call[q]
<1> USE Constants, IdleFields
<1>1. PICK m \in Messages : m = Head(msgs[s]) /\ m.ask \in Asks
  BY HandlesEffect DEF GatewayRefuses
<1>2. given \in Nat /\ given' = given /\ n' = n
  BY DEF GatewayRefuses, daemonVars, Types, NumberTypes
<1>3. Reply(s, m, NoAck) /\ m.ask.op = "open"
  BY <1>1 DEF GatewayRefuses
<1>4. /\ CallTypes' /\ ClosersKept
      /\ \/ call' = call
         \/ /\ up /\ s = n /\ Waits(m.who) /\ call[m.who].on = n /\ call[m.who].ask = m.ask
            /\ AnsweredAs(m.who, NoAck)
            /\ \A q \in Requesters \ {m.who} : call'[q] = call[q]
  BY <1>2, <1>3, ReplyEffect
<1> QED
  BY <1>3, <1>4, HandlesEffect DEF GatewayRefuses

(* GatewayReleases: what somebody asked to close is unbound.                *)
LEMMA GatewayReleasesEffect ==
    ASSUME Types, NEW s \in Sessions, GatewayReleases(s)
    PROVE  /\ CallTypes' /\ ClosersKept /\ MessageTypes' /\ BoundTypes'
           /\ \E m \in Messages, id \in 0..MaxTunnels :
                /\ m.ask.op = "close" /\ m.ask.id = id /\ Closing(id)
                /\ bound' = {l \in bound : l.id # id}
                /\ \/ call' = call
                   \/ /\ up /\ s = n /\ Waits(m.who) /\ call[m.who].on = n /\ call[m.who].ask = m.ask
                      /\ AnsweredAs(m.who, [id |-> id, host |-> 0])
                      /\ \A q \in Requesters \ {m.who} : call'[q] = call[q]
<1> USE Constants, IdleFields
<1>1. PICK m \in Messages : m = Head(msgs[s]) /\ m.ask \in Asks /\ m \in Sound
  BY HandlesEffect DEF GatewayReleases
<1>2. given \in Nat /\ given' = given /\ n' = n
  BY DEF GatewayReleases, daemonVars, Types, NumberTypes
<1>3. /\ m.ask.op = "close" /\ bound' = {l \in bound : l.id # m.ask.id}
      /\ Reply(s, m, [id |-> m.ask.id, host |-> 0])
  BY <1>1 DEF GatewayReleases
<1>4. Closing(m.ask.id) /\ m.ask.id \in 0..MaxTunnels
  BY <1>1, <1>3 DEF Sound, Asks
<1>5. m.ask.id <= given
  <2>1. PICK p \in Closers : call[p].ask.id = m.ask.id
    BY <1>4 DEF Closing
  <2>2. GoodCall(p, call[p])
    BY DEF Types, CallTypes
  <2> QED
    BY <2>1, <2>2 DEF GoodCall
<1>6. PICK ack \in Acks : ack = [id |-> m.ask.id, host |-> 0] /\ ack.id = m.ask.id
  <2>1. [id |-> m.ask.id, host |-> 0] \in Acks
    BY <1>4 DEF Acks
  <2> QED
    BY <2>1
<1>7. Reply(s, m, ack)
  BY <1>3, <1>6
<1>8. /\ CallTypes' /\ ClosersKept
      /\ \/ call' = call
         \/ /\ up /\ s = n /\ Waits(m.who) /\ call[m.who].on = n /\ call[m.who].ask = m.ask
            /\ AnsweredAs(m.who, ack)
            /\ \A q \in Requesters \ {m.who} : call'[q] = call[q]
  BY <1>2, <1>3, <1>5, <1>6, <1>7, ReplyEffect
<1>9. BoundTypes'
  BY <1>2, <1>3, BoundLess DEF Types, StateTypes
<1> QED
  BY <1>3, <1>4, <1>6, <1>8, <1>9, HandlesEffect DEF GatewayReleases

(* The sessions and the end of the daemon.                                 *)
LEMMA StartsEffect ==
    ASSUME Types, Starts
    PROVE  /\ Types' /\ ClosersKept /\ n' = n + 1 /\ n \in Nat /\ n' \in Sessions /\ ~up'
           /\ call' = call /\ restore' = restore
<1> USE Constants
<1>1. RestoreTypes /\ NumberTypes /\ CallTypes /\ MessageTypes /\ StateTypes
  BY DEF Types
<1>2. /\ n \in Nat /\ n < MaxSessions /\ n' = n + 1 /\ n' \in Sessions /\ given' = given /\ given \in Nat
      /\ call' = call /\ tunnels' = tunnels /\ persistent' = persistent /\ bound' = bound /\ restore' = restore
      /\ msgs' = msgs /\ ~up'
  BY <1>1 DEF NumberTypes, Starts, Sessions, stateVars, gatewayVars
<1>3. CallTypes' /\ ClosersKept
  BY <1>1, <1>2, CallFrame
<1>4. RestoreTypes'
  <2>1. ASSUME NEW q \in Sessions PROVE GoodRestore(q)'
    <3>1. GoodRestore(q) /\ q \in Nat
      BY <1>1 DEF RestoreTypes, Sessions
    <3> QED
      BY <1>2, <3>1 DEF GoodRestore
  <2> QED
    BY <1>1, <1>2, <2>1 DEF RestoreTypes
<1>5. MessageTypes'
  BY <1>1, <1>2, <1>3, MessagesFrame
<1>6. StateTypes'
  <2>1. TunnelTypes'
    BY <1>1, <1>2 DEF StateTypes, TunnelTypes, TunnelOf, Sessions
  <2> QED
    BY <1>1, <1>2, <2>1 DEF StateTypes, BoundTypes
<1>7. NumberTypes'
  BY <1>1, <1>2 DEF NumberTypes, Starts, Sessions, gatewayVars
<1> QED
  BY <1>2, <1>3, <1>4, <1>5, <1>6, <1>7 DEF Types

(* Connect: the restoration of the session can start.                       *)
LEMMA ConnectEffect ==
    ASSUME Types, Connect
    PROVE  /\ Types' /\ ClosersKept /\ n' = n /\ n \in Sessions
           /\ restore[n].pc = "off" /\ restore[n].live = {} /\ restore[n].specs = {} /\ call[n] = Idle
           /\ restore[n].next = {} /\ restore'[n].next = {}
           /\ RestoreAt(n, "sleep", {}, {}, restore[n].announced, restore[n].ok)
<1> USE Constants
<1>1. RestoreTypes /\ NumberTypes /\ CallTypes /\ MessageTypes /\ StateTypes
  BY DEF Types
<1>2. /\ n \in Sessions /\ n \in Nat /\ n' = n /\ given' = given /\ given \in Nat /\ hello /\ ~hello'
      /\ call' = call /\ tunnels' = tunnels /\ persistent' = persistent /\ bound' = {}
  BY <1>1 DEF NumberTypes, Connect, Sessions, stateVars
<1>3. PICK s \in Sessions : s = n
  BY <1>2
<1>4. /\ restore[s].pc = "off" /\ restore[s].live = {} /\ restore[s].specs = {} /\ restore[s].next = {}
      /\ restore[s].announced = {} /\ call[s] = Idle
  <2>1. GoodRestore(s)
    BY <1>1 DEF RestoreTypes
  <2>2. restore[s].pc = "off"
    BY <1>2, <1>3, <2>1 DEF GoodRestore
  <2> QED
    BY <2>1, <2>2 DEF GoodRestore
<1>5. RestoreAt(s, "sleep", {}, {}, restore[s].announced, restore[s].ok) /\ restore'[s].next = {}
  <2>1. restore' = [restore EXCEPT ![s] = WithPc(restore[s], "sleep")]
    BY <1>3 DEF Connect, WithPc
  <2> QED
    BY <1>1, <1>4, <2>1, WithPcAt
<1>6. CallTypes' /\ ClosersKept
  BY <1>1, <1>2, CallFrame
<1>7. RestoreTypes'
  <2>1. GoodRestore(s)'
    BY <1>2, <1>3, <1>4, <1>5 DEF GoodRestore, RestoreAt
  <2>2. OnlyRestore(s)
    BY <1>5 DEF RestoreAt
  <2> QED
    BY <1>1, <1>2, <2>1, <2>2, RestoreUpdate
<1>8. MessageTypes'
  <2>1. \A q \in Sessions : msgs[q] \in Seq(Sound')
    BY <1>1, <1>6, SoundStable, SeqMono DEF MessageTypes
  <2>2. ASSUME NEW S, NEW u \in Seq(S), u # <<>> PROVE <<Head(u)>> \in Seq(S)
    BY <2>2
  <2>3. ASSUME NEW q \in Sessions PROVE Handled(q) \in Seq(Sound')
    BY <2>1, <2>2 DEF Handled
  <2>4. msgs' = [q \in Sessions |-> Handled(q)]
    BY DEF Connect
  <2> QED
    BY <2>3, <2>4 DEF MessageTypes
<1>9. StateTypes'
  <2>1. TunnelTypes'
    BY <1>1, <1>2 DEF StateTypes, TunnelTypes
  <2> QED
    BY <1>1, <1>2, <2>1 DEF StateTypes, BoundTypes
<1>10. NumberTypes'
  BY <1>1, <1>2 DEF NumberTypes, Connect, Sessions
<1> QED
  BY <1>2, <1>3, <1>4, <1>5, <1>6, <1>7, <1>8, <1>9, <1>10 DEF Types

(* Restart: no tunnel, no restoration and no request is left.               *)
LEMMA RestartEffect ==
    ASSUME Types, Restart
    PROVE  /\ Types' /\ ClosersKept /\ DOMAIN tunnels' = {}
           /\ \A p \in Requesters : call'[p] = Idle \/ call'[p] = Finished(p)
           /\ \A s \in Sessions : restore'[s] = Off /\ call'[s] = Idle
<1> USE Constants, IdleFields
<1>1. RestoreTypes /\ NumberTypes /\ CallTypes /\ MessageTypes /\ StateTypes
  BY DEF Types
<1>2. /\ call' = [p \in Requesters |-> IF call[p] = Idle THEN Idle ELSE Finished(p)]
      /\ restore' = [s \in Sessions |-> Off] /\ tunnels' = <<>> /\ DOMAIN tunnels' = {}
      /\ n' = n /\ given' = given /\ bound' = bound /\ msgs' = msgs /\ persistent' = persistent /\ ~hello'
  BY DEF Restart, gatewayVars
<1>3. ASSUME NEW p \in Requesters
      PROVE  /\ call'[p] \in Calls /\ GoodCall(p, call[p])' /\ call'[p] \in {Idle, Finished(p)}
             /\ p \in Closers /\ call[p].ask.op = "close" => call'[p].ask = call[p].ask
  <2>1. GoodCall(p, call[p]) /\ call[p].ask.id \in Nat /\ given \in Nat /\ n \in Nat
    BY <1>1 DEF Types, CallTypes, Calls, Asks, NumberTypes
  <2>2. CASE call[p] = Idle
    <3>1. call'[p] = Idle
      BY <1>2, <2>2
    <3> QED
      BY <1>2, <2>1, <2>2, <3>1 DEF GoodCall
  <2>3. CASE call[p] # Idle
    <3>1. call'[p] = Finished(p)
      BY <1>2, <2>3
    <3>2. GoodCall(p, call[p])'
      BY <1>1, <1>2, <2>1, <2>3, <3>1, FinishedFields DEF GoodCall
    <3> QED
      BY <1>1, <3>1, <3>2, FinishedFields
  <2> QED
    BY <2>2, <2>3
<1>4. CallTypes' /\ ClosersKept
  BY <1>2, <1>3 DEF CallTypes, ClosersKept
<1>5. \A s \in Sessions : restore'[s] = Off /\ call'[s] = Idle
  BY <1>1, <1>2, FinishedFields
<1>6. RestoreTypes'
  BY <1>2, <1>5 DEF RestoreTypes, GoodRestore
<1>7. MessageTypes'
  BY <1>1, <1>2, <1>4, MessagesFrame
<1>8. StateTypes'
  BY <1>1, <1>2 DEF StateTypes, TunnelTypes, BoundTypes
<1>9. NumberTypes'
  <2>1. restarts < MaxRestarts /\ restarts' = restarts + 1 /\ up' = FALSE /\ hello' = FALSE /\ served' = served
    BY DEF Restart, gatewayVars
  <2>2. restarts \in 0..MaxRestarts
    BY <1>1 DEF NumberTypes
  <2>3. restarts' \in 0..MaxRestarts
    BY <2>1, <2>2
  <2> QED
    BY <1>1, <1>2, <2>1, <2>3 DEF NumberTypes
<1> QED
  BY <1>2, <1>3, <1>4, <1>5, <1>6, <1>7, <1>8, <1>9 DEF Types

(* GatewayDrops: the hostnames of an earlier session are unbound.           *)
LEMMA GatewayDropsEffect ==
    ASSUME Types, NEW s \in Sessions, GatewayDrops(s)
    PROVE  /\ CallTypes' /\ ClosersKept /\ MessageTypes' /\ BoundTypes' /\ call' = call
           /\ s < n /\ bound' = {l \in bound : l.sess # s}
<1>1. CallTypes /\ NumberTypes /\ MessageTypes /\ BoundTypes /\ n \in Nat /\ given \in Nat
  BY Constants DEF Types, StateTypes, NumberTypes
<1>2. call' = call /\ n' = n /\ given' = given /\ s < n /\ bound' = {l \in bound : l.sess # s}
      /\ msgs' = [msgs EXCEPT ![s] = <<>>]
  BY DEF GatewayDrops, daemonVars, StillBound
<1>3. CallTypes' /\ ClosersKept
  BY <1>1, <1>2, CallFrame
<1>4. BoundTypes'
  BY <1>1, <1>2, BoundLess
<1>5. MessageTypes'
  <2>1. \A q \in Sessions : msgs[q] \in Seq(Sound')
    BY <1>1, <1>3, SoundStable, SeqMono DEF MessageTypes
  <2>2. <<>> \in Seq(Sound')
    OBVIOUS
  <2> QED
    BY <1>1, <1>2, <2>1, <2>2 DEF MessageTypes
<1> QED
  BY <1>2, <1>3, <1>4, <1>5

(* What a closer closes leaves the tunnels. *)
LEMMA CloseDeletesEffect ==
    ASSUME Types, NEW p \in Closers, CloseDeletes(p)
    PROVE  /\ TunnelTypes' /\ call[p] # Idle /\ call[p].ask.op = "close"
           /\ DOMAIN tunnels' = DOMAIN tunnels \ {call[p].ask.id}
           /\ \A id \in DOMAIN tunnels' : tunnels'[id] = tunnels[id]
<1>1. p \in Requesters /\ call[p] # Idle
  BY Constants, IdleFields DEF CloseDeletes, Opened
<1>2. call[p].ask.op = "close"
  BY <1>1 DEF Types, CallTypes, GoodCall
<1>3. tunnels' = [id \in DOMAIN tunnels \ {call[p].ask.id} |-> tunnels[id]]
  BY DEF CloseDeletes, Restrict
<1>4. n' = n /\ given' = given
  BY DEF CloseDeletes, daemonVars, gatewayVars
<1> QED
  BY <1>1, <1>2, <1>3, <1>4 DEF Types, StateTypes, TunnelTypes

(* What does not change keeps its type.                                    *)
LEMMA StateFrame ==
    ASSUME StateTypes, n' = n, given' = given
    PROVE  /\ tunnels' = tunnels => TunnelTypes'
           /\ bound' = bound => BoundTypes'
BY DEF StateTypes, TunnelTypes, BoundTypes

(* Who is no closer opens.                                                  *)
LEMMA Opening ==
    ASSUME Types, NEW p \in Requesters \ Closers, Waits(p) \/ Opened(p) \/ Refused(p)
    PROVE  call[p].ask.op = "open" /\ call[p] # Idle
<1>1. GoodCall(p, call[p]) /\ call[p].ask \in Asks
  BY Constants DEF Types, CallTypes, Calls
<1> QED
  BY <1>1, Constants, IdleFields DEF GoodCall, Asks, Waits, Opened, Refused

(* Types are inductive, and requests to close are never taken back.        *)
LEMMA TypesStep ==
    ASSUME Types, [Next]_vars
    PROVE  Types' /\ ClosersKept
<1> USE Constants
<1>0. /\ RestoreTypes /\ NumberTypes /\ CallTypes /\ MessageTypes /\ StateTypes
      /\ TunnelTypes /\ BoundTypes /\ persistent \subseteq SpecTypes
      /\ n \in Nat /\ given \in Nat
  BY DEF Types, StateTypes, NumberTypes
<1>1. CASE Starts \/ Connect
  BY <1>1, StartsEffect, ConnectEffect
<1>2. CASE Lost
  <2>1. n' = n /\ given' = given /\ call' = call /\ msgs' = msgs /\ restore' = restore /\ tunnels' = tunnels
        /\ persistent' = persistent /\ bound' = bound /\ ~hello'
    BY <1>2 DEF Lost, stateVars, gatewayVars
  <2>2. CallTypes' /\ ClosersKept
    BY <1>0, <2>1, CallFrame
  <2>3. RestoreTypes'
    BY <1>0, <2>1, RestoreFrame
  <2>4. NumberTypes'
    BY <1>0, <1>2 DEF NumberTypes, Lost, stateVars, gatewayVars
  <2> QED
    BY <1>0, <2>1, <2>2, <2>3, <2>4, StateFrame, MessagesFrame DEF Types, StateTypes
<1>3. CASE Restart
  BY <1>3, RestartEffect
<1>4. ASSUME NEW p \in Openers, OpenAsks(p) PROVE Types' /\ ClosersKept
  <2>1. n' = n /\ given' = given /\ restore' = restore /\ tunnels' = tunnels
        /\ persistent' = persistent /\ bound' = bound /\ p \in Requesters /\ p \notin Sessions /\ hello' = hello
    BY <1>4 DEF OpenAsks, daemonVars, stateVars
  <2>2. CallTypes' /\ MessageTypes' /\ ClosersKept /\ OnlyCall(p)
    BY <1>4, OpenAsksEffect
  <2>3. RestoreTypes'
    BY <1>0, <2>1, <2>2, RestoreFrame DEF OnlyCall
  <2>4. NumberTypes'
    BY <1>0, <1>4 DEF NumberTypes, OpenAsks, daemonVars
  <2> QED
    BY <1>0, <2>1, <2>2, <2>3, <2>4, StateFrame DEF Types, StateTypes
<1>5. ASSUME NEW p \in Openers, OpenInstalls(p) PROVE Types' /\ ClosersKept
  <2>1. n' = n /\ given' = given /\ restore' = restore /\ msgs' = msgs
        /\ bound' = bound /\ p \in Requesters \ Closers /\ p \notin Sessions /\ hello' = hello
    BY <1>5 DEF OpenInstalls, daemonVars, gatewayVars
  <2>2. call[p].ask.op = "open" /\ call[p] # Idle
    BY <1>5, <2>1, Opening DEF OpenInstalls
  <2>3. CallTypes' /\ ClosersKept /\ OnlyCall(p)
    BY <1>5, <2>1, <2>2, ReturnsEffect DEF OpenInstalls
  <2>4. TunnelTypes' /\ persistent' \subseteq SpecTypes
    BY <1>5, <2>1, <2>2, InstallEffect DEF OpenInstalls
  <2>5. RestoreTypes'
    BY <1>0, <2>1, <2>3, RestoreFrame DEF OnlyCall
  <2>6. NumberTypes'
    BY <1>0, <1>5 DEF NumberTypes, OpenInstalls, daemonVars, gatewayVars
  <2> QED
    BY <1>0, <2>1, <2>3, <2>4, <2>5, <2>6, StateFrame, MessagesFrame DEF Types, StateTypes
<1>6. ASSUME NEW p \in Openers \cup Closers, OpenFails(p) \/ CloseFails(p)
      PROVE  Types' /\ ClosersKept
  <2>1. n' = n /\ given' = given /\ restore' = restore /\ msgs' = msgs /\ persistent' = persistent
        /\ tunnels' = tunnels /\ bound' = bound /\ p \in Requesters /\ p \notin Sessions /\ Returns(p)
        /\ hello' = hello
    BY <1>6 DEF OpenFails, CloseFails, daemonVars, gatewayVars, stateVars
  <2>2. call[p] # Idle
    BY <1>6, IdleFields DEF OpenFails, CloseFails, Waits, Refused
  <2>3. CallTypes' /\ ClosersKept /\ OnlyCall(p)
    BY <2>1, <2>2, ReturnsEffect
  <2>5. RestoreTypes'
    BY <1>0, <2>1, <2>3, RestoreFrame DEF OnlyCall
  <2>6. NumberTypes'
    BY <1>0, <1>6 DEF NumberTypes, OpenFails, CloseFails, daemonVars, gatewayVars
  <2> QED
    BY <1>0, <2>1, <2>3, <2>5, <2>6, StateFrame, MessagesFrame DEF Types, StateTypes
<1>7. ASSUME NEW p \in Closers, CloseFinds(p) \/ CloseForgets(p) \/ CloseAsks(p)
      PROVE  Types' /\ ClosersKept
  <2>1. n' = n /\ given' = given /\ restore' = restore /\ tunnels' = tunnels /\ hello' = hello /\ up' = up
        /\ bound' = bound /\ p \in Requesters /\ p \notin Sessions /\ restarts' = restarts /\ served' = served
    BY <1>7 DEF CloseFinds, CloseForgets, CloseAsks, daemonVars, stateVars, gatewayVars
  <2>2. CallTypes' /\ MessageTypes' /\ ClosersKept /\ OnlyCall(p)
    BY <1>7, CloseFindsEffect, CloseForgetsEffect, CloseAsksEffect
  <2>3. RestoreTypes'
    BY <1>0, <2>1, <2>2, RestoreFrame DEF OnlyCall
  <2>4. NumberTypes'
    BY <1>0, <2>1 DEF NumberTypes
  <2>5. persistent' \subseteq persistent
    BY <1>7, CloseForgetsEffect DEF CloseFinds, CloseAsks, stateVars
  <2> QED
    BY <1>0, <2>1, <2>2, <2>3, <2>4, <2>5, StateFrame DEF Types, StateTypes
<1>8. ASSUME NEW p \in Closers, CloseDeletes(p) PROVE Types' /\ ClosersKept
  <2>1. n' = n /\ given' = given /\ restore' = restore /\ msgs' = msgs /\ persistent' = persistent
        /\ bound' = bound /\ p \in Requesters /\ p \notin Sessions /\ Returns(p)
        /\ hello' = hello
    BY <1>8 DEF CloseDeletes, daemonVars, gatewayVars
  <2>2. TunnelTypes' /\ call[p] # Idle
    BY <1>8, CloseDeletesEffect
  <2>3. CallTypes' /\ ClosersKept /\ OnlyCall(p)
    BY <2>1, <2>2, ReturnsEffect
  <2>5. RestoreTypes'
    BY <1>0, <2>1, <2>3, RestoreFrame DEF OnlyCall
  <2>6. NumberTypes'
    BY <1>0, <1>8 DEF NumberTypes, CloseDeletes, daemonVars, gatewayVars
  <2> QED
    BY <1>0, <2>1, <2>2, <2>3, <2>5, <2>6, StateFrame, MessagesFrame DEF Types, StateTypes
<1>9. ASSUME NEW s \in Sessions, Snapshot(s) \/ SpecSkipped(s) \/ SpecChosen(s) \/ RestoreEnds(s)
      PROVE  Types' /\ ClosersKept
  <2>1. n' = n /\ given' = given /\ call' = call /\ msgs' = msgs /\ persistent' = persistent
        /\ tunnels' = tunnels /\ bound' = bound /\ up' = up /\ restarts' = restarts /\ served' = served /\ hello' = hello
    BY <1>9 DEF Snapshot, SpecSkipped, SpecChosen, RestoreEnds, daemonVars, gatewayVars, stateVars
  <2>2. RestoreTypes'
    BY <1>9, SnapshotEffect, SpecSkippedEffect, SpecChosenEffect, RestoreEndsEffect
  <2>3. CallTypes' /\ ClosersKept
    BY <1>0, <2>1, CallFrame
  <2>4. NumberTypes'
    BY <1>0, <2>1 DEF NumberTypes
  <2> QED
    BY <1>0, <2>1, <2>2, <2>3, <2>4, StateFrame, MessagesFrame DEF Types, StateTypes
<1>10. ASSUME NEW s \in Sessions, Announce(s) \/ SpecAsks(s) PROVE Types' /\ ClosersKept
  <2>1. n' = n /\ given' = given /\ persistent' = persistent
        /\ tunnels' = tunnels /\ bound' = bound /\ up' = up /\ restarts' = restarts /\ served' = served /\ hello' = hello
    BY <1>10 DEF Announce, SpecAsks, daemonVars, stateVars
  <2>2. CallTypes' /\ MessageTypes' /\ ClosersKept /\ RestoreTypes'
    BY <1>10, AnnounceEffect, SpecAsksEffect
  <2>4. NumberTypes'
    BY <1>0, <2>1 DEF NumberTypes
  <2> QED
    BY <1>0, <2>1, <2>2, <2>4, StateFrame DEF Types, StateTypes
<1>11. ASSUME NEW s \in Sessions, Announced(s) \/ SpecRestored(s) PROVE Types' /\ ClosersKept
  <2>1. n' = n /\ given' = given /\ msgs' = msgs /\ s \in Requesters \ Closers
        /\ bound' = bound /\ up' = up /\ restarts' = restarts /\ served' = served /\ hello' = hello
        /\ Opened(s) /\ Install(s) /\ Returns(s)
    BY <1>11 DEF Announced, SpecRestored, daemonVars, gatewayVars
  <2>2. call[s].ask.op = "open" /\ call[s] # Idle
    BY <2>1, Opening
  <2>3. CallTypes' /\ ClosersKept /\ OnlyCall(s)
    BY <2>1, <2>2, ReturnsEffect
  <2>4. TunnelTypes' /\ persistent' \subseteq SpecTypes
    BY <2>1, <2>2, InstallEffect
  <2>5. RestoreTypes'
    <3>1. CASE Announced(s)
      BY <3>1, AnnouncedEffect
    <3>2. CASE SpecRestored(s)
      <4>1. restore' = restore /\ call'[s] = Idle
        BY <3>2, <2>1, <2>2, <1>0, ReturnsEffect, FinishedFields DEF SpecRestored
      <4> QED
        BY <1>0, <2>1, <2>3, <4>1, RestoreFrame DEF OnlyCall
    <3> QED
      BY <1>11, <3>1, <3>2
  <2>6. NumberTypes'
    BY <1>0, <2>1 DEF NumberTypes
  <2> QED
    BY <1>0, <2>1, <2>3, <2>4, <2>5, <2>6, StateFrame, MessagesFrame DEF Types, StateTypes
<1>12. ASSUME NEW s \in Sessions, AnnounceFails(s) \/ SpecFails(s) PROVE Types' /\ ClosersKept
  <2>1. n' = n /\ given' = given /\ msgs' = msgs /\ s \in Requesters /\ persistent' = persistent
        /\ bound' = bound /\ up' = up /\ restarts' = restarts /\ served' = served /\ hello' = hello
    BY <1>12 DEF AnnounceFails, SpecFails, daemonVars, gatewayVars, stateVars
  <2>2. NumberTypes'
    BY <1>0, <2>1 DEF NumberTypes
  <2>3. CASE Unanswered(s)
    <3>1. RestoreTypes' /\ call[s] # Idle
      BY <2>1, <2>3, UnansweredEffect
    <3>2. CallTypes' /\ ClosersKept
      BY <2>1, <2>3, <3>1, ReturnsEffect DEF Unanswered
    <3>3. TunnelTypes'
      BY <2>1, <2>3, StaleEffect DEF Unanswered
    <3> QED
      BY <1>0, <2>1, <2>2, <3>1, <3>2, <3>3, StateFrame, MessagesFrame DEF Types, StateTypes
  <2>4. CASE NotAsked(s)
    <3>1. RestoreTypes' /\ call' = call
      BY <2>1, <2>4, NotAskedEffect DEF NotAsked
    <3>2. CallTypes' /\ ClosersKept
      BY <1>0, <2>1, <3>1, CallFrame
    <3>3. TunnelTypes'
      BY <2>1, <2>4, StaleEffect DEF NotAsked
    <3> QED
      BY <1>0, <2>1, <2>2, <3>1, <3>2, <3>3, StateFrame, MessagesFrame DEF Types, StateTypes
  <2>5. CASE SpecFails(s)
    <3>1. RestoreTypes' /\ CallTypes' /\ ClosersKept
      BY <2>5, SpecFailsEffect
    <3>2. tunnels' = tunnels
      BY <2>5 DEF SpecFails, stateVars
    <3> QED
      BY <1>0, <2>1, <2>2, <3>1, <3>2, StateFrame, MessagesFrame DEF Types, StateTypes
  <2>6. AnnounceFails(s) => Unanswered(s) \/ NotAsked(s)
    BY DEF AnnounceFails, Unanswered, NotAsked
  <2> QED
    BY <1>12, <2>3, <2>4, <2>5, <2>6
<1>13. ASSUME NEW s \in Sessions, GatewayOpens(s) \/ GatewayRefuses(s) \/ GatewayReleases(s)
       PROVE  Types' /\ ClosersKept
  <2>1. n' = n /\ restore' = restore /\ tunnels' = tunnels /\ persistent' = persistent
        /\ up' = up /\ restarts' = restarts /\ served' = served /\ hello' = hello
    BY <1>13 DEF GatewayOpens, GatewayRefuses, GatewayReleases, daemonVars, stateVars
  <2>2. CallTypes' /\ ClosersKept /\ MessageTypes'
    BY <1>13, GatewayOpensEffect, GatewayRefusesEffect, GatewayReleasesEffect
  <2>3. given' \in Nat /\ given <= given' /\ given' <= MaxTunnels
    BY <1>0, <1>13, GatewayOpensEffect DEF GatewayRefuses, GatewayReleases, NumberTypes
  <2>4. \A q \in Sessions : call[q] = Idle => call'[q] = Idle
    <3>1. \/ call' = call
          \/ \E w \in Requesters : Waits(w) /\ \A q \in Requesters \ {w} : call'[q] = call[q]
      BY <1>13, GatewayOpensEffect, GatewayRefusesEffect, GatewayReleasesEffect DEF Messages
    <3> QED
      BY <3>1, IdleFields DEF Waits
  <2>5. RestoreTypes'
    BY <1>0, <2>1, <2>3, <2>4, RestoreFrame
  <2>6. BoundTypes'
    BY <1>0, <1>13, GatewayOpensEffect, GatewayReleasesEffect, StateFrame DEF GatewayRefuses, daemonVars
  <2>7. TunnelTypes'
    BY <1>0, <2>1, <2>3 DEF TunnelTypes
  <2>8. NumberTypes'
    BY <1>0, <2>1, <2>3 DEF NumberTypes
  <2> QED
    BY <1>0, <2>1, <2>2, <2>5, <2>6, <2>7, <2>8 DEF Types, StateTypes
<1>14. ASSUME NEW s \in Sessions, GatewayDrops(s) PROVE Types' /\ ClosersKept
  <2>1. n' = n /\ given' = given /\ restore' = restore /\ tunnels' = tunnels /\ persistent' = persistent
        /\ up' = up /\ restarts' = restarts /\ served' \subseteq served /\ hello' = hello
    BY <1>14 DEF GatewayDrops, daemonVars, stateVars
  <2>2. CallTypes' /\ ClosersKept /\ MessageTypes' /\ BoundTypes' /\ call' = call
    BY <1>14, GatewayDropsEffect
  <2>3. RestoreTypes'
    BY <1>0, <2>1, <2>2, RestoreFrame
  <2>4. NumberTypes'
    BY <1>0, <2>1 DEF NumberTypes
  <2> QED
    BY <1>0, <2>1, <2>2, <2>3, <2>4, StateFrame DEF Types, StateTypes
<1>15. CASE UNCHANGED vars
  <2>1. n' = n /\ given' = given /\ restore' = restore /\ tunnels' = tunnels /\ persistent' = persistent
        /\ up' = up /\ restarts' = restarts /\ served' = served /\ hello' = hello /\ call' = call /\ msgs' = msgs
        /\ bound' = bound
    BY <1>15 DEF vars, daemonVars, stateVars, gatewayVars
  <2>2. CallTypes' /\ ClosersKept
    BY <1>0, <2>1, CallFrame
  <2>3. RestoreTypes'
    BY <1>0, <2>1, RestoreFrame
  <2>4. NumberTypes'
    BY <1>0, <2>1 DEF NumberTypes
  <2> QED
    BY <1>0, <2>1, <2>2, <2>3, <2>4, StateFrame, MessagesFrame DEF Types, StateTypes
<1> QED
  BY <1>1, <1>2, <1>3, <1>4, <1>5, <1>6, <1>7, <1>8, <1>9, <1>10, <1>11, <1>12, <1>13, <1>14, <1>15 DEF Next

-----------------------------------------------------------------------------
(* The tunnels the daemon speaks of, in a state or a request.              *)
Known == {id \in 0..MaxTunnels :
            \/ id = 0 \/ id \in DOMAIN tunnels
            \/ \E q \in Requesters : call[q].ask.id = id
            \/ \E s \in Sessions : \E e \in restore[s].live : e.old = id}

(* p has been given a tunnel and has not installed it.                     *)
Got(p) == call[p].pc = "answered" /\ call[p].ask.op = "open" /\ call[p].ack.id # 0
Installs(p, id) == Got(p) /\ ~Got(p)' /\ id = call[p].ack.id

(* What a step does to the tunnels, ... *)
Keeps(t, u) == /\ t.local = u.local /\ t.host = u.host /\ t.sub = u.sub
               /\ t.persist = u.persist /\ t.on = u.on
               /\ t.status = "stale" => u.status = "stale"
TunnelStep ==
    \A id \in DOMAIN tunnels' :
        \/ id \in DOMAIN tunnels /\ Keeps(tunnels[id], tunnels'[id])
        \/ \E p \in Requesters : Installs(p, id) /\ InstalledAs(tunnels'[id], call[p])

(* ... to the tunnels spoken of, ... *)
KnownStep == \A id \in Known' : id \in Known \/ \E p \in Requesters : Installs(p, id)

(* ... to who waits for its answer, ... *)
Granted(p) ==
    /\ given' = given + 1 /\ call'[p].ack.id = given' /\ call'[p].ask.sub \in {Random, call'[p].ack.host}
    /\ [id |-> given', host |-> call'[p].ack.host, sess |-> n] \in bound'
    /\ \A q \in Requesters \ {p} : call'[q] = call[q]
GotStep ==
    \A p \in Requesters : Got(p)' =>
        \/ Got(p) /\ call'[p] = call[p]
        \/ Granted(p)
AnsweredStep ==
    \A p \in Requesters : call'[p].pc = "answered" =>
        call'[p] = call[p] \/ (up /\ n' = n /\ call'[p].on = n)

(* ... to the sessions, ... *)
SessionStep ==
    /\ n <= n' /\ (up' => n' = n)
    /\ hello' => n' > n \/ (hello /\ n' = n)

(* ... and to the hostnames bound to the present session.                  *)
BoundStep ==
    up' => \/ hello
           \/ /\ up /\ n' = n
              /\ \A l \in bound : l.sess = n /\ ~Closing(l.id) => l \in bound'

Quiet == \A q \in Requesters : call'[q] = call[q] \/ call'[q].pc # "answered"

(* Where nobody is answered, nobody has been given anything.                *)
LEMMA QuietStep ==
    ASSUME Quiet
    PROVE  GotStep /\ AnsweredStep
BY DEF Quiet, GotStep, AnsweredStep, Got

(* All that the daemon speaks of is known, and was given out.               *)
LEMMA KnownMembers ==
    ASSUME Types
    PROVE  /\ 0 \in Known
           /\ \A id \in DOMAIN tunnels : id \in Known
           /\ \A q \in Requesters : call[q].ask.id \in Known
           /\ \A s \in Sessions : \A e \in restore[s].live : e.old \in Known
           /\ \A id \in Known : id \in Nat /\ id <= given
<1> USE Constants
<1>1. given \in 0..MaxTunnels
  BY DEF Types, NumberTypes
<1>2. \A id \in DOMAIN tunnels : id \in 0..MaxTunnels /\ id <= given
  BY <1>1 DEF Types, StateTypes, TunnelTypes
<1>3. \A q \in Requesters : call[q].ask.id \in 0..MaxTunnels /\ call[q].ask.id <= given
  BY DEF Types, CallTypes, GoodCall, Calls, Asks
<1>4. \A s \in Sessions : \A e \in restore[s].live : e.old \in 0..MaxTunnels /\ e.old <= given
  BY DEF Types, RestoreTypes, GoodRestore, Restores, Entries
<1> QED
  BY <1>1, <1>2, <1>3, <1>4 DEF Known

(* Nothing new is spoken of.                                                *)
LEMMA KnownLess ==
    ASSUME \A id \in DOMAIN tunnels' : id \in Known,
           \A q \in Requesters : call'[q].ask.id \in Known,
           \A s \in Sessions : \A e \in restore'[s].live : e.old \in Known,
           0 \in Known
    PROVE  Known' \subseteq Known
BY DEF Known

(* A finished request is not answered, and speaks of nothing new.          *)
LEMMA FinishedKnown ==
    ASSUME Types, NEW p \in Requesters
    PROVE  Finished(p).pc # "answered" /\ Finished(p).ask.id \in Known
<1>1. p \in Sessions => Finished(p).ask.id = 0 /\ Finished(p).pc = "idle"
  BY FinishedFields, IdleFields DEF Types
<1>2. p \notin Sessions => Finished(p).pc = "returned"
  BY FinishedFields DEF Types
<1>3. p \in Closers => Finished(p).ask = call[p].ask
  BY FinishedFields DEF Types
<1>4. p \notin Closers => Finished(p).ask.id = 0
  BY FinishedFields, IdleFields DEF Types
<1> QED
  BY <1>1, <1>2, <1>3, <1>4, KnownMembers

(* The end of a request speaks of nothing new.                              *)
LEMMA ReturnsQuiet ==
    ASSUME Types, NEW p \in Requesters, Returns(p), call[p] # Idle, n' = n, given' = given
    PROVE  /\ Quiet /\ \A q \in Requesters : call'[q].ask.id \in Known
           /\ call'[p].pc # "answered" /\ OnlyCall(p)
<1>1. call'[p] = Finished(p) /\ OnlyCall(p)
  BY ReturnsEffect
<1> QED
  BY <1>1, FinishedKnown, KnownMembers DEF Quiet, OnlyCall

(* A request about what is known speaks of nothing new.                     *)
LEMMA AskQuiet ==
    ASSUME Types, NEW p \in Requesters, OnlyCall(p), NEW ask, call'[p] = AskCall(ask), ask.id \in Known
    PROVE  Quiet /\ \A q \in Requesters : call'[q].ask.id \in Known
<1>1. call'[p].pc = "wait" /\ call'[p].ask = ask
  BY DEF AskCall
<1> QED
  BY <1>1, KnownMembers DEF Quiet, OnlyCall

StepFacts == TunnelStep /\ KnownStep /\ GotStep /\ AnsweredStep /\ SessionStep /\ BoundStep

(* The session stays.                                                       *)
LEMMA SessionSame ==
    ASSUME Types, n' = n, hello' => hello
    PROVE  SessionStep
BY DEF SessionStep, Types, NumberTypes

(* An acknowledged tunnel is installed.                                    *)
LEMMA StepFactsInstall ==
    ASSUME Types, NEW p \in Requesters \ Closers, Opened(p), Install(p), Returns(p),
           up' = up, hello' = hello, n' = n, given' = given, bound' = bound,
           \A s \in Sessions : restore'[s].live = restore[s].live
    PROVE  StepFacts /\ Installs(p, call[p].ack.id)
<1>1. call[p].ask.op = "open" /\ call[p] # Idle /\ Got(p)
  BY Opening DEF Got, Opened
<1>2. Quiet /\ (\A q \in Requesters : call'[q].ask.id \in Known) /\ call'[p].pc # "answered"
  BY <1>1, ReturnsQuiet
<1>3. GotStep /\ AnsweredStep
  BY <1>2, QuietStep
<1>4. Installs(p, call[p].ack.id)
  BY <1>1, <1>2 DEF Installs, Got
<1>5. /\ DOMAIN tunnels' = (DOMAIN tunnels \ {call[p].ask.id}) \cup {call[p].ack.id}
      /\ InstalledAs(tunnels'[call[p].ack.id], call[p])
      /\ \A id \in DOMAIN tunnels \ {call[p].ask.id, call[p].ack.id} : tunnels'[id] = tunnels[id]
  BY <1>1, InstallEffect
<1>6. TunnelStep
  BY <1>4, <1>5 DEF TunnelStep, Keeps
<1>7. KnownStep
  <2>1. ASSUME NEW id \in Known', id # call[p].ack.id PROVE id \in Known
    BY <1>2, <1>5, <2>1, KnownMembers DEF Known
  <2> QED
    BY <1>4, <2>1 DEF KnownStep
<1>8. BoundStep
  BY DEF BoundStep
<1> QED
  BY <1>3, <1>4, <1>6, <1>7, <1>8, SessionSame DEF StepFacts

(* Nothing is installed, answered or unbound.                              *)
LEMMA StepFactsQuiet ==
    ASSUME Types, Quiet, n' = n, up' => up, hello' => hello, bound' = bound,
           \A id \in DOMAIN tunnels' : id \in DOMAIN tunnels /\ Keeps(tunnels[id], tunnels'[id]),
           \A q \in Requesters : call'[q].ask.id \in Known,
           \A s \in Sessions : \A e \in restore'[s].live : e.old \in Known
    PROVE  StepFacts
<1>1. TunnelStep
  BY DEF TunnelStep
<1>2. KnownStep
  BY KnownLess, KnownMembers DEF KnownStep
<1>3. BoundStep
  BY DEF BoundStep
<1> QED
  BY <1>1, <1>2, <1>3, QuietStep, SessionSame DEF StepFacts

(* The tunnels do not change.                                               *)
LEMMA TunnelsSame ==
    ASSUME tunnels' = tunnels
    PROVE  \A id \in DOMAIN tunnels' : id \in DOMAIN tunnels /\ Keeps(tunnels[id], tunnels'[id])
BY DEF Keeps

(* What is to be announced does not change.                                 *)
LEMMA LiveSame ==
    ASSUME Types, restore' = restore
    PROVE  \A s \in Sessions : \A e \in restore'[s].live : e.old \in Known
BY KnownMembers

(* A restoration goes on with no more tunnels to announce.                 *)
LEMMA LiveLess ==
    ASSUME Types, NEW s \in Sessions, NEW pc, NEW l, NEW k, NEW a, NEW b,
           RestoreAt(s, pc, l, k, a, b), \A e \in l : e.old \in Known
    PROVE  \A q \in Sessions : \A e \in restore'[q].live : e.old \in Known
BY KnownMembers DEF RestoreAt, OnlyRestore

(* Every step of the system does what StepFacts says.                       *)
LEMMA StepFactsHold ==
    ASSUME Types, [Next]_vars
    PROVE  StepFacts
<1> USE Constants
<1>0. n \in Nat
  BY DEF Types, NumberTypes
<1>a. CASE Starts
  <2>1. tunnels' = tunnels /\ call' = call /\ restore' = restore /\ n' = n + 1 /\ ~up'
    BY <1>a, StartsEffect DEF Starts, stateVars
  <2>2. TunnelStep
    BY <2>1, TunnelsSame DEF TunnelStep
  <2>3. KnownStep
    BY <2>1, KnownLess, KnownMembers DEF KnownStep
  <2>4. GotStep /\ AnsweredStep
    BY <2>1 DEF GotStep, AnsweredStep, Got
  <2>5. BoundStep /\ SessionStep
    BY <1>0, <2>1 DEF BoundStep, SessionStep
  <2> QED
    BY <2>2, <2>3, <2>4, <2>5 DEF StepFacts
<1>1. CASE Connect
  <2>1. tunnels' = tunnels /\ call' = call /\ n' = n /\ hello /\ ~hello'
    BY <1>1 DEF Connect, stateVars
  <2>2. \A q \in Sessions : \A e \in restore'[q].live : e.old \in Known
    BY <1>1, ConnectEffect, LiveLess
  <2>3. TunnelStep
    BY <2>1, TunnelsSame DEF TunnelStep
  <2>4. KnownStep
    BY <2>1, <2>2, KnownLess, KnownMembers DEF KnownStep
  <2>5. GotStep /\ AnsweredStep
    BY <2>1 DEF GotStep, AnsweredStep, Got
  <2>6. BoundStep /\ SessionStep
    BY <1>0, <2>1 DEF BoundStep, SessionStep
  <2> QED
    BY <2>3, <2>4, <2>5, <2>6 DEF StepFacts
<1>2. CASE Lost
  <2>1. n' = n /\ call' = call /\ restore' = restore /\ tunnels' = tunnels /\ bound' = bound /\ up' = FALSE /\ hello' = FALSE
    BY <1>2 DEF Lost, stateVars, gatewayVars
  <2>2. Quiet
    BY <2>1 DEF Quiet
  <2> QED
    BY <2>1, <2>2, TunnelsSame, LiveSame, KnownMembers, StepFactsQuiet
<1>3. CASE Restart
  <2>1. n' = n /\ up' = FALSE /\ hello' = FALSE /\ bound' = bound
    BY <1>3 DEF Restart, gatewayVars
  <2>2. DOMAIN tunnels' = {} /\ \A s \in Sessions : restore'[s].live = {}
    BY <1>3, RestartEffect, IdleFields
  <2>3. \A p \in Requesters : call'[p].pc # "answered" /\ call'[p].ask.id \in Known
    BY <1>3, RestartEffect, IdleFields, FinishedKnown, KnownMembers
  <2>4. Quiet
    BY <2>3 DEF Quiet
  <2> QED
    BY <2>1, <2>2, <2>3, <2>4, StepFactsQuiet
<1>4. ASSUME NEW p \in Openers, OpenAsks(p) PROVE StepFacts
  <2>1. n' = n /\ restore' = restore /\ tunnels' = tunnels /\ bound' = bound /\ up' = up /\ hello' = hello
    BY <1>4 DEF OpenAsks, daemonVars, stateVars
  <2>2. Open(Wanted[p], 0).id = 0
    BY OpenFields
  <2>3. Quiet /\ \A q \in Requesters : call'[q].ask.id \in Known
    BY <1>4, <2>2, OpenAsksEffect, AskQuiet, KnownMembers
  <2> QED
    BY <2>1, <2>3, TunnelsSame, LiveSame, StepFactsQuiet
<1>5. ASSUME NEW p \in Requesters \ Closers, OpenInstalls(p) \/ (p \in Sessions /\ SpecRestored(p)) PROVE StepFacts
  <2>1. Opened(p) /\ Install(p) /\ Returns(p) /\ up' = up /\ hello' = hello /\ n' = n /\ given' = given /\ bound' = bound
        /\ restore' = restore
    BY <1>5 DEF OpenInstalls, SpecRestored, daemonVars, gatewayVars
  <2> QED
    BY <2>1, StepFactsInstall
<1>6. ASSUME NEW p \in Requesters, OpenFails(p) \/ CloseFails(p) PROVE StepFacts
  <2>1. n' = n /\ given' = given /\ restore' = restore /\ tunnels' = tunnels /\ bound' = bound /\ up' = up /\ hello' = hello /\ Returns(p)
    BY <1>6 DEF OpenFails, CloseFails, daemonVars, gatewayVars, stateVars
  <2>2. call[p] # Idle
    BY <1>6, IdleFields DEF OpenFails, CloseFails, Waits, Refused
  <2> QED
    BY <2>1, <2>2, TunnelsSame, LiveSame, ReturnsQuiet, StepFactsQuiet
<1>7. ASSUME NEW p \in Closers, CloseFinds(p) \/ CloseForgets(p) \/ CloseAsks(p) PROVE StepFacts
  <2>1. n' = n /\ restore' = restore /\ tunnels' = tunnels /\ bound' = bound /\ up' = up /\ hello' = hello
    BY <1>7 DEF CloseFinds, CloseForgets, CloseAsks, daemonVars, stateVars, gatewayVars
  <2>2. OnlyCall(p) /\ call'[p].pc \in {"found", "forgot", "wait"} /\ call'[p].ask.id \in Known
    <3>1. CASE CloseFinds(p)
      BY <3>1, CloseFindsEffect, CloseFields, KnownMembers
    <3>2. CASE CloseForgets(p)
      BY <3>2, CloseForgetsEffect, KnownMembers
    <3>3. CASE CloseAsks(p)
      <4>1. OnlyCall(p) /\ call'[p] = AskCall(call[p].ask)
        BY <3>3, CloseAsksEffect
      <4>2. call'[p].pc = "wait" /\ call'[p].ask = call[p].ask
        BY <4>1 DEF AskCall
      <4> QED
        BY <4>1, <4>2, KnownMembers
    <3> QED
      BY <1>7, <3>1, <3>2, <3>3
  <2>3. Quiet /\ \A q \in Requesters : call'[q].ask.id \in Known
    BY <2>2, KnownMembers DEF Quiet, OnlyCall
  <2> QED
    BY <2>1, <2>3, TunnelsSame, LiveSame, StepFactsQuiet
<1>8. ASSUME NEW p \in Closers, CloseDeletes(p) PROVE StepFacts
  <2>1. n' = n /\ given' = given /\ restore' = restore /\ bound' = bound /\ up' = up /\ hello' = hello /\ Returns(p) /\ p \in Requesters
    BY <1>8 DEF CloseDeletes, daemonVars, gatewayVars
  <2>2. call[p] # Idle /\ \A id \in DOMAIN tunnels' : id \in DOMAIN tunnels /\ Keeps(tunnels[id], tunnels'[id])
    BY <1>8, CloseDeletesEffect DEF Keeps
  <2> QED
    BY <2>1, <2>2, LiveSame, ReturnsQuiet, StepFactsQuiet
<1>9. ASSUME NEW s \in Sessions, Snapshot(s) \/ SpecSkipped(s) \/ SpecChosen(s) \/ RestoreEnds(s) PROVE StepFacts
  <2>1. n' = n /\ call' = call /\ tunnels' = tunnels /\ bound' = bound /\ up' = up /\ hello' = hello
    BY <1>9 DEF Snapshot, SpecSkipped, SpecChosen, RestoreEnds, daemonVars, gatewayVars, stateVars
  <2>2. \A q \in Sessions : \A e \in restore'[q].live : e.old \in Known
    <3>1. CASE Snapshot(s)
      <4>1. PICK l : l = {AsNamed(id) : id \in DOMAIN tunnels}
        OBVIOUS
      <4>2. \A e \in l : e.old \in Known
        BY <4>1, KnownMembers DEF AsNamed
      <4>3. \E pc : RestoreAt(s, pc, l, persistent, restore[s].announced, restore[s].ok)
        BY <3>1, <4>1, SnapshotEffect
      <4> QED
        BY <4>2, <4>3, LiveLess
    <3>2. CASE SpecSkipped(s)
      <4>1. \E k : RestoreAt(s, "run", restore[s].live, k, restore[s].announced, restore[s].ok)
        BY <3>2, SpecSkippedEffect
      <4> QED
        BY <4>1, KnownMembers, LiveLess
    <3>3. CASE RestoreEnds(s)
      BY <3>3, RestoreEndsEffect, KnownMembers, LiveLess
    <3>4. CASE SpecChosen(s)
      <4>1. \E k : RestoreAt(s, "run", restore[s].live, k, restore[s].announced, restore[s].ok)
        BY <3>4, SpecChosenEffect
      <4> QED
        BY <4>1, KnownMembers, LiveLess
    <3> QED
      BY <1>9, <3>1, <3>2, <3>3, <3>4
  <2>3. Quiet
    BY <2>1 DEF Quiet
  <2> QED
    BY <2>1, <2>2, <2>3, TunnelsSame, KnownMembers, StepFactsQuiet
<1>10. ASSUME NEW s \in Sessions, Announce(s) PROVE StepFacts
  <2>1. n' = n /\ tunnels' = tunnels /\ bound' = bound /\ up' = up /\ hello' = hello /\ s \in Requesters
    BY <1>10 DEF Announce, daemonVars, stateVars
  <2>2. PICK e \in restore[s].live :
          /\ call'[s] = AskCall(Open(e, e.old))
          /\ RestoreAt(s, "run", restore[s].live \ {e}, restore[s].specs, restore[s].announced, restore[s].ok)
    BY <1>10, AnnounceEffect
  <2>3. Open(e, e.old).id \in Known
    BY OpenFields, KnownMembers
  <2>4. Quiet /\ \A q \in Requesters : call'[q].ask.id \in Known
    BY <1>10, <2>1, <2>2, <2>3, AnnounceEffect, AskQuiet
  <2>5. PICK l : l = restore[s].live \ {e}
    OBVIOUS
  <2>6. \A x \in l : x.old \in Known
    BY <2>5, KnownMembers
  <2>7. \A q \in Sessions : \A x \in restore'[q].live : x.old \in Known
    BY <2>2, <2>5, <2>6, LiveLess
  <2> QED
    BY <2>1, <2>4, <2>7, TunnelsSame, StepFactsQuiet
<1>11. ASSUME NEW s \in Sessions, SpecAsks(s) PROVE StepFacts
  <2>1. n' = n /\ tunnels' = tunnels /\ bound' = bound /\ up' = up /\ hello' = hello /\ s \in Requesters
    BY <1>11 DEF SpecAsks, daemonVars, stateVars
  <2>2. PICK spec \in restore[s].next :
          call'[s] = AskCall(Open([local |-> spec.local, sub |-> spec.sub, persist |-> TRUE], 0))
    BY <1>11, SpecAsksEffect
  <2>3. PICK ask : ask = Open([local |-> spec.local, sub |-> spec.sub, persist |-> TRUE], 0)
    OBVIOUS
  <2>4. ask.id \in Known
    BY <2>3, OpenFields, KnownMembers
  <2>5. Quiet /\ \A q \in Requesters : call'[q].ask.id \in Known
    BY <1>11, <2>1, <2>2, <2>3, <2>4, AskQuiet, SpecAsksEffect
  <2>6. \A q \in Sessions : \A x \in restore'[q].live : x.old \in Known
    BY <1>11, SpecAsksEffect, KnownMembers, LiveLess
  <2> QED
    BY <2>1, <2>5, <2>6, TunnelsSame, StepFactsQuiet
<1>12. ASSUME NEW s \in Sessions, Announced(s) PROVE StepFacts
  <2>1. Opened(s) /\ Install(s) /\ Returns(s) /\ up' = up /\ hello' = hello /\ n' = n /\ given' = given /\ bound' = bound
        /\ s \in Requesters \ Closers
    BY <1>12 DEF Announced, daemonVars, gatewayVars
  <2>2. \A q \in Sessions : restore'[q].live = restore[q].live
    BY <1>12, AnnouncedEffect DEF RestoreAt, OnlyRestore
  <2> QED
    BY <2>1, <2>2, StepFactsInstall
<1>13. ASSUME NEW s \in Sessions, AnnounceFails(s) PROVE StepFacts
  <2>1. n' = n /\ given' = given /\ bound' = bound /\ up' = up /\ hello' = hello /\ s \in Requesters
    BY <1>13 DEF AnnounceFails, daemonVars, gatewayVars
  <2>2. CASE Unanswered(s)
    <3>1. Quiet /\ \A q \in Requesters : call'[q].ask.id \in Known
      BY <2>1, <2>2, UnansweredEffect, ReturnsQuiet DEF Unanswered
    <3>2. \A id \in DOMAIN tunnels' : id \in DOMAIN tunnels /\ Keeps(tunnels[id], tunnels'[id])
      BY <2>1, <2>2, StaleEffect DEF Unanswered, StaleOnly, Keeps
    <3>3. \A q \in Sessions : \A x \in restore'[q].live : x.old \in Known
      BY <2>1, <2>2, UnansweredEffect, KnownMembers, LiveLess
    <3> QED
      BY <2>1, <3>1, <3>2, <3>3, StepFactsQuiet
  <2>3. CASE NotAsked(s)
    <3>1. call' = call
      BY <2>3 DEF NotAsked
    <3>2. PICK e \in restore[s].live :
            /\ Stale(e.old)
            /\ RestoreAt(s, "run", restore[s].live \ {e}, restore[s].specs, restore[s].announced, FALSE)
      BY <2>1, <2>3, NotAskedEffect
    <3>3. \A id \in DOMAIN tunnels' : id \in DOMAIN tunnels /\ Keeps(tunnels[id], tunnels'[id])
      BY <2>1, <3>2, StaleEffect DEF StaleOnly, Keeps
    <3>4. PICK l : l = restore[s].live \ {e}
      OBVIOUS
    <3>5. \A x \in l : x.old \in Known
      BY <3>4, KnownMembers
    <3>6. \A q \in Sessions : \A x \in restore'[q].live : x.old \in Known
      BY <3>2, <3>4, <3>5, LiveLess
    <3>7. Quiet
      BY <3>1 DEF Quiet
    <3> QED
      BY <2>1, <3>1, <3>3, <3>6, <3>7, KnownMembers, StepFactsQuiet
  <2> QED
    BY <1>13, <2>2, <2>3 DEF AnnounceFails, Unanswered, NotAsked
<1>14. ASSUME NEW s \in Sessions, SpecFails(s) PROVE StepFacts
  <2>1. n' = n /\ given' = given /\ bound' = bound /\ up' = up /\ hello' = hello /\ s \in Requesters /\ tunnels' = tunnels /\ Returns(s)
    BY <1>14 DEF SpecFails, daemonVars, gatewayVars, stateVars
  <2>2. \A q \in Sessions : \A x \in restore'[q].live : x.old \in Known
    BY <1>14, SpecFailsEffect, KnownMembers, LiveLess
  <2>3. Quiet /\ \A q \in Requesters : call'[q].ask.id \in Known
    <3>1. call'[s] = Idle /\ \A q \in Requesters \ {s} : call'[q] = call[q]
      BY <1>14, SpecFailsEffect
    <3>2. Idle.ask.id = 0 /\ Idle.pc # "answered"
      BY IdleFields
    <3> QED
      BY <3>1, <3>2, KnownMembers DEF Quiet
  <2> QED
    BY <2>1, <2>2, <2>3, TunnelsSame, StepFactsQuiet
<1>15. ASSUME NEW s \in Sessions, GatewayOpens(s) \/ GatewayRefuses(s) \/ GatewayReleases(s) PROVE StepFacts
  <2>1. n' = n /\ up' = up /\ hello' = hello /\ tunnels' = tunnels /\ restore' = restore
    BY <1>15 DEF GatewayOpens, GatewayRefuses, GatewayReleases, daemonVars, stateVars
  <2>2. \/ call' = call
        \/ \E w \in Requesters :
             /\ up /\ call[w].on = n
             /\ call'[w].pc = "answered" /\ call'[w].on = call[w].on /\ call'[w].ask = call[w].ask
             /\ \/ call'[w].ack.id = 0 \/ call[w].ask.op = "close"
                \/ Granted(w)
             /\ \A q \in Requesters \ {w} : call'[q] = call[q]
    <3>1. CASE GatewayOpens(s)
      <4>1. PICK m \in Messages, host \in Hosts :
              /\ m.ask.op = "open" /\ m.ask.sub \in {Random, host}
              /\ bound' = bound \cup {[id |-> given', host |-> host, sess |-> s]}
              /\ \/ call' = call
                 \/ /\ up /\ s = n /\ Waits(m.who) /\ call[m.who].on = n /\ call[m.who].ask = m.ask
                    /\ AnsweredAs(m.who, [id |-> given', host |-> host])
                    /\ \A q \in Requesters \ {m.who} : call'[q] = call[q]
        BY <3>1, GatewayOpensEffect
      <4>2. ASSUME call' # call PROVE Granted(m.who) /\ m.who \in Requesters
        BY <3>1, <4>1, <4>2, GatewayOpensEffect DEF Granted, AnsweredAs, Messages
      <4> QED
        BY <4>1, <4>2 DEF AnsweredAs
    <3>2. CASE GatewayRefuses(s)
      BY <3>2, GatewayRefusesEffect, IdleFields DEF AnsweredAs, Messages
    <3>3. CASE GatewayReleases(s)
      <4>1. PICK m \in Messages, id \in 0..MaxTunnels :
              /\ m.ask.op = "close"
              /\ \/ call' = call
                 \/ /\ up /\ s = n /\ Waits(m.who) /\ call[m.who].on = n /\ call[m.who].ask = m.ask
                    /\ AnsweredAs(m.who, [id |-> id, host |-> 0])
                    /\ \A q \in Requesters \ {m.who} : call'[q] = call[q]
        BY <3>3, GatewayReleasesEffect
      <4>2. m.who \in Requesters
        BY DEF Messages
      <4> QED
        BY <4>1, <4>2 DEF AnsweredAs
    <3> QED
      BY <1>15, <3>1, <3>2, <3>3
  <2>3. GotStep /\ AnsweredStep
    BY <2>1, <2>2 DEF GotStep, AnsweredStep, Got
  <2>4. \A q \in Requesters : call'[q].ask.id \in Known
    BY <2>2, KnownMembers
  <2>5. KnownStep
    BY <2>1, <2>4, KnownLess, KnownMembers DEF KnownStep
  <2>7. SessionStep
    BY <2>1, SessionSame
  <2>6. BoundStep
    <3>1. \/ bound \subseteq bound'
          \/ \E id : Closing(id) /\ bound' = {l \in bound : l.id # id}
      BY <1>15, GatewayOpensEffect, GatewayReleasesEffect DEF GatewayRefuses
    <3> QED
      BY <2>1, <3>1 DEF BoundStep
  <2> QED
    BY <2>1, <2>3, <2>5, <2>6, <2>7, TunnelsSame DEF StepFacts, TunnelStep
<1>16. ASSUME NEW s \in Sessions, GatewayDrops(s) PROVE StepFacts
  <2>1. n' = n /\ up' = up /\ hello' = hello /\ tunnels' = tunnels /\ restore' = restore
    BY <1>16 DEF GatewayDrops, daemonVars, stateVars
  <2>2. call' = call /\ s < n /\ bound' = {l \in bound : l.sess # s}
    BY <1>16, GatewayDropsEffect
  <2>3. GotStep /\ AnsweredStep
    BY <2>1, <2>2 DEF GotStep, AnsweredStep, Got
  <2>4. KnownStep
    BY <2>1, <2>2, KnownLess, KnownMembers DEF KnownStep
  <2>5. n # s
    BY <2>2 DEF Types, NumberTypes, Sessions
  <2>6. BoundStep
    BY <2>1, <2>2, <2>5 DEF BoundStep
  <2> QED
    BY <2>1, <2>3, <2>4, <2>6, SessionSame, TunnelsSame DEF StepFacts, TunnelStep
<1>17. CASE UNCHANGED vars
  <2>1. n' = n /\ call' = call /\ restore' = restore /\ tunnels' = tunnels /\ bound' = bound /\ up' = up /\ hello' = hello
    BY <1>17 DEF vars, daemonVars, stateVars, gatewayVars
  <2>2. Quiet
    BY <2>1 DEF Quiet
  <2> QED
    BY <2>1, <2>2, TunnelsSame, LiveSame, KnownMembers, StepFactsQuiet
<1> QED
  BY <1>a, <1>1, <1>2, <1>3, <1>4, <1>5, <1>6, <1>7, <1>8, <1>9, <1>10, <1>11, <1>12, <1>13, <1>14, <1>15,
     <1>16, <1>17 DEF Next

-----------------------------------------------------------------------------
(* Nothing is of a session whose hello is not acknowledged.  A tunnel that *)
(* somebody has been given and has not installed is news to everybody      *)
(* else; it is routed while its session lasts.                             *)
Routed(id, host) == [id |-> id, host |-> host, sess |-> n] \in bound
Fresh(p) ==
    /\ call[p].ack.id \notin Known
    /\ call[p].ask.sub \in {Random, call[p].ack.host}
    /\ up /\ call[p].on = n => Routed(call[p].ack.id, call[p].ack.host)
Answers ==
    /\ hello => /\ \A p \in Requesters : call[p].pc = "answered" => call[p].on < n
                /\ \A id \in DOMAIN tunnels : tunnels[id].on < n
    /\ \A p \in Requesters : Got(p) => Fresh(p)
    /\ \A p, q \in Requesters : Got(p) /\ Got(q) /\ p # q => call[p].ack.id # call[q].ack.id

(* Every step keeps Answers: an id given out is above all that is known.    *)
LEMMA AnswersStep ==
    ASSUME Types, Types', Answers, StepFacts
    PROVE  Answers'
<1>1. TunnelStep /\ KnownStep /\ GotStep /\ AnsweredStep /\ SessionStep /\ BoundStep
  BY DEF StepFacts
<1>0. /\ n \in Nat /\ n' \in Nat /\ ~(up /\ hello)
      /\ \A p \in Requesters : call[p].on \in Nat /\ call[p].on <= n
      /\ \A id \in DOMAIN tunnels : tunnels[id].on \in Nat /\ tunnels[id].on <= n
  BY Constants DEF Types, NumberTypes, CallTypes, GoodCall, Calls, StateTypes, TunnelTypes, TunnelOf, Sessions
<1>2. ASSUME hello'
      PROVE  /\ \A p \in Requesters : call'[p].pc = "answered" => call'[p].on < n'
             /\ \A id \in DOMAIN tunnels' : tunnels'[id].on < n'
  <2>1. n' > n \/ (hello /\ n' = n)
    BY <1>1, <1>2 DEF SessionStep
  <2>2. \A p \in Requesters : call[p].pc = "answered" => call[p].on < n'
    BY <1>0, <2>1 DEF Answers
  <2>3. \A id \in DOMAIN tunnels : tunnels[id].on < n'
    BY <1>0, <2>1 DEF Answers
  <2>4. ASSUME NEW p \in Requesters, call'[p].pc = "answered" PROVE call'[p].on < n'
    BY <1>0, <1>1, <2>1, <2>2, <2>4 DEF AnsweredStep
  <2>5. ASSUME NEW id \in DOMAIN tunnels' PROVE tunnels'[id].on < n'
    <3>1. CASE id \in DOMAIN tunnels /\ Keeps(tunnels[id], tunnels'[id])
      BY <2>3, <3>1 DEF Keeps
    <3>2. ASSUME NEW p \in Requesters, Installs(p, id), InstalledAs(tunnels'[id], call[p]) PROVE tunnels'[id].on < n'
      BY <2>2, <3>2 DEF Installs, InstalledAs, Got
    <3> QED
      BY <1>1, <3>1, <3>2 DEF TunnelStep
  <2> QED
    BY <2>4, <2>5
<1>3. given \in Nat /\ \A p \in Requesters : call[p].ack.id \in Nat /\ call[p].ack.id <= given
  BY Constants DEF Types, NumberTypes, CallTypes, GoodCall, Calls, Acks
<1>4. ASSUME NEW p \in Requesters, Got(p)' PROVE Fresh(p)'
  <2>1. CASE Got(p) /\ call'[p] = call[p]
    <3>1. Fresh(p)
      BY <2>1 DEF Answers
    <3>2. call[p].ack.id \notin Known'
      <4>1. SUFFICES ASSUME NEW q \in Requesters, Installs(q, call[p].ack.id) PROVE FALSE
        BY <1>1, <3>1 DEF KnownStep, Fresh
      <4>2. q # p
        BY <4>1, <1>4 DEF Installs
      <4> QED
        BY <2>1, <4>1, <4>2 DEF Installs, Answers
    <3>3. ASSUME up', call[p].on = n' PROVE Routed(call[p].ack.id, call[p].ack.host)'
      <4>1. ~Closing(call[p].ack.id)
        BY <3>1, KnownMembers, Constants DEF Closing, Fresh
      <4>0. n' = n /\ ~hello /\ up
        <5>1. n' = n
          BY <1>1, <3>3 DEF SessionStep
        <5>2. ~hello
          BY <1>0, <2>1, <3>3, <5>1 DEF Answers, Got
        <5> QED
          BY <1>1, <3>3, <5>1, <5>2 DEF BoundStep
      <4>2. up /\ Routed(call[p].ack.id, call[p].ack.host)
        BY <3>1, <3>3, <4>0 DEF Fresh
      <4>3. PICK l \in bound : l = [id |-> call[p].ack.id, host |-> call[p].ack.host, sess |-> n]
        BY <4>2 DEF Routed
      <4>4. l.sess = n /\ l.id = call[p].ack.id
        BY <4>3
      <4>5. l \in bound'
        BY <1>1, <3>3, <4>0, <4>1, <4>3, <4>4 DEF BoundStep
      <4> QED
        BY <2>1, <4>0, <4>3, <4>5 DEF Routed
    <3> QED
      BY <2>1, <3>1, <3>2, <3>3 DEF Fresh
  <2>2. CASE Granted(p)
    <3>1. call'[p].ack.id \notin Known
      BY <1>3, <2>2, KnownMembers DEF Granted
    <3>2. call'[p].ack.id \notin Known'
      <4>1. SUFFICES ASSUME NEW q \in Requesters, Installs(q, call'[p].ack.id) PROVE FALSE
        BY <1>1, <3>1 DEF KnownStep
      <4> QED
        BY <1>3, <2>2, <4>1 DEF Installs, Granted
    <3>3. call'[p].on = n' => n' = n
      <4>1. call'[p].ack.id # call[p].ack.id
        BY <1>3, <2>2 DEF Granted
      <4> QED
        BY <1>1, <1>4, <4>1 DEF AnsweredStep, Got
    <3> QED
      BY <2>2, <3>2, <3>3 DEF Fresh, Granted, Routed
  <2> QED
    BY <1>1, <1>4, <2>1, <2>2 DEF GotStep
<1>5. ASSUME NEW p \in Requesters, NEW q \in Requesters, Got(p)', Got(q)', p # q
      PROVE  call'[p].ack.id # call'[q].ack.id
  <2>1. CASE Got(p) /\ call'[p] = call[p] /\ Got(q) /\ call'[q] = call[q]
    BY <1>5, <2>1 DEF Answers
  <2>2. CASE Granted(p)
    BY <1>3, <1>5, <2>2 DEF Granted
  <2>3. CASE Granted(q)
    BY <1>3, <1>5, <2>3 DEF Granted
  <2> QED
    BY <1>1, <1>5, <2>1, <2>2, <2>3 DEF GotStep
<1> QED
  BY <1>2, <1>4, <1>5 DEF Answers

(* Every step keeps ServedWhileUp: what is installed is routed by Answers.  *)
LEMMA ServedStep ==
    ASSUME Types, Types', Answers, ServedWhileUp, StepFacts, ClosersKept
    PROVE  ServedWhileUp'
<1> USE Constants
<1>1. TunnelStep /\ SessionStep /\ BoundStep
  BY DEF StepFacts
<1> SUFFICES ASSUME up', NEW id \in DOMAIN tunnels', tunnels'[id].on = n', ~Closing(id)'
             PROVE  [id |-> id, host |-> tunnels'[id].host, sess |-> n'] \in bound'
  BY DEF ServedWhileUp
<1>2. n \in Nat /\ n' = n
  BY <1>1 DEF Types, NumberTypes, SessionStep
<1>3. ~Closing(id)
  BY DEF Closing, ClosersKept
<1>4. ASSUME NEW host, up, n' = n, [id |-> id, host |-> host, sess |-> n] \in bound
      PROVE  [id |-> id, host |-> host, sess |-> n'] \in bound'
  <2>1. PICK l \in bound : l = [id |-> id, host |-> host, sess |-> n]
    BY <1>4
  <2>2. l.sess = n /\ l.id = id
    BY <2>1
  <2>3. l \in bound'
    BY <1>1, <1>2, <1>3, <1>4, <2>1, <2>2 DEF BoundStep, Types, NumberTypes
  <2> QED
    BY <1>4, <2>1, <2>3
<1>5. CASE id \in DOMAIN tunnels /\ Keeps(tunnels[id], tunnels'[id])
  <2>1. tunnels[id].on = n /\ tunnels'[id].host = tunnels[id].host
    BY <1>2, <1>5 DEF Keeps
  <2>2. up
    BY <1>1, <1>2, <1>5, <2>1 DEF BoundStep, Answers
  <2> QED
    BY <1>2, <1>3, <1>4, <1>5, <2>1, <2>2 DEF ServedWhileUp
<1>6. ASSUME NEW p \in Requesters, Installs(p, id), InstalledAs(tunnels'[id], call[p])
      PROVE  [id |-> id, host |-> tunnels'[id].host, sess |-> n'] \in bound'
  <2>1. Got(p) /\ id = call[p].ack.id /\ tunnels'[id].host = call[p].ack.host /\ call[p].on = n
    BY <1>2, <1>6 DEF Installs, InstalledAs
  <2>2. up
    BY <1>1, <1>2, <2>1 DEF BoundStep, Answers, Got
  <2>3. Routed(id, call[p].ack.host)
    BY <2>1, <2>2 DEF Answers, Fresh
  <2> QED
    BY <1>2, <1>4, <2>1, <2>2, <2>3 DEF Routed
<1> QED
  BY <1>1, <1>5, <1>6 DEF TunnelStep

(* Nothing is known, asked or installed at first.                           *)
LEMMA InitHolds ==
    ASSUME Init
    PROVE  Types /\ Answers /\ ServedWhileUp
<1> USE Constants, IdleFields
<1>1. \A p \in Requesters : call[p] = Idle
  BY DEF Init
<1>2. \A s \in Sessions : restore[s] = Off
  BY DEF Init
<1>3. tunnels = <<>> /\ DOMAIN tunnels = {}
  BY DEF Init
<1>4. NumberTypes
  <2>1. up = FALSE /\ n = 0 /\ restarts = 0 /\ given = 0 /\ served = {} /\ hello = FALSE
    BY DEF Init
  <2>2. 0 \in 0..MaxSessions /\ 0 \in 0..MaxRestarts /\ 0 \in 0..MaxTunnels
    OBVIOUS
  <2> QED
    BY <2>1, <2>2 DEF NumberTypes
<1>5. StateTypes
  <2>1. persistent \subseteq SpecTypes /\ bound = {}
    BY DEF Init
  <2> QED
    BY <1>3, <2>1 DEF StateTypes, TunnelTypes, BoundTypes
<1>6. CallTypes
  <2>1. call \in [Requesters -> Calls]
    BY DEF Init
  <2>2. \A p \in Requesters : GoodCall(p, call[p])
    BY <1>1, <1>4 DEF GoodCall, NumberTypes
  <2> QED
    BY <2>1, <2>2 DEF CallTypes
<1>7. RestoreTypes
  BY <1>1, <1>2 DEF RestoreTypes, GoodRestore, Init
<1>8. MessageTypes
  BY DEF MessageTypes, Init
<1>9. Answers
  <2>1. hello = FALSE
    BY DEF Init
  <2> QED
    BY <1>1, <2>1 DEF Answers, Got
<1>10. ServedWhileUp
  BY DEF ServedWhileUp, Init
<1> QED
  BY <1>4, <1>5, <1>6, <1>7, <1>8, <1>9, <1>10 DEF Types

-----------------------------------------------------------------------------
(* A restoration that has begun; what a restart leaves.                    *)
Begun(s) == restore[s].pc \in {"run", "done"}
Restarted == DOMAIN tunnels' = {} /\ \A s \in Sessions : ~Begun(s)'

(* What a step does to the tunnels that leave, ... *)
RemovedStep ==
    \A id \in DOMAIN tunnels \ DOMAIN tunnels' :
        \/ restarts' > restarts /\ Restarted
        \/ Closing(id)
        \/ \E p \in Requesters :
             /\ Installs(p, call[p].ack.id) /\ call[p].ask.id = id
             /\ call[p].ack.id \in DOMAIN tunnels' /\ InstalledAs(tunnels'[call[p].ack.id], call[p])

(* ... to the tunnels that restoreTunnels has to announce again, ... *)
Same(e, t) == e.local = t.local /\ e.sub = t.host /\ e.persist = t.persist
LiveStep ==
    \A s \in Sessions : \A e \in restore'[s].live :
        \/ e \in restore[s].live
        \/ e.old \in DOMAIN tunnels /\ Same(e, tunnels[e.old])

(* ... to what is asked, ... *)
AskStep ==
    \A p \in Requesters : call'[p].ask.op = "open" /\ call'[p].ask.id # 0 =>
        \/ call'[p].ask = call[p].ask
        \/ \E s \in Sessions : \E e \in restore[s].live : call'[p].ask = Open(e, e.old)

(* ... to the tunnels that the present session has yet to announce, ... *)
ToAnnounce(s, id) == \/ \E e \in restore[s].live : e.old = id
                     \/ call[s].pc \in {"wait", "answered"} /\ call[s].ask.id = id
Pending(id) == ToAnnounce(n, id)
Settled == \A p \in Requesters : call[p].pc = "answered" => call[p].on = n
PendingStep ==
    n' > 0 /\ Begun(n)' =>
        /\ n' = n
        /\ \/ /\ Begun(n)
              /\ \A id \in DOMAIN tunnels \cap DOMAIN tunnels' :
                    Pending(id) => Pending(id)' \/ tunnels'[id].status = "stale"
           \/ tunnels' = tunnels /\ Settled' /\ \A id \in DOMAIN tunnels : Pending(id)'

(* ... and to what has failed.                                             *)
FailedStep ==
    /\ \A s \in Sessions : restore'[s].ok => restore[s].ok \/ Restarted
    /\ \A id \in DOMAIN tunnels' : tunnels'[id].status = "stale" =>
         \/ id \in DOMAIN tunnels /\ tunnels[id].status = "stale"
         \/ \E s \in Sessions : ~restore'[s].ok

AnnounceFacts == RemovedStep /\ LiveStep /\ AskStep /\ PendingStep /\ FailedStep

(* The present session's restoration does not change.                      *)
LEMMA PendingSame ==
    ASSUME Types, n' = n,
           n > 0 => /\ restore'[n].live = restore[n].live
                    /\ Begun(n)' => Begun(n)
                    /\ call[n].pc \in {"wait", "answered"} =>
                         call'[n].pc \in {"wait", "answered"} /\ call'[n].ask = call[n].ask
    PROVE  PendingStep
BY DEF PendingStep, Pending, ToAnnounce

(* The tunnels and the restorations do not change.                         *)
LEMMA AnnounceFactsSame ==
    ASSUME Types, n' = n, restore' = restore,
           \A id \in DOMAIN tunnels' : id \in DOMAIN tunnels /\ tunnels'[id] = tunnels[id],
           RemovedStep,
           \A q \in Requesters : \/ call'[q].ask = call[q].ask
                                  \/ call'[q].ask.op # "open" \/ call'[q].ask.id = 0,
           \A s \in Sessions : call'[s] = call[s] \/ (call'[s].pc = "answered" /\ call'[s].ask = call[s].ask)
    PROVE  AnnounceFacts
<1>1. LiveStep
  BY DEF LiveStep
<1>2. AskStep
  BY DEF AskStep
<1>3. PendingStep
  <2>1. n > 0 => n \in Sessions
    BY Constants DEF Types, NumberTypes, Sessions
  <2>2. Begun(n)' => Begun(n)
    BY DEF Begun
  <2> QED
    BY <2>1, <2>2, PendingSame
<1>4. FailedStep
  BY DEF FailedStep
<1> QED
  BY <1>1, <1>2, <1>3, <1>4 DEF AnnounceFacts

(* A finished request asks what it asked or opens nothing.                  *)
LEMMA FinishedAsks ==
    ASSUME Types, NEW p \in Requesters
    PROVE  Finished(p).ask = call[p].ask \/ Finished(p).ask.op # "open"
BY FinishedFields, IdleFields, Constants DEF Types

(* No tunnel leaves.                                                        *)
LEMMA RemovedNone ==
    ASSUME DOMAIN tunnels \subseteq DOMAIN tunnels'
    PROVE  RemovedStep
BY DEF RemovedStep

(* An acknowledged tunnel is installed.                                    *)
LEMMA AnnounceFactsInstall ==
    ASSUME Types, NEW p \in Requesters \ Closers, Opened(p), Install(p), Returns(p),
           up' = up, n' = n, given' = given, bound' = bound, Answers,
           \A s \in Sessions : /\ restore'[s].live = restore[s].live /\ restore'[s].ok = restore[s].ok
                               /\ Begun(s)' => Begun(s)
    PROVE  AnnounceFacts
<1> USE Constants
<1>1. call[p].ask.op = "open" /\ call[p] # Idle /\ Got(p)
  BY Opening DEF Got, Opened
<1>2. call'[p] = Finished(p) /\ (\A q \in Requesters \ {p} : call'[q] = call[q])
  BY <1>1, ReturnsEffect
<1>3. Installs(p, call[p].ack.id)
  BY <1>1, <1>2, FinishedKnown DEF Installs, Got
<1>4. /\ DOMAIN tunnels' = (DOMAIN tunnels \ {call[p].ask.id}) \cup {call[p].ack.id}
      /\ InstalledAs(tunnels'[call[p].ack.id], call[p])
      /\ \A id \in DOMAIN tunnels \ {call[p].ask.id, call[p].ack.id} : tunnels'[id] = tunnels[id]
  BY <1>1, InstallEffect
<1>5. call[p].ack.id \notin Known
  BY <1>1 DEF Answers, Fresh
<1>6. RemovedStep
  BY <1>3, <1>4 DEF RemovedStep
<1>7. LiveStep
  BY DEF LiveStep
<1>8. AskStep
  BY <1>2, FinishedAsks DEF AskStep
<1>9. FailedStep
  BY <1>4 DEF FailedStep, InstalledAs
<1>10. PendingStep
  <2>1. SUFFICES ASSUME n > 0, Begun(n)' PROVE PendingStep
    BY DEF PendingStep
  <2>2. n \in Sessions /\ Begun(n)
    BY <2>1 DEF Types, NumberTypes, Sessions, Begun
  <2>3. ASSUME NEW id \in DOMAIN tunnels \cap DOMAIN tunnels', Pending(id) PROVE Pending(id)'
    <3>1. CASE \E e \in restore[n].live : e.old = id
      BY <2>2, <3>1 DEF Pending, ToAnnounce
    <3>2. CASE call[n].pc \in {"wait", "answered"} /\ call[n].ask.id = id
      <4>1. id # call[p].ask.id
        BY <1>4, <1>5, <2>3, KnownMembers
      <4>2. call'[n] = call[n]
        BY <1>2, <2>2, <3>2, <4>1
      <4> QED
        BY <2>2, <3>2, <4>2 DEF Pending, ToAnnounce
    <3> QED
      BY <2>3, <3>1, <3>2 DEF Pending, ToAnnounce
  <2> QED
    BY <2>2, <2>3 DEF PendingStep
<1> QED
  BY <1>6, <1>7, <1>8, <1>9, <1>10 DEF AnnounceFacts

(* The restoration of session s goes on.                                   *)
LEMMA AnnounceFactsRestore ==
    ASSUME Types, NEW s \in Sessions, NEW pc, NEW l, NEW k, NEW a, NEW b,
           RestoreAt(s, pc, l, k, a, b), n' = n, restore[s].pc = "run",
           \A e \in l : e \in restore[s].live, b => restore[s].ok,
           DOMAIN tunnels' = DOMAIN tunnels,
           \A id \in DOMAIN tunnels : tunnels'[id] = tunnels[id] \/ (tunnels'[id].status = "stale" /\ ~b),
           \A q \in Requesters : q # s => call'[q] = call[q],
           \/ call'[s].ask = call[s].ask
           \/ call'[s].ask.op # "open" \/ call'[s].ask.id = 0
           \/ \E e \in restore[s].live : call'[s].ask = Open(e, e.old),
           \A id \in DOMAIN tunnels : ToAnnounce(s, id) => ToAnnounce(s, id)' \/ tunnels'[id].status = "stale"
    PROVE  AnnounceFacts
<1> USE Constants
<1>1. RemovedStep
  BY DEF RemovedStep
<1>2. LiveStep
  BY DEF LiveStep, RestoreAt, OnlyRestore
<1>3. AskStep
  <2>1. s \in Requesters
    OBVIOUS
  <2> QED
    BY <2>1 DEF AskStep
<1>4. PendingStep
  <2>1. SUFFICES ASSUME n > 0, Begun(n)' PROVE PendingStep
    BY DEF PendingStep
  <2>2. n \in Sessions /\ n \in Requesters
    BY <2>1 DEF Types, NumberTypes, Sessions
  <2>3. CASE n = s
    BY <2>3 DEF PendingStep, Pending, Begun
  <2>4. CASE n # s
    <3>1. restore'[n] = restore[n] /\ call'[n] = call[n]
      BY <2>2, <2>4 DEF RestoreAt, OnlyRestore
    <3> QED
      BY <2>1, <2>2, <3>1 DEF PendingStep, Pending, Begun, ToAnnounce
  <2> QED
    BY <2>3, <2>4
<1>5. FailedStep
  <2>1. restore'[s].ok = b /\ \A q \in Sessions : q # s => restore'[q] = restore[q]
    BY DEF RestoreAt, OnlyRestore
  <2> QED
    BY <2>1 DEF FailedStep
<1> QED
  BY <1>1, <1>2, <1>3, <1>4, <1>5 DEF AnnounceFacts

(* Every step of the system does what AnnounceFacts says.                   *)
LEMMA AnnounceFactsHold ==
    ASSUME Types, Answers, [Next]_vars
    PROVE  AnnounceFacts
<1> USE Constants
<1>a. CASE Starts
  <2>1. tunnels' = tunnels /\ call' = call /\ restore' = restore /\ n' = n + 1 /\ n \in Nat /\ n' \in Sessions
    BY <1>a, StartsEffect DEF Starts, stateVars
  <2>2. PICK m \in Sessions : m = n + 1 /\ n' = m
    BY <2>1
  <2>6. restore'[m].pc = "off"
    <3>1. GoodRestore(m) /\ ~(m <= n)
      BY <2>1, <2>2 DEF Types, RestoreTypes
    <3> QED
      BY <2>1, <3>1 DEF GoodRestore
  <2>3. RemovedStep
    BY <2>1, RemovedNone
  <2>4. LiveStep /\ AskStep /\ FailedStep
    BY <2>1 DEF LiveStep, AskStep, FailedStep
  <2>5. PendingStep
    BY <2>2, <2>6 DEF PendingStep, Begun
  <2> QED
    BY <2>3, <2>4, <2>5 DEF AnnounceFacts
<1>1. CASE Connect
  <2>1. tunnels' = tunnels /\ call' = call /\ n' = n /\ n \in Sessions
    BY <1>1, ConnectEffect DEF Connect, stateVars
  <2>2. \A q \in Sessions : restore'[q].ok = restore[q].ok /\ \A e \in restore'[q].live : e \in restore[q].live
    BY <1>1, ConnectEffect DEF RestoreAt, OnlyRestore
  <2>3. restore'[n'].pc = "sleep"
    BY <1>1, <2>1, ConnectEffect DEF RestoreAt
  <2>4. RemovedStep
    BY <2>1, RemovedNone
  <2>5. LiveStep
    BY <2>2 DEF LiveStep
  <2>6. AskStep
    BY <2>1 DEF AskStep
  <2>7. PendingStep
    BY <2>3 DEF PendingStep, Begun
  <2>8. FailedStep
    BY <2>1, <2>2 DEF FailedStep
  <2> QED
    BY <2>4, <2>5, <2>6, <2>7, <2>8 DEF AnnounceFacts
<1>2. CASE Lost
  <2>1. n' = n /\ call' = call /\ restore' = restore /\ tunnels' = tunnels
    BY <1>2 DEF Lost, stateVars, gatewayVars
  <2> QED
    BY <2>1, RemovedNone, AnnounceFactsSame
<1>3. CASE Restart
  <2>1. n' = n /\ restarts' > restarts
    BY <1>3 DEF Restart, Types, NumberTypes
  <2>2. DOMAIN tunnels' = {} /\ \A s \in Sessions : restore'[s] = Off
    BY <1>3, RestartEffect
  <2>9. Restarted
    BY <2>2, IdleFields DEF Restarted, Begun
  <2>3. RemovedStep
    BY <2>1, <2>9 DEF RemovedStep
  <2>4. LiveStep
    BY <2>2, IdleFields DEF LiveStep
  <2>5. AskStep
    BY <1>3, RestartEffect, IdleFields, FinishedAsks DEF AskStep
  <2>6. n > 0 => n \in Sessions
    BY DEF Types, NumberTypes, Sessions
  <2>7. PendingStep
    BY <2>1, <2>2, <2>6, IdleFields DEF PendingStep, Begun
  <2>8. FailedStep
    BY <2>2, <2>9 DEF FailedStep
  <2> QED
    BY <2>3, <2>4, <2>5, <2>7, <2>8 DEF AnnounceFacts
<1>4. ASSUME NEW p \in Openers, OpenAsks(p) PROVE AnnounceFacts
  <2>1. n' = n /\ restore' = restore /\ tunnels' = tunnels
    BY <1>4 DEF OpenAsks, daemonVars, stateVars
  <2>2. OnlyCall(p) /\ call'[p] = AskCall(Open(Wanted[p], 0))
    BY <1>4, OpenAsksEffect
  <2>3. call'[p].ask.id = 0
    BY <2>2, OpenFields DEF AskCall
  <2> QED
    BY <2>1, <2>2, <2>3, RemovedNone, AnnounceFactsSame DEF OnlyCall
<1>5. ASSUME NEW p \in Requesters \ Closers, OpenInstalls(p) \/ (p \in Sessions /\ SpecRestored(p)) PROVE AnnounceFacts
  <2>1. Opened(p) /\ Install(p) /\ Returns(p) /\ up' = up /\ n' = n /\ given' = given /\ bound' = bound
        /\ restore' = restore
    BY <1>5 DEF OpenInstalls, SpecRestored, daemonVars, gatewayVars
  <2>2. \A s \in Sessions : Begun(s)' => Begun(s)
    BY <2>1 DEF Begun
  <2> QED
    BY <2>1, <2>2, AnnounceFactsInstall
<1>6. ASSUME NEW p \in Openers \cup Closers, OpenFails(p) \/ CloseFails(p) PROVE AnnounceFacts
  <2>1. n' = n /\ given' = given /\ restore' = restore /\ tunnels' = tunnels /\ Returns(p) /\ p \in Requesters
    BY <1>6 DEF OpenFails, CloseFails, daemonVars, gatewayVars, stateVars
  <2>2. call[p] # Idle
    BY <1>6, IdleFields DEF OpenFails, CloseFails, Waits, Refused
  <2>3. call'[p] = Finished(p) /\ \A q \in Requesters \ {p} : call'[q] = call[q]
    BY <2>1, <2>2, ReturnsEffect
  <2> QED
    BY <1>6, <2>1, <2>3, FinishedAsks, RemovedNone, AnnounceFactsSame
<1>7. ASSUME NEW p \in Closers, CloseFinds(p) \/ CloseForgets(p) \/ CloseAsks(p) PROVE AnnounceFacts
  <2>1. n' = n /\ restore' = restore /\ tunnels' = tunnels
    BY <1>7 DEF CloseFinds, CloseForgets, CloseAsks, daemonVars, stateVars
  <2>2. OnlyCall(p) /\ call'[p].ask.op = "close"
    <3>1. CASE CloseFinds(p)
      BY <3>1, CloseFindsEffect, CloseFields
    <3>2. CASE CloseForgets(p)
      BY <3>2, CloseForgetsEffect
    <3>3. CASE CloseAsks(p)
      <4>1. OnlyCall(p) /\ call'[p] = AskCall(call[p].ask) /\ call[p].ask.op = "close"
        BY <3>3, CloseAsksEffect
      <4> QED
        BY <4>1 DEF AskCall
    <3> QED
      BY <1>7, <3>1, <3>2, <3>3
  <2> QED
    BY <2>1, <2>2, RemovedNone, AnnounceFactsSame DEF OnlyCall
<1>8. ASSUME NEW p \in Closers, CloseDeletes(p) PROVE AnnounceFacts
  <2>1. n' = n /\ given' = given /\ restore' = restore /\ Returns(p) /\ p \in Requesters
    BY <1>8 DEF CloseDeletes, daemonVars, gatewayVars
  <2>2. /\ call[p] # Idle /\ call[p].ask.op = "close"
        /\ DOMAIN tunnels' = DOMAIN tunnels \ {call[p].ask.id}
        /\ \A id \in DOMAIN tunnels' : tunnels'[id] = tunnels[id]
    BY <1>8, CloseDeletesEffect
  <2>3. RemovedStep
    BY <2>2 DEF RemovedStep, Closing
  <2>4. call'[p] = Finished(p) /\ \A q \in Requesters \ {p} : call'[q] = call[q]
    BY <2>1, <2>2, ReturnsEffect
  <2> QED
    BY <2>1, <2>2, <2>3, <2>4, FinishedAsks, AnnounceFactsSame
<1>9. ASSUME NEW s \in Sessions, Snapshot(s) PROVE AnnounceFacts
  <2>1. n' = n /\ call' = call /\ tunnels' = tunnels
    BY <1>9 DEF Snapshot, daemonVars, stateVars
  <2>2. PICK l : l = {AsNamed(id) : id \in DOMAIN tunnels}
    OBVIOUS
  <2>3. restore'[s].live = l /\ restore'[s].ok = restore[s].ok /\ OnlyRestore(s)
    BY <1>9, <2>2, SnapshotEffect DEF RestoreAt
  <2>4. LiveStep
    <3>1. \A e \in l : e.old \in DOMAIN tunnels /\ Same(e, tunnels[e.old])
      BY <2>2 DEF AsNamed, Same
    <3>2. ASSUME NEW q \in Sessions, NEW e \in restore'[q].live, e \notin restore[q].live
          PROVE  e.old \in DOMAIN tunnels /\ Same(e, tunnels[e.old])
      <4>1. q = s
        BY <2>3, <3>2 DEF OnlyRestore
      <4> QED
        BY <2>3, <3>1, <3>2, <4>1
    <3> QED
      BY <3>2 DEF LiveStep
  <2>5. PendingStep
    <3>1. SUFFICES ASSUME n > 0, Begun(n)' PROVE PendingStep
      BY <2>1 DEF PendingStep
    <3>2. n \in Sessions
      BY <3>1 DEF Types, NumberTypes, Sessions
    <3>3. CASE n = s
      <4>1. \A id \in DOMAIN tunnels : \E e \in l : e.old = id
        <5>1. \A id \in DOMAIN tunnels : AsNamed(id) \in l /\ AsNamed(id).old = id
          BY <2>2 DEF AsNamed
        <5> QED
          BY <5>1
      <4>2. \A id \in DOMAIN tunnels : ToAnnounce(s, id)'
        BY <2>3, <4>1 DEF ToAnnounce
      <4>3. \A p \in Requesters : call[p].on \in Nat /\ call[p].on <= n
        BY DEF Types, CallTypes, Calls, GoodCall
      <4>4. \A p \in Requesters : call[p].pc = "answered" => call[p].on >= n
        BY <1>9, <3>3 DEF Snapshot
      <4>5. n \in Nat
        BY DEF Types, NumberTypes
      <4>6. Settled'
        BY <2>1, <4>3, <4>4, <4>5 DEF Settled
      <4> QED
        BY <2>1, <3>3, <4>2, <4>6 DEF PendingStep, Pending
    <3>4. CASE n # s
      <4>1. restore'[n] = restore[n] /\ call'[n] = call[n]
        BY <2>1, <2>3, <3>2, <3>4 DEF OnlyRestore
      <4> QED
        BY <2>1, <3>1, <3>2, <4>1 DEF PendingStep, Pending, Begun, ToAnnounce
    <3> QED
      BY <3>3, <3>4
  <2>6. RemovedStep /\ AskStep /\ FailedStep
    BY <2>1, <2>3 DEF RemovedStep, AskStep, FailedStep, OnlyRestore
  <2> QED
    BY <2>4, <2>5, <2>6 DEF AnnounceFacts
<1>10. ASSUME NEW s \in Sessions, SpecSkipped(s) \/ SpecChosen(s) \/ RestoreEnds(s) PROVE AnnounceFacts
  <2>1. n' = n /\ call' = call /\ tunnels' = tunnels
    BY <1>10 DEF SpecSkipped, SpecChosen, RestoreEnds, daemonVars, stateVars
  <2>2. restore[s].pc = "run" /\ \E pc, k : RestoreAt(s, pc, restore[s].live, k, restore[s].announced, restore[s].ok)
    BY <1>10, SpecSkippedEffect, SpecChosenEffect, RestoreEndsEffect
  <2>3. \A id : ToAnnounce(s, id) => ToAnnounce(s, id)'
    BY <2>1, <2>2 DEF RestoreAt, ToAnnounce
  <2> QED
    BY <2>1, <2>2, <2>3, AnnounceFactsRestore
<1>11. ASSUME NEW s \in Sessions, Announce(s) PROVE AnnounceFacts
  <2>1. n' = n /\ tunnels' = tunnels /\ call[s] = Idle
    BY <1>11 DEF Announce, daemonVars, stateVars
  <2>2. PICK e \in restore[s].live :
          /\ call'[s] = AskCall(Open(e, e.old))
          /\ RestoreAt(s, "run", restore[s].live \ {e}, restore[s].specs, restore[s].announced, restore[s].ok)
    BY <1>11, AnnounceEffect
  <2>3. call'[s].ask = Open(e, e.old) /\ call'[s].pc = "wait" /\ call'[s].ask.id = e.old
    BY <2>2, OpenFields DEF AskCall
  <2>4. \A id : ToAnnounce(s, id) => ToAnnounce(s, id)'
    BY <2>1, <2>2, <2>3, IdleFields DEF RestoreAt, ToAnnounce
  <2>5. PICK l : l = restore[s].live \ {e}
    OBVIOUS
  <2>6. RestoreAt(s, "run", l, restore[s].specs, restore[s].announced, restore[s].ok) /\ \A x \in l : x \in restore[s].live
    BY <2>2, <2>5
  <2>7. restore[s].pc = "run" /\ \A q \in Requesters : q # s => call'[q] = call[q]
    BY <1>11, AnnounceEffect DEF OnlyCall
  <2> QED
    BY <2>1, <2>3, <2>4, <2>6, <2>7, AnnounceFactsRestore
<1>12. ASSUME NEW s \in Sessions, SpecAsks(s) PROVE AnnounceFacts
  <2>1. n' = n /\ tunnels' = tunnels /\ restore[s].pc = "run" /\ call[s] = Idle
    BY <1>12, SpecAsksEffect DEF SpecAsks, daemonVars, stateVars
  <2>2. PICK spec \in restore[s].next :
          call'[s] = AskCall(Open([local |-> spec.local, sub |-> spec.sub, persist |-> TRUE], 0))
    BY <1>12, SpecAsksEffect
  <2>3. PICK ask : ask = Open([local |-> spec.local, sub |-> spec.sub, persist |-> TRUE], 0)
    OBVIOUS
  <2>4. ask.id = 0
    BY <2>3, OpenFields
  <2>a. RestoreAt(s, "run", restore[s].live, restore[s].specs, restore[s].announced, restore[s].ok) /\ OnlyCall(s)
    BY <1>12, SpecAsksEffect
  <2>5. /\ \A q \in Requesters : q # s => call'[q] = call[q]
        /\ call'[s].ask.id = 0
    BY <2>a, <2>2, <2>3, <2>4 DEF OnlyCall, AskCall
  <2>6. \A id : ToAnnounce(s, id) => ToAnnounce(s, id)'
    BY <2>1, <2>a, IdleFields DEF RestoreAt, ToAnnounce
  <2> QED
    BY <2>1, <2>a, <2>5, <2>6, AnnounceFactsRestore
<1>13. ASSUME NEW s \in Sessions, Announced(s) PROVE AnnounceFacts
  <2>1. Opened(s) /\ Install(s) /\ Returns(s) /\ up' = up /\ n' = n /\ given' = given /\ bound' = bound
        /\ s \in Requesters \ Closers
    BY <1>13 DEF Announced, daemonVars, gatewayVars
  <2>2. \A q \in Sessions : /\ restore'[q].live = restore[q].live /\ restore'[q].ok = restore[q].ok
                            /\ restore'[q].pc = restore[q].pc
    BY <1>13, AnnouncedEffect DEF RestoreAt, OnlyRestore
  <2>3. \A q \in Sessions : Begun(q)' => Begun(q)
    BY <2>2 DEF Begun
  <2> QED
    BY <2>1, <2>2, <2>3, AnnounceFactsInstall
<1>14. ASSUME NEW s \in Sessions, AnnounceFails(s) PROVE AnnounceFacts
  <2>1. n' = n /\ hello' = hello /\ given' = given /\ s \in Requesters
    BY <1>14 DEF AnnounceFails, daemonVars, gatewayVars
  <2>2. CASE Unanswered(s)
    <3>1. call'[s] = Finished(s) /\ \A q \in Requesters \ {s} : call'[q] = call[q]
      BY <2>1, <2>2, UnansweredEffect, ReturnsEffect DEF Unanswered
    <3>2. PICK b : b = FALSE
      OBVIOUS
    <3>3. /\ restore[s].pc = "run"
          /\ RestoreAt(s, "run", restore[s].live, restore[s].specs, restore[s].announced, b)
      BY <2>1, <2>2, <3>2, UnansweredEffect
    <3>4. StaleOnly(call[s].ask.id)
      BY <2>1, <2>2, StaleEffect DEF Unanswered
    <3>5. /\ DOMAIN tunnels' = DOMAIN tunnels
          /\ \A id \in DOMAIN tunnels : tunnels'[id] = tunnels[id] \/ tunnels'[id].status = "stale"
          /\ \A id \in DOMAIN tunnels : id = call[s].ask.id => tunnels'[id].status = "stale"
      BY <3>4 DEF StaleOnly
    <3>6. call'[s].ask = call[s].ask \/ call'[s].ask.op # "open"
      BY <2>1, <3>1, FinishedAsks
    <3>7. \A id \in DOMAIN tunnels : ToAnnounce(s, id) => ToAnnounce(s, id)' \/ tunnels'[id].status = "stale"
      BY <3>3, <3>5 DEF RestoreAt, ToAnnounce
    <3> QED
      BY <2>1, <3>1, <3>2, <3>3, <3>5, <3>6, <3>7, AnnounceFactsRestore
  <2>3. CASE NotAsked(s)
    <3>1. call' = call
      BY <2>3 DEF NotAsked
    <3>2. PICK e \in restore[s].live :
            /\ Stale(e.old)
            /\ RestoreAt(s, "run", restore[s].live \ {e}, restore[s].specs, restore[s].announced, FALSE)
      BY <2>1, <2>3, NotAskedEffect
    <3>3. StaleOnly(e.old) /\ restore[s].pc = "run"
      BY <2>1, <2>3, <3>2, StaleEffect, NotAskedEffect
    <3>4. /\ DOMAIN tunnels' = DOMAIN tunnels
          /\ \A id \in DOMAIN tunnels : tunnels'[id] = tunnels[id] \/ tunnels'[id].status = "stale"
          /\ \A id \in DOMAIN tunnels : id = e.old => tunnels'[id].status = "stale"
      BY <3>3 DEF StaleOnly
    <3>5. PICK l, b : l = restore[s].live \ {e} /\ b = FALSE
      OBVIOUS
    <3>6. RestoreAt(s, "run", l, restore[s].specs, restore[s].announced, b) /\ ~b /\ \A x \in l : x \in restore[s].live
      BY <3>2, <3>5
    <3>7. \A id \in DOMAIN tunnels : ToAnnounce(s, id) => ToAnnounce(s, id)' \/ tunnels'[id].status = "stale"
      BY <3>1, <3>4, <3>5, <3>6 DEF RestoreAt, ToAnnounce
    <3> QED
      BY <2>1, <3>1, <3>3, <3>4, <3>6, <3>7, AnnounceFactsRestore
  <2> QED
    BY <1>14, <2>2, <2>3 DEF AnnounceFails, Unanswered, NotAsked
<1>15. ASSUME NEW s \in Sessions, SpecFails(s) PROVE AnnounceFacts
  <2>1. n' = n /\ given' = given /\ s \in Requesters /\ tunnels' = tunnels
    BY <1>15 DEF SpecFails, daemonVars, gatewayVars, stateVars
  <2>2. call'[s] = Idle /\ \A q \in Requesters : q # s => call'[q] = call[q]
    BY <1>15, SpecFailsEffect
  <2>3. PICK b : b = FALSE
    OBVIOUS
  <2>4. restore[s].pc = "run" /\ RestoreAt(s, "run", restore[s].live, restore[s].specs, restore[s].announced, b)
    BY <1>15, <2>3, SpecFailsEffect
  <2>5. call'[s].ask.id = 0
    BY <2>2, IdleFields
  <2>6. \A id \in DOMAIN tunnels : id # 0
    BY DEF Types, StateTypes, TunnelTypes, NumberTypes
  <2>8. call[s].ask.id = 0 \/ call[s].pc \notin {"wait", "answered"}
    <3>1. CASE restore[s].next # {}
      <4>1. call[s] = Idle
        BY <3>1 DEF Types, RestoreTypes, GoodRestore
      <4> QED
        BY <4>1, IdleFields
    <3>2. CASE call[s].ask.id = 0
      BY <3>2
    <3> QED
      BY <1>15, <3>1, <3>2 DEF SpecFails
  <2>7. \A id \in DOMAIN tunnels : ToAnnounce(s, id) => ToAnnounce(s, id)'
    BY <2>4, <2>6, <2>8 DEF RestoreAt, ToAnnounce
  <2> QED
    BY <2>1, <2>2, <2>3, <2>4, <2>5, <2>7, AnnounceFactsRestore
<1>16. ASSUME NEW s \in Sessions, GatewayOpens(s) \/ GatewayRefuses(s) \/ GatewayReleases(s) PROVE AnnounceFacts
  <2>1. n' = n /\ tunnels' = tunnels /\ restore' = restore
    BY <1>16 DEF GatewayOpens, GatewayRefuses, GatewayReleases, daemonVars, stateVars
  <2>2. \/ call' = call
        \/ \E w \in Requesters :
             /\ call'[w].pc = "answered" /\ call'[w].ask = call[w].ask
             /\ \A q \in Requesters \ {w} : call'[q] = call[q]
    <3>1. CASE GatewayOpens(s)
      BY <3>1, GatewayOpensEffect DEF AnsweredAs, Messages
    <3>2. CASE GatewayRefuses(s)
      BY <3>2, GatewayRefusesEffect DEF AnsweredAs, Messages
    <3>3. CASE GatewayReleases(s)
      BY <3>3, GatewayReleasesEffect DEF AnsweredAs, Messages
    <3> QED
      BY <1>16, <3>1, <3>2, <3>3
  <2> QED
    BY <2>1, <2>2, RemovedNone, AnnounceFactsSame
<1>17. ASSUME NEW s \in Sessions, GatewayDrops(s) PROVE AnnounceFacts
  <2>1. n' = n /\ tunnels' = tunnels /\ restore' = restore /\ call' = call
    BY <1>17 DEF GatewayDrops, daemonVars, stateVars
  <2> QED
    BY <2>1, RemovedNone, AnnounceFactsSame
<1>18. CASE UNCHANGED vars
  <2>1. n' = n /\ call' = call /\ restore' = restore /\ tunnels' = tunnels
    BY <1>18 DEF vars, daemonVars, stateVars
  <2> QED
    BY <2>1, RemovedNone, AnnounceFactsSame
<1> QED
  BY <1>a, <1>1, <1>2, <1>3, <1>4, <1>5, <1>6, <1>7, <1>8, <1>9, <1>10, <1>11, <1>12, <1>13, <1>14, <1>15,
     <1>16, <1>17, <1>18 DEF Next

(* Who announces a tunnel again announces it as it is.                     *)
Faithful ==
    /\ \A s \in Sessions : \A e \in restore[s].live :
          e.old \in DOMAIN tunnels => Same(e, tunnels[e.old])
    /\ \A p \in Requesters :
          call[p].ask.op = "open" /\ call[p].ask.id \in DOMAIN tunnels =>
             Same(call[p].ask, tunnels[call[p].ask.id])
    /\ \A p \in Requesters : call[p].ask.op = "open" /\ call[p].ask.id # 0 => call[p].ask.sub \in Hosts

(* Every step keeps Faithful: what is installed is not spoken of.           *)
LEMMA FaithfulStep ==
    ASSUME Types, Types', Answers, Faithful, StepFacts, AnnounceFacts
    PROVE  Faithful'
<1>1. TunnelStep /\ LiveStep /\ AskStep
  BY DEF StepFacts, AnnounceFacts
\* What is spoken of is not what is installed, and keeps what is announced.
<1>2. ASSUME NEW id \in Known, id \in DOMAIN tunnels'
      PROVE  id \in DOMAIN tunnels /\ Keeps(tunnels[id], tunnels'[id])
  <2>1. ASSUME NEW p \in Requesters, Installs(p, id) PROVE FALSE
    BY <1>2, <2>1 DEF Installs, Answers, Fresh
  <2> QED
    BY <1>1, <1>2, <2>1 DEF TunnelStep
<1>3. ASSUME NEW e, NEW id \in Known, id \in DOMAIN tunnels', Same(e, tunnels[id])
      PROVE  Same(e, tunnels'[id])
  BY <1>2, <1>3 DEF Same, Keeps
<1>4. ASSUME NEW s \in Sessions, NEW e \in restore'[s].live, e.old \in DOMAIN tunnels'
      PROVE  Same(e, tunnels'[e.old])
  <2>1. e.old \in Known /\ Same(e, tunnels[e.old])
    <3>1. CASE e \in restore[s].live
      <4>1. e.old \in Known
        BY <3>1, KnownMembers
      <4> QED
        BY <1>2, <1>4, <3>1, <4>1 DEF Faithful
    <3>2. CASE e.old \in DOMAIN tunnels /\ Same(e, tunnels[e.old])
      BY <3>2, KnownMembers
    <3> QED
      BY <1>1, <3>1, <3>2 DEF LiveStep
  <2> QED
    BY <1>3, <1>4, <2>1
<1>5. ASSUME NEW p \in Requesters, call'[p].ask.op = "open", call'[p].ask.id # 0
      PROVE  /\ call'[p].ask.id \in DOMAIN tunnels' => Same(call'[p].ask, tunnels'[call'[p].ask.id])
             /\ call'[p].ask.sub \in Hosts
  <2>1. CASE call'[p].ask = call[p].ask
    <3>1. call'[p].ask.id \in Known
      BY <2>1, KnownMembers
    <3>2. call'[p].ask.id \in DOMAIN tunnels' => Same(call'[p].ask, tunnels[call'[p].ask.id])
      BY <1>2, <1>5, <2>1, <3>1 DEF Faithful
    <3> QED
      BY <1>3, <1>5, <2>1, <3>1, <3>2 DEF Faithful
  <2>2. ASSUME NEW s \in Sessions, NEW e \in restore[s].live, call'[p].ask = Open(e, e.old)
        PROVE  /\ call'[p].ask.id \in DOMAIN tunnels' => Same(call'[p].ask, tunnels'[call'[p].ask.id])
               /\ call'[p].ask.sub \in Hosts
    <3>1. /\ call'[p].ask.id = e.old /\ call'[p].ask.local = e.local
          /\ call'[p].ask.sub = e.sub /\ call'[p].ask.persist = e.persist
      BY <2>2, OpenFields
    <3>2. e.old \in Known /\ e.sub \in Hosts
      BY KnownMembers DEF Types, RestoreTypes, Restores, Entries
    <3>3. e.old \in DOMAIN tunnels' => Same(e, tunnels[e.old])
      BY <1>2, <3>2 DEF Faithful
    <3>4. e.old \in DOMAIN tunnels' => Same(e, tunnels'[e.old])
      BY <1>3, <3>2, <3>3
    <3> QED
      BY <3>1, <3>2, <3>4 DEF Same
  <2> QED
    BY <1>1, <1>5, <2>1, <2>2 DEF AskStep
<1>6. ASSUME NEW p \in Requesters, call'[p].ask.op = "open", call'[p].ask.id \in DOMAIN tunnels'
      PROVE  Same(call'[p].ask, tunnels'[call'[p].ask.id])
  <2>1. call'[p].ask.id # 0
    BY <1>6 DEF Types, StateTypes, TunnelTypes, NumberTypes
  <2> QED
    BY <1>5, <1>6, <2>1
<1> QED
  BY <1>4, <1>5, <1>6 DEF Faithful

(* What a removed tunnel gives way to has its hostname and address.        *)
UrlStep == \A id \in DOMAIN tunnels \ DOMAIN tunnels' :
              \/ restarts' > restarts
              \/ Closing(id)
              \/ \E i \in DOMAIN tunnels' \ DOMAIN tunnels : SameTunnel(tunnels[id], tunnels'[i])

(* Every step keeps the hostnames, as it replaces what was announced.       *)
LEMMA UrlHolds ==
    ASSUME Types, Answers, Faithful, AnnounceFacts
    PROVE  UrlStep
<1> SUFFICES ASSUME NEW id \in DOMAIN tunnels \ DOMAIN tunnels', ~(restarts' > restarts), ~Closing(id)
             PROVE  \E i \in DOMAIN tunnels' \ DOMAIN tunnels : SameTunnel(tunnels[id], tunnels'[i])
  BY DEF UrlStep
<1>1. PICK p \in Requesters :
         /\ Installs(p, call[p].ack.id) /\ call[p].ask.id = id
         /\ call[p].ack.id \in DOMAIN tunnels' /\ InstalledAs(tunnels'[call[p].ack.id], call[p])
  BY DEF AnnounceFacts, RemovedStep
<1>2. Got(p) /\ Fresh(p)
  BY <1>1 DEF Installs, Answers
<1>3. call[p].ack.id \notin DOMAIN tunnels
  BY <1>2, KnownMembers DEF Fresh
<1>4. Same(call[p].ask, tunnels[id]) /\ id # 0
  BY <1>1, <1>2 DEF Got, Faithful, Types, StateTypes, TunnelTypes, NumberTypes
<1>5. call[p].ask.sub = call[p].ack.host
  BY <1>1, <1>2, <1>4, Constants DEF Got, Faithful, Fresh
<1>6. SameTunnel(tunnels[id], tunnels'[call[p].ack.id])
  BY <1>1, <1>4, <1>5 DEF SameTunnel, Same, InstalledAs
<1> QED
  BY <1>1, <1>3, <1>6

(* The present session, once it has begun to announce, has yet to announce *)
(* every tunnel of an earlier one that does not show as stale; none is     *)
(* stale but for a failure; and nothing is installed any more that an      *)
(* earlier session was given.                                              *)
StaleInv ==
    /\ n > 0 /\ Begun(n) =>
          \A id \in DOMAIN tunnels : tunnels[id].on = n \/ tunnels[id].status = "stale" \/ Pending(id)
    /\ \A id \in DOMAIN tunnels : tunnels[id].status = "stale" => \E s \in Sessions : ~restore[s].ok
    /\ n > 0 /\ Begun(n) => Settled

(* Every step keeps StaleInv.                                               *)
LEMMA StaleStep ==
    ASSUME Types, Types', Answers, StaleInv, StepFacts, AnnounceFacts
    PROVE  StaleInv'
<1>1. TunnelStep /\ AnsweredStep /\ PendingStep /\ FailedStep
  BY DEF StepFacts, AnnounceFacts
<1>2. ASSUME n' > 0, Begun(n)', NEW id \in DOMAIN tunnels'
      PROVE  tunnels'[id].on = n' \/ tunnels'[id].status = "stale" \/ Pending(id)'
  <2>1. n' = n /\ n \in Nat
    BY <1>1, <1>2 DEF PendingStep, Types, NumberTypes
  <2>2. CASE \E p \in Requesters : Installs(p, id) /\ InstalledAs(tunnels'[id], call[p])
    <3>1. PICK p \in Requesters : Installs(p, id) /\ InstalledAs(tunnels'[id], call[p])
      BY <2>2
    <3>2. CASE Begun(n)
      <4>1. call[p].on = n
        BY <1>2, <2>1, <3>1, <3>2 DEF StaleInv, Settled, Installs, Got
      <4> QED
        BY <2>1, <3>1, <4>1 DEF InstalledAs
    <3>3. CASE tunnels' = tunnels /\ \A i \in DOMAIN tunnels : Pending(i)'
      BY <1>2, <3>3
    <3> QED
      BY <1>1, <1>2, <3>2, <3>3 DEF PendingStep
  <2>3. CASE id \in DOMAIN tunnels /\ Keeps(tunnels[id], tunnels'[id])
    <3>1. CASE /\ Begun(n)
               /\ \A i \in DOMAIN tunnels \cap DOMAIN tunnels' :
                    Pending(i) => Pending(i)' \/ tunnels'[i].status = "stale"
      BY <1>2, <2>1, <2>3, <3>1 DEF StaleInv, Keeps
    <3>2. CASE \A i \in DOMAIN tunnels : Pending(i)'
      BY <2>3, <3>2
    <3> QED
      BY <1>1, <1>2, <3>1, <3>2 DEF PendingStep
  <2> QED
    BY <1>1, <2>2, <2>3 DEF TunnelStep
<1>3. ASSUME NEW id \in DOMAIN tunnels', tunnels'[id].status = "stale"
      PROVE  \E s \in Sessions : ~restore'[s].ok
  BY <1>1, <1>3 DEF FailedStep, StaleInv, Restarted
<1>4. ASSUME n' > 0, Begun(n)' PROVE Settled'
  <2>1. n' = n /\ n > 0
    BY <1>1, <1>4 DEF PendingStep
  <2>2. CASE Begun(n)
    <3>1. Settled
      BY <2>1, <2>2 DEF StaleInv
    <3> QED
      BY <1>1, <2>1, <3>1 DEF Settled, AnsweredStep
  <2> QED
    BY <1>1, <1>4, <2>2 DEF PendingStep
<1> QED
  BY <1>2, <1>3, <1>4 DEF StaleInv

(* A restoration that is done has nothing to announce.                      *)
LEMMA StaleHolds ==
    ASSUME Types, StaleInv
    PROVE  Reannounced
<1>1. SUFFICES ASSUME n > 0, restore[n].pc = "done", NEW id \in DOMAIN tunnels
               PROVE  tunnels[id].on = n \/ tunnels[id].status = "stale"
  BY DEF Reannounced
<1>2. n \in Sessions
  BY <1>1 DEF Types, NumberTypes, Sessions
<1>3. restore[n].live = {} /\ call[n] = Idle
  BY <1>1, <1>2 DEF Types, RestoreTypes, GoodRestore
<1>4. ~Pending(id)
  BY <1>3, IdleFields DEF Pending, ToAnnounce
<1> QED
  BY <1>1, <1>4 DEF StaleInv, Begun

-----------------------------------------------------------------------------
(* A tunnel has the subdomain it was asked with, unless that was random.   *)
Named == \A id \in DOMAIN tunnels : tunnels[id].sub \in {Random, tunnels[id].host}

(* Every step keeps Named.                                                  *)
LEMMA NamedStep ==
    ASSUME Answers, Named, StepFacts
    PROVE  Named'
<1> SUFFICES ASSUME NEW id \in DOMAIN tunnels'
             PROVE  tunnels'[id].sub \in {Random, tunnels'[id].host}
  BY DEF Named
<1>1. CASE id \in DOMAIN tunnels /\ Keeps(tunnels[id], tunnels'[id])
  BY <1>1 DEF Named, Keeps
<1>2. ASSUME NEW p \in Requesters, Installs(p, id), InstalledAs(tunnels'[id], call[p])
      PROVE  tunnels'[id].sub \in {Random, tunnels'[id].host}
  BY <1>2 DEF Installs, InstalledAs, Answers, Fresh
<1> QED
  BY <1>1, <1>2 DEF StepFacts, TunnelStep

-----------------------------------------------------------------------------
(* A close call that has dropped the specification.                        *)
Past(p) == call[p].pc \in {"forgot", "wait", "answered"}

(* What is asked to be closed is known to its closer as it is.             *)
Alike(ask, t) == ask.local = t.local /\ ask.sub = t.sub /\ ask.persist = t.persist
FoundInv == \A p \in Closers : call[p].ask.op = "close" /\ call[p].ask.id \in DOMAIN tunnels =>
               Alike(call[p].ask, tunnels[call[p].ask.id])

(* A specification that is back after a closer has dropped it is that of a *)
(* tunnel which nobody is about to delete.                                 *)
Shown(id, spec) ==
    /\ id \in DOMAIN tunnels /\ tunnels[id].persist /\ SpecFor(tunnels[id]) = spec
    /\ \A q \in Closers : Past(q) => call[q].ask.id # id
Owed(p, spec) ==
    Past(p) /\ call[p].ask.persist /\ call[p].ask.sub # Random /\ SpecFor(call[p].ask) = spec /\ spec \in persistent
ListedInv == \A p \in Closers : \A spec \in SpecTypes : Owed(p, spec) => \E id : Shown(id, spec)

(* What a step does to the close calls, ... *)
CloserStep ==
    \A p \in Closers :
        /\ Past(p)' => (Past(p) /\ call'[p].ask = call[p].ask) \/ CloseForgets(p)
        /\ call'[p].ask = call[p].ask \/ call'[p].ask.op # "close" \/ CloseFinds(p)

(* ... and to what they are about.                                         *)
SpecsKept ==
    /\ persistent' = persistent
    /\ \/ \A p \in Closers : ~Past(p)'
       \/ \A id \in DOMAIN tunnels : id \in DOMAIN tunnels' /\ Keeps(tunnels[id], tunnels'[id])
Installed(p) == Opened(p) /\ Install(p) /\ Returns(p) /\ n' = n /\ given' = given
CloserFacts ==
    /\ CloserStep
    /\ \/ SpecsKept
       \/ \E p \in Closers : CloseForgets(p) \/ CloseDeletes(p)
       \/ \E p \in Requesters \ Closers : Installed(p)

(* A request that no closer makes leaves theirs.                           *)
LEMMA CloserStepOther ==
    ASSUME \A p \in Closers : call'[p] = call[p]
    PROVE  CloserStep
BY DEF CloserStep, Past

(* The tunnels do not change.                                              *)
LEMMA SpecsKeptSame ==
    ASSUME stateVars' = stateVars
    PROVE  SpecsKept
BY DEF SpecsKept, Keeps, stateVars

(* Every step of the system does what CloserFacts says.                    *)
LEMMA CloserFactsHold ==
    ASSUME Types, [Next]_vars
    PROVE  CloserFacts
<1> USE Constants
<1>1. CASE Starts \/ Connect \/ Lost \/ UNCHANGED vars
  <2>1. stateVars' = stateVars /\ call' = call
    BY <1>1 DEF Starts, Connect, Lost, vars, stateVars
  <2> QED
    BY <2>1, CloserStepOther, SpecsKeptSame DEF CloserFacts
<1>2. CASE Restart
  <2>1. \A p \in Closers : ~Past(p)' /\ (call'[p].ask = call[p].ask \/ call'[p].ask.op # "close")
    BY <1>2, RestartEffect, IdleFields, FinishedFields DEF Past, Types
  <2>2. persistent' = persistent
    BY <1>2 DEF Restart
  <2> QED
    BY <2>1, <2>2 DEF CloserFacts, CloserStep, SpecsKept
<1>3. ASSUME NEW p \in Openers, OpenAsks(p) PROVE CloserFacts
  <2>1. stateVars' = stateVars /\ OnlyCall(p)
    BY <1>3, OpenAsksEffect DEF OpenAsks, stateVars
  <2> QED
    BY <2>1, CloserStepOther, SpecsKeptSame DEF CloserFacts, OnlyCall
<1>4. ASSUME NEW p \in Requesters \ Closers, OpenInstalls(p) \/ (p \in Sessions /\ (Announced(p) \/ SpecRestored(p)))
      PROVE  CloserFacts
  <2>1. Installed(p)
    BY <1>4 DEF OpenInstalls, Announced, SpecRestored, Installed, daemonVars, gatewayVars
  <2>2. call[p] # Idle
    BY <2>1, IdleFields DEF Installed, Opened
  <2>3. \A q \in Closers : call'[q] = call[q]
    BY <2>1, <2>2, ReturnsEffect DEF Installed
  <2> QED
    BY <2>1, <2>3, CloserStepOther DEF CloserFacts
<1>5. ASSUME NEW p \in Openers, OpenFails(p) PROVE CloserFacts
  <2>1. stateVars' = stateVars /\ n' = n /\ given' = given /\ Returns(p) /\ call[p] # Idle
    BY <1>5, IdleFields DEF OpenFails, Waits, Refused, daemonVars, gatewayVars
  <2>2. \A q \in Closers : call'[q] = call[q]
    BY <2>1, ReturnsEffect
  <2> QED
    BY <2>1, <2>2, CloserStepOther, SpecsKeptSame DEF CloserFacts
<1>6. ASSUME NEW p \in Closers, CloseFinds(p) PROVE CloserFacts
  <2>1. stateVars' = stateVars /\ OnlyCall(p)
    BY <1>6, CloseFindsEffect DEF CloseFinds, stateVars
  <2>3. call'[p].pc = "found"
    BY <1>6, CloseFindsEffect
  <2>2. CloserStep
    BY <1>6, <2>1, <2>3 DEF CloserStep, OnlyCall, Past
  <2> QED
    BY <2>1, <2>2, SpecsKeptSame DEF CloserFacts
<1>7. ASSUME NEW p \in Closers, CloseForgets(p) PROVE CloserFacts
  <2>1. OnlyCall(p) /\ call'[p].ask = call[p].ask
    BY <1>7, CloseForgetsEffect
  <2>2. CloserStep
    BY <1>7, <2>1 DEF CloserStep, OnlyCall, Past
  <2> QED
    BY <1>7, <2>2 DEF CloserFacts
<1>8. ASSUME NEW p \in Closers, CloseAsks(p) PROVE CloserFacts
  <2>1. stateVars' = stateVars
    BY <1>8 DEF CloseAsks, stateVars
  <2>2. OnlyCall(p) /\ call[p].pc = "forgot" /\ call'[p] = AskCall(call[p].ask)
    BY <1>8, CloseAsksEffect
  <2>3. Past(p) /\ call'[p].ask = call[p].ask
    BY <2>2 DEF AskCall, Past
  <2>4. CloserStep
    BY <2>2, <2>3 DEF CloserStep, OnlyCall, Past
  <2> QED
    BY <2>1, <2>4, SpecsKeptSame DEF CloserFacts
<1>9. ASSUME NEW p \in Closers, CloseDeletes(p) \/ CloseFails(p) PROVE CloserFacts
  <2>1. n' = n /\ given' = given /\ Returns(p) /\ call[p] # Idle /\ Past(p)
    BY <1>9, IdleFields DEF CloseDeletes, CloseFails, Opened, Waits, Past, daemonVars, gatewayVars
  <2>2. call'[p] = Finished(p) /\ \A q \in Requesters \ {p} : call'[q] = call[q]
    BY <2>1, ReturnsEffect
  <2>3. call'[p].ask = call[p].ask
    BY <2>2, FinishedFields DEF Types
  <2>4. CloserStep
    BY <2>1, <2>2, <2>3 DEF CloserStep, Past
  <2>5. CASE CloseDeletes(p)
    BY <2>4, <2>5 DEF CloserFacts
  <2>6. CASE CloseFails(p)
    BY <2>4, <2>6, SpecsKeptSame DEF CloserFacts, CloseFails
  <2> QED
    BY <1>9, <2>5, <2>6
<1>10. ASSUME NEW s \in Sessions, Snapshot(s) \/ SpecSkipped(s) \/ SpecChosen(s) \/ RestoreEnds(s) \/ GatewayDrops(s)
       PROVE  CloserFacts
  <2>1. stateVars' = stateVars /\ call' = call
    BY <1>10 DEF Snapshot, SpecSkipped, SpecChosen, RestoreEnds, GatewayDrops, stateVars
  <2> QED
    BY <2>1, CloserStepOther, SpecsKeptSame DEF CloserFacts
<1>11. ASSUME NEW s \in Sessions, Announce(s) \/ SpecAsks(s) \/ SpecFails(s) PROVE CloserFacts
  <2>1. stateVars' = stateVars
    BY <1>11 DEF Announce, SpecAsks, SpecFails, stateVars
  <2>2. \A q \in Closers : call'[q] = call[q]
    BY <1>11, AnnounceEffect, SpecAsksEffect, SpecFailsEffect DEF OnlyCall
  <2> QED
    BY <2>1, <2>2, CloserStepOther, SpecsKeptSame DEF CloserFacts
<1>12. ASSUME NEW s \in Sessions, AnnounceFails(s) PROVE CloserFacts
  <2>1. n' = n /\ given' = given /\ persistent' = persistent
    BY <1>12 DEF AnnounceFails, daemonVars, gatewayVars
  <2>2. \A q \in Closers : call'[q] = call[q]
    <3>1. call' = call \/ (Returns(s) /\ call[s] # Idle)
      BY <1>12, IdleFields DEF AnnounceFails, Waits, Refused
    <3> QED
      BY <2>1, <3>1, ReturnsEffect
  <2>3. PICK id : Stale(id)
    BY <1>12 DEF AnnounceFails
  <2>4. \A i \in DOMAIN tunnels : i \in DOMAIN tunnels' /\ Keeps(tunnels[i], tunnels'[i])
    BY <2>1, <2>3, StaleEffect DEF StaleOnly, Keeps
  <2> QED
    BY <2>1, <2>2, <2>4, CloserStepOther DEF CloserFacts, SpecsKept
<1>13. ASSUME NEW s \in Sessions, GatewayOpens(s) \/ GatewayRefuses(s) \/ GatewayReleases(s) PROVE CloserFacts
  <2>1. stateVars' = stateVars
    BY <1>13 DEF GatewayOpens, GatewayRefuses, GatewayReleases, stateVars
  <2>2. \/ call' = call
        \/ \E w \in Requesters :
             /\ Waits(w) /\ call'[w].ask = call[w].ask
             /\ \A q \in Requesters \ {w} : call'[q] = call[q]
    <3>1. CASE GatewayOpens(s)
      BY <3>1, GatewayOpensEffect DEF AnsweredAs, Messages
    <3>2. CASE GatewayRefuses(s)
      BY <3>2, GatewayRefusesEffect DEF AnsweredAs, Messages
    <3>3. CASE GatewayReleases(s)
      BY <3>3, GatewayReleasesEffect DEF AnsweredAs, Messages
    <3> QED
      BY <1>13, <3>1, <3>2, <3>3
  <2>3. CloserStep
    BY <2>2 DEF CloserStep, Past, Waits
  <2> QED
    BY <2>1, <2>3, SpecsKeptSame DEF CloserFacts
<1> QED
  BY <1>1, <1>2, <1>3, <1>4, <1>5, <1>6, <1>7, <1>8, <1>9, <1>10, <1>11, <1>12, <1>13 DEF Next

(* Every step keeps FoundInv: no other tunnel gets the id of one.           *)
LEMMA FoundStep ==
    ASSUME Types, Types', Answers, FoundInv, StepFacts, CloserFacts
    PROVE  FoundInv'
<1> SUFFICES ASSUME NEW p \in Closers, call'[p].ask.op = "close", call'[p].ask.id \in DOMAIN tunnels'
             PROVE  Alike(call'[p].ask, tunnels'[call'[p].ask.id])
  BY DEF FoundInv
<1> DEFINE id == call'[p].ask.id
<1>1. p \in Requesters
  BY Constants
<1>2. CASE call'[p].ask = call[p].ask
  <2>1. id \in Known
    BY <1>1, <1>2, KnownMembers
  <2>2. id \in DOMAIN tunnels /\ Keeps(tunnels[id], tunnels'[id])
    BY <2>1 DEF StepFacts, TunnelStep, Installs, Answers, Fresh
  <2> QED
    BY <1>2, <2>2 DEF FoundInv, Alike, Keeps
<1>3. CASE CloseFinds(p)
  <2>1. \E i \in DOMAIN tunnels : call'[p].ask = Close(tunnels[i], i)
    BY <1>3, CloseFindsEffect
  <2>2. tunnels' = tunnels
    BY <1>3 DEF CloseFinds, stateVars
  <2> QED
    BY <2>1, <2>2, CloseFields DEF Alike
<1>4. CASE CloseForgets(p)
  BY <1>2, <1>4, CloseForgetsEffect
<1> QED
  BY <1>2, <1>3, <1>4 DEF CloserFacts, CloserStep

(* Every step keeps ListedInv: a specification comes back only with a new   *)
(* tunnel, or one that takes the place of its tunnel.                      *)
LEMMA ListedStep ==
    ASSUME Types, Answers, Faithful, Named, FoundInv, ListedInv, CloserFacts
    PROVE  ListedInv'
<1> USE Constants
<1> SUFFICES ASSUME NEW p \in Closers, NEW spec \in SpecTypes, Owed(p, spec)'
             PROVE  \E id : Shown(id, spec)'
  BY DEF ListedInv
<1>1. /\ \A q \in Closers : Past(q)' => (Past(q) /\ call'[q].ask = call[q].ask) \/ CloseForgets(q)
      /\ Past(p)' /\ call'[p].ask.persist /\ call'[p].ask.sub # Random
      /\ SpecFor(call'[p].ask) = spec /\ spec \in persistent'
  BY DEF CloserFacts, CloserStep, Owed
<1>2. spec.local = call'[p].ask.local /\ spec.sub = call'[p].ask.sub
  BY <1>1 DEF SpecFor
\* A closer drops the specification of the tunnel that it has found.
<1>3. ASSUME NEW q \in Closers, CloseForgets(q) PROVE \E id : Shown(id, spec)'
  <2>1. /\ tunnels' = tunnels /\ OnlyCall(q) /\ call'[q].ask = call[q].ask /\ call[q].ask.op = "close"
        /\ persistent' = RemovePersistent(call[q].ask)
    BY <1>3, CloseForgetsEffect DEF CloseForgets
  <2>2. \A t : Alike(call[q].ask, t) /\ t.persist => SpecFor(t) # spec
    BY <1>1, <1>2, <2>1 DEF Alike, SpecFor, RemovePersistent
  <2>3. p # q
    BY <1>1, <2>1, <2>2 DEF Alike
  <2>4. Owed(p, spec)
    BY <1>1, <2>1, <2>3 DEF Owed, OnlyCall, Past, RemovePersistent
  <2>5. PICK id : Shown(id, spec)
    BY <2>4 DEF ListedInv
  <2>6. id # call[q].ask.id
    BY <2>1, <2>2, <2>5 DEF Shown, FoundInv
  <2>7. \A r \in Closers : Past(r)' => call'[r].ask.id # id
    BY <2>1, <2>5, <2>6 DEF OnlyCall, Shown, Past
  <2>8. Shown(id, spec)'
    BY <2>1, <2>5, <2>7 DEF Shown
  <2> QED
    BY <2>8
<1>4. ASSUME \A q \in Closers : ~CloseForgets(q), persistent' = persistent
      PROVE  /\ Owed(p, spec)
             /\ \A id : Shown(id, spec) /\ id \in DOMAIN tunnels' /\ Keeps(tunnels[id], tunnels'[id]) => Shown(id, spec)'
  BY <1>1, <1>4 DEF Owed, Shown, Keeps, SpecFor
<1>5. CASE SpecsKept /\ \A q \in Closers : ~CloseForgets(q)
  <2>1. \A id \in DOMAIN tunnels : id \in DOMAIN tunnels' /\ Keeps(tunnels[id], tunnels'[id])
    BY <1>1, <1>5 DEF SpecsKept
  <2> QED
    BY <1>4, <1>5, <2>1 DEF SpecsKept, ListedInv, Shown
\* A closer deletes what it has dropped the specification of.
<1>6. ASSUME NEW q \in Closers, CloseDeletes(q), \A r \in Closers : ~CloseForgets(r) PROVE \E id : Shown(id, spec)'
  <2>1. /\ persistent' = persistent /\ Past(q)
        /\ DOMAIN tunnels' = DOMAIN tunnels \ {call[q].ask.id}
        /\ \A id \in DOMAIN tunnels' : tunnels'[id] = tunnels[id]
    BY <1>6, CloseDeletesEffect DEF CloseDeletes, Opened, Past
  <2>2. PICK id : Shown(id, spec)
    BY <1>4, <1>6, <2>1 DEF ListedInv
  <2>3. id \in DOMAIN tunnels' /\ Keeps(tunnels[id], tunnels'[id])
    BY <2>1, <2>2 DEF Shown, Keeps
  <2> QED
    BY <1>4, <1>6, <2>1, <2>2, <2>3
\* What is installed is new, or takes the place of a tunnel with its name.
<1>7. ASSUME NEW r \in Requesters \ Closers, Installed(r), \A q \in Closers : ~CloseForgets(q)
      PROVE  \E id : Shown(id, spec)'
  <2>1. call[r].ask.op = "open" /\ call[r] # Idle /\ Got(r) /\ Opened(r) /\ Install(r) /\ n' = n /\ given' = given
    BY <1>7, Opening DEF Installed, Got, Opened
  <2>2. /\ DOMAIN tunnels' = (DOMAIN tunnels \ {call[r].ask.id}) \cup {call[r].ack.id}
        /\ InstalledAs(tunnels'[call[r].ack.id], call[r])
        /\ \A id \in DOMAIN tunnels \ {call[r].ask.id, call[r].ack.id} : tunnels'[id] = tunnels[id]
        /\ persistent' = UpsertPersistent(InstallTunnel(call[r]))
    BY <2>1, InstallEffect
  <2>3. call[r].ack.id \notin Known /\ \A q \in Closers : call[q].ask.id \in Known
    BY <2>1, KnownMembers DEF Answers, Fresh
  <2>4. \A q \in Closers : Past(q)' => Past(q) /\ call'[q].ask = call[q].ask
    BY <1>1, <1>7
  <2>5. PICK new : new = call[r].ack.id
    OBVIOUS
  <2>6. \A q \in Closers : Past(q)' => call'[q].ask.id # new
    BY <2>3, <2>4, <2>5
  <2>7. new \in DOMAIN tunnels' /\ InstalledAs(tunnels'[new], call[r])
    BY <2>2, <2>5
  <2>8. ASSUME call[r].ask.persist, call[r].ask.local = spec.local, call[r].ask.sub = spec.sub
        PROVE  \E id : Shown(id, spec)'
    <3>1. SpecFor(tunnels'[new]) = spec /\ tunnels'[new].persist
      BY <1>1, <1>2, <2>7, <2>8 DEF InstalledAs, SpecFor
    <3>2. Shown(new, spec)'
      BY <2>6, <2>7, <3>1 DEF Shown
    <3> QED
      BY <3>2
  <2>9. CASE spec \notin persistent
    <3>1. InstallTunnel(call[r]).persist /\ SpecFor(InstallTunnel(call[r])) = spec
      BY <1>1, <2>2, <2>9 DEF UpsertPersistent
    <3> QED
      BY <1>2, <2>8, <3>1 DEF InstallTunnel, SpecFor
  <2>10. CASE spec \in persistent
    <3>1. Owed(p, spec)
      BY <1>1, <2>4, <2>10 DEF Owed
    <3>2. PICK id : Shown(id, spec)
      BY <3>1 DEF ListedInv
    <3>3. CASE id # call[r].ask.id
      <4>1. id # new /\ id \in DOMAIN tunnels /\ id \in DOMAIN tunnels' /\ tunnels'[id] = tunnels[id]
        BY <2>2, <2>3, <2>5, <3>2, <3>3, KnownMembers DEF Shown
      <4>2. Shown(id, spec)'
        BY <2>4, <3>2, <4>1 DEF Shown
      <4> QED
        BY <4>2
    <3>4. CASE id = call[r].ask.id
      <4>1. Same(call[r].ask, tunnels[id]) /\ tunnels[id].sub \in {Random, tunnels[id].host} /\ tunnels[id].persist
        BY <2>1, <3>2, <3>4 DEF Faithful, Named, Shown
      <4>2. tunnels[id].local = spec.local /\ tunnels[id].sub = spec.sub
        BY <3>2 DEF Shown, SpecFor
      <4> QED
        BY <1>1, <1>2, <2>8, <4>1, <4>2 DEF Same
    <3> QED
      BY <3>3, <3>4
  <2> QED
    BY <2>9, <2>10
<1> QED
  BY <1>3, <1>5, <1>6, <1>7 DEF CloserFacts

-----------------------------------------------------------------------------
(* What a step does to the specifications, ... *)
NewHere(local) ==
    \E p \in Requesters :
        /\ Installs(p, call[p].ack.id) /\ call[p].ask.local = local
        /\ call[p].ack.id \in DOMAIN tunnels' /\ InstalledAs(tunnels'[call[p].ack.id], call[p])
SpecsStep == \A spec \in persistent' : spec \in persistent \/ NewHere(spec.local)

(* ... and to those that the present session has yet to open.              *)
ToOpen(s, spec) ==
    \/ spec \in restore[s].specs \cup restore[s].next
    \/ /\ call[s].pc \in {"wait", "answered"} /\ call[s].ask.id = 0
       /\ call[s].ask.local = spec.local
SkipsNow(s, spec) == Skips(s, spec) /\ restore[s].live = {} /\ call[s] = Idle
RestoringStep ==
    n' > 0 /\ Begun(n)' =>
        \/ ~Begun(n) /\ restore'[n].specs = persistent' /\ restore'[n].announced = {}
        \/ /\ Begun(n)
           /\ \A spec : ToOpen(n, spec) =>
                 ToOpen(n, spec)' \/ NewHere(spec.local) \/ ~restore'[n].ok \/ SkipsNow(n, spec)
           /\ \A local \in restore'[n].announced : local \in restore[n].announced \/ NewHere(local)

SpecFacts == SpecsStep /\ RestoringStep

(* The restorations do not change.                                         *)
LEMMA SpecFactsSame ==
    ASSUME Types, n' = n, restore' = restore, SpecsStep,
           \A s \in Sessions : \/ call'[s] = call[s]
                               \/ call'[s].pc = "answered" /\ call'[s].ask = call[s].ask
                               \/ NewHere(call[s].ask.local)
    PROVE  SpecFacts
<1>1. SUFFICES ASSUME n > 0, Begun(n)' PROVE RestoringStep
  BY DEF SpecFacts, RestoringStep
<1>2. n \in Sessions /\ Begun(n) /\ restore'[n] = restore[n]
  BY <1>1, Constants DEF Types, NumberTypes, Sessions, Begun
<1>3. ASSUME NEW spec, ToOpen(n, spec) PROVE ToOpen(n, spec)' \/ NewHere(spec.local)
  BY <1>2, <1>3 DEF ToOpen
<1> QED
  BY <1>2, <1>3 DEF RestoringStep

(* The restoration of session s goes on.                                   *)
LEMMA SpecFactsRestore ==
    ASSUME Types, NEW s \in Sessions, NEW pc, NEW l, NEW k, NEW a, NEW b,
           RestoreAt(s, pc, l, k, a, b), n' = n, restore[s].pc = "run", SpecsStep,
           \A q \in Sessions : q # s => call'[q] = call[q],
           \A spec : ToOpen(s, spec) => ToOpen(s, spec)' \/ NewHere(spec.local) \/ ~b \/ SkipsNow(s, spec),
           \A local \in a : local \in restore[s].announced \/ NewHere(local)
    PROVE  SpecFacts
<1>1. SUFFICES ASSUME n > 0, Begun(n)' PROVE RestoringStep
  BY DEF SpecFacts, RestoringStep
<1>2. n \in Sessions
  BY <1>1, Constants DEF Types, NumberTypes, Sessions
<1>3. CASE n = s
  <2>1. Begun(n) /\ restore'[n].announced = a /\ restore'[n].ok = b
    BY <1>3 DEF Begun, RestoreAt
  <2> QED
    BY <1>3, <2>1 DEF RestoringStep
<1>4. CASE n # s
  <2>1. restore'[n] = restore[n] /\ call'[n] = call[n]
    BY <1>2, <1>4 DEF RestoreAt, OnlyRestore
  <2>2. Begun(n)
    BY <1>1, <2>1 DEF Begun
  <2>3. \A spec : ToOpen(n, spec) => ToOpen(n, spec)'
    BY <2>1 DEF ToOpen
  <2> QED
    BY <2>1, <2>2, <2>3 DEF RestoringStep
<1> QED
  BY <1>3, <1>4

(* An acknowledged tunnel is installed.                                    *)
LEMMA SpecFactsInstall ==
    ASSUME Types, NEW p \in Requesters \ Closers, Opened(p), Install(p), Returns(p),
           n' = n, given' = given
    PROVE  /\ SpecsStep /\ NewHere(call[p].ask.local)
           /\ \A q \in Sessions : q # p => call'[q] = call[q]
<1> USE Constants
<1>1. call[p].ask.op = "open" /\ call[p] # Idle /\ Got(p)
  BY Opening DEF Got, Opened
<1>2. call'[p] = Finished(p) /\ (\A q \in Requesters \ {p} : call'[q] = call[q])
  BY <1>1, ReturnsEffect
<1>3. Installs(p, call[p].ack.id)
  BY <1>1, <1>2, FinishedKnown DEF Installs, Got
<1>4. /\ DOMAIN tunnels' = (DOMAIN tunnels \ {call[p].ask.id}) \cup {call[p].ack.id}
      /\ InstalledAs(tunnels'[call[p].ack.id], call[p])
      /\ persistent' = UpsertPersistent(InstallTunnel(call[p]))
  BY <1>1, InstallEffect
<1>5. NewHere(call[p].ask.local)
  BY <1>3, <1>4 DEF NewHere
<1>6. \A spec \in persistent' : spec \in persistent \/ spec.local = call[p].ask.local
  BY <1>4 DEF UpsertPersistent, SpecFor, InstallTunnel
<1> QED
  BY <1>2, <1>5, <1>6 DEF SpecsStep

(* Every step of the system does what SpecFacts says.                       *)
LEMMA SpecFactsHold ==
    ASSUME Types, [Next]_vars
    PROVE  SpecFacts
<1> USE Constants
<1>a. CASE Starts
  <2>1. persistent' = persistent /\ restore' = restore /\ n' = n + 1 /\ n \in Nat /\ n' \in Sessions
    BY <1>a, StartsEffect DEF Starts, stateVars
  <2>2. PICK m \in Sessions : m = n + 1 /\ n' = m
    BY <2>1
  <2>3. restore'[m].pc = "off"
    <3>1. GoodRestore(m) /\ ~(m <= n)
      BY <2>1, <2>2 DEF Types, RestoreTypes
    <3> QED
      BY <2>1, <3>1 DEF GoodRestore
  <2> QED
    BY <2>1, <2>2, <2>3 DEF SpecFacts, SpecsStep, RestoringStep, Begun
<1>1. CASE Connect
  <2>1. persistent' = persistent /\ n' = n /\ restore'[n].pc = "sleep"
    BY <1>1, ConnectEffect DEF Connect, stateVars, RestoreAt
  <2> QED
    BY <2>1 DEF SpecFacts, SpecsStep, RestoringStep, Begun
<1>2. CASE Restart
  <2>1. persistent' = persistent /\ n' = n /\ \A s \in Sessions : restore'[s] = Off
    BY <1>2, RestartEffect DEF Restart
  <2>2. n > 0 => n \in Sessions
    BY DEF Types, NumberTypes, Sessions
  <2> QED
    BY <2>1, <2>2, IdleFields DEF SpecFacts, SpecsStep, RestoringStep, Begun
<1>3. ASSUME NEW p \in Openers, OpenAsks(p) \/ OpenFails(p) PROVE SpecFacts
  <2>1. n' = n /\ restore' = restore /\ persistent' = persistent /\ p \in Requesters /\ p \notin Sessions
    BY <1>3 DEF OpenAsks, OpenFails, daemonVars, stateVars
  <2>2. CASE OpenAsks(p)
    BY <2>1, <2>2, OpenAsksEffect, SpecFactsSame DEF OnlyCall, SpecsStep
  <2>3. CASE OpenFails(p)
    <3>1. Returns(p) /\ call[p] # Idle /\ given' = given
      BY <2>3, IdleFields DEF OpenFails, Waits, Refused, gatewayVars
    <3>2. \A q \in Requesters \ {p} : call'[q] = call[q]
      BY <2>1, <3>1, ReturnsEffect
    <3> QED
      BY <2>1, <3>2, SpecFactsSame DEF SpecsStep
  <2> QED
    BY <1>3, <2>2, <2>3
<1>14. ASSUME NEW p \in Closers, CloseFinds(p) \/ CloseForgets(p) \/ CloseAsks(p) PROVE SpecFacts
  <2>1. n' = n /\ restore' = restore /\ p \notin Sessions
    BY <1>14 DEF CloseFinds, CloseForgets, CloseAsks, daemonVars
  <2>2. OnlyCall(p) /\ SpecsStep
    <3>1. CASE CloseFinds(p)
      BY <3>1, CloseFindsEffect DEF CloseFinds, SpecsStep, stateVars
    <3>2. CASE CloseForgets(p)
      BY <3>2, CloseForgetsEffect DEF SpecsStep
    <3>3. CASE CloseAsks(p)
      BY <3>3, CloseAsksEffect DEF CloseAsks, SpecsStep, stateVars
    <3> QED
      BY <1>14, <3>1, <3>2, <3>3
  <2> QED
    BY <2>1, <2>2, SpecFactsSame DEF OnlyCall
<1>15. ASSUME NEW p \in Closers, CloseDeletes(p) \/ CloseFails(p) PROVE SpecFacts
  <2>1. n' = n /\ restore' = restore /\ p \in Requesters /\ p \notin Sessions /\ Returns(p)
        /\ given' = given /\ persistent' = persistent
    BY <1>15 DEF CloseDeletes, CloseFails, daemonVars, gatewayVars, stateVars
  <2>2. call[p] # Idle
    BY <1>15, IdleFields DEF CloseDeletes, CloseFails, Opened, Waits
  <2>3. \A q \in Requesters \ {p} : call'[q] = call[q]
    BY <2>1, <2>2, ReturnsEffect
  <2> QED
    BY <2>1, <2>3, SpecFactsSame DEF SpecsStep
<1>4. ASSUME NEW p \in Requesters \ Closers, OpenInstalls(p) \/ (p \in Sessions /\ SpecRestored(p)) PROVE SpecFacts
  <2>1. Opened(p) /\ Install(p) /\ Returns(p) /\ n' = n /\ given' = given /\ restore' = restore
    BY <1>4 DEF OpenInstalls, SpecRestored, daemonVars, gatewayVars
  <2>2. /\ SpecsStep /\ NewHere(call[p].ask.local)
        /\ \A q \in Sessions : q # p => call'[q] = call[q]
    BY <2>1, SpecFactsInstall
  <2> QED
    BY <2>1, <2>2, SpecFactsSame
<1>5. ASSUME NEW s \in Sessions, Snapshot(s) PROVE SpecFacts
  <2>1. n' = n /\ call' = call /\ persistent' = persistent
    BY <1>5 DEF Snapshot, daemonVars, stateVars
  <2>2. /\ OnlyRestore(s) /\ restore[s].pc = "sleep" /\ restore'[s].specs = persistent
        /\ restore'[s].announced = restore[s].announced
    BY <1>5, SnapshotEffect DEF RestoreAt
  <2>3. restore[s].announced = {}
    BY <2>2 DEF Types, RestoreTypes, GoodRestore
  <2>4. SUFFICES ASSUME n > 0, Begun(n)' PROVE RestoringStep
    BY <2>1 DEF SpecFacts, SpecsStep, RestoringStep
  <2>5. n \in Sessions
    BY <2>4 DEF Types, NumberTypes, Sessions
  <2>6. CASE n = s
    BY <2>1, <2>2, <2>3, <2>6 DEF RestoringStep, Begun
  <2>7. CASE n # s
    <3>1. restore'[n] = restore[n] /\ call'[n] = call[n]
      BY <2>1, <2>2, <2>5, <2>7 DEF OnlyRestore
    <3>2. Begun(n)
      BY <2>1, <2>4, <3>1 DEF Begun
    <3>3. \A spec : ToOpen(n, spec) => ToOpen(n, spec)'
      BY <2>1, <3>1 DEF ToOpen
    <3> QED
      BY <3>1, <3>2, <3>3 DEF RestoringStep
  <2> QED
    BY <2>6, <2>7
<1>6. ASSUME NEW s \in Sessions, RestoreEnds(s) PROVE SpecFacts
  <2>1. n' = n /\ call' = call /\ persistent' = persistent
    BY <1>6 DEF RestoreEnds, daemonVars, stateVars
  <2>2. /\ RestoreAt(s, "done", restore[s].live, restore[s].specs, restore[s].announced, restore[s].ok)
        /\ restore[s].pc = "run" /\ restore[s].next = {}
    BY <1>6, RestoreEndsEffect
  <2>3. \A spec : ToOpen(s, spec) => ToOpen(s, spec)'
    BY <2>1, <2>2 DEF ToOpen, RestoreAt
  <2> QED
    BY <2>1, <2>2, <2>3, SpecFactsRestore DEF SpecsStep
<1>7. ASSUME NEW s \in Sessions, SpecSkipped(s) PROVE SpecFacts
  <2>1. n' = n /\ call' = call /\ persistent' = persistent
    BY <1>7 DEF SpecSkipped, daemonVars, stateVars
  <2>2. restore[s].pc = "run" /\ restore[s].live = {} /\ restore[s].next = {} /\ call[s] = Idle
    BY <1>7, SpecSkippedEffect
  <2>3. PICK spec \in restore[s].specs :
          /\ Skips(s, spec)
          /\ RestoreAt(s, "run", restore[s].live, restore[s].specs \ {spec},
                       restore[s].announced, restore[s].ok)
    BY <1>7, SpecSkippedEffect
  <2>4. ASSUME NEW x, ToOpen(s, x) PROVE ToOpen(s, x)' \/ SkipsNow(s, x)
    BY <2>1, <2>2, <2>3, <2>4 DEF ToOpen, RestoreAt, SkipsNow
  <2> QED
    BY <2>1, <2>2, <2>3, <2>4, SpecFactsRestore DEF SpecsStep
<1>8. ASSUME NEW s \in Sessions, Announce(s) PROVE SpecFacts
  <2>1. n' = n /\ persistent' = persistent /\ call[s] = Idle /\ restore[s].pc = "run" /\ restore[s].next = {}
    BY <1>8, AnnounceEffect DEF Announce, daemonVars, stateVars
  <2>2. PICK e \in restore[s].live :
          RestoreAt(s, "run", restore[s].live \ {e}, restore[s].specs, restore[s].announced, restore[s].ok)
    BY <1>8, AnnounceEffect
  <2>3. \A q \in Sessions : q # s => call'[q] = call[q]
    BY <1>8, AnnounceEffect DEF OnlyCall
  <2>4. \A spec : ToOpen(s, spec) => ToOpen(s, spec)'
    BY <2>1, <2>2, IdleFields DEF ToOpen, RestoreAt
  <2> QED
    BY <2>1, <2>2, <2>3, <2>4, SpecFactsRestore DEF SpecsStep
<1>9. ASSUME NEW s \in Sessions, SpecAsks(s) PROVE SpecFacts
  <2>1. /\ n' = n /\ persistent' = persistent /\ restore[s].pc = "run" /\ call[s] = Idle
        /\ RestoreAt(s, "run", restore[s].live, restore[s].specs, restore[s].announced, restore[s].ok)
    BY <1>9, SpecAsksEffect DEF SpecAsks, daemonVars, stateVars
  <2>2. PICK spec \in restore[s].next :
          call'[s] = AskCall(Open([local |-> spec.local, sub |-> spec.sub, persist |-> TRUE], 0))
    BY <1>9, SpecAsksEffect
  <2>3. PICK w : w = [local |-> spec.local, sub |-> spec.sub, persist |-> TRUE]
    OBVIOUS
  <2>4. Open(w, 0).id = 0 /\ Open(w, 0).local = spec.local
    BY <2>3, OpenFields
  <2>5. \A q \in Sessions : q # s => call'[q] = call[q]
    BY <1>9, SpecAsksEffect DEF OnlyCall
  <2>6. call'[s].pc = "wait" /\ call'[s].ask.id = 0 /\ call'[s].ask.local = spec.local
    <3>1. call'[s] = AskCall(Open(w, 0))
      BY <2>2, <2>3
    <3> QED
      BY <2>4, <3>1 DEF AskCall
  <2>7. restore[s].next = {spec}
    BY DEF Types, RestoreTypes, GoodRestore
  <2>8. ASSUME NEW x, ToOpen(s, x) PROVE ToOpen(s, x)'
    <3>1. x \in restore[s].specs \cup {spec}
      BY <2>1, <2>7, <2>8, IdleFields DEF ToOpen
    <3> QED
      BY <2>1, <2>6, <3>1 DEF ToOpen, RestoreAt
  <2> QED
    BY <2>1, <2>5, <2>8, SpecFactsRestore DEF SpecsStep
<1>16. ASSUME NEW s \in Sessions, SpecChosen(s) PROVE SpecFacts
  <2>1. n' = n /\ call' = call /\ persistent' = persistent /\ restore[s].pc = "run" /\ restore[s].next = {}
    BY <1>16, SpecChosenEffect DEF SpecChosen, daemonVars, stateVars
  <2>2. PICK spec \in restore[s].specs :
          /\ RestoreAt(s, "run", restore[s].live, restore[s].specs \ {spec},
                       restore[s].announced, restore[s].ok)
          /\ restore'[s].next = {spec}
    BY <1>16, SpecChosenEffect
  <2>3. \A x : ToOpen(s, x) => ToOpen(s, x)'
    BY <2>1, <2>2 DEF ToOpen, RestoreAt
  <2> QED
    BY <2>1, <2>2, <2>3, SpecFactsRestore DEF SpecsStep
<1>10. ASSUME NEW s \in Sessions, Announced(s) PROVE SpecFacts
  <2>1. Opened(s) /\ Install(s) /\ Returns(s) /\ n' = n /\ given' = given /\ s \in Requesters \ Closers /\ call[s].ask.id # 0
    BY <1>10 DEF Announced, daemonVars, gatewayVars
  <2>2. SpecsStep /\ NewHere(call[s].ask.local) /\ \A q \in Sessions : q # s => call'[q] = call[q]
    BY <2>1, SpecFactsInstall
  <2>3. PICK a : a = restore[s].announced \cup {call[s].ask.local}
    OBVIOUS
  <2>4. /\ restore[s].pc = "run" /\ restore[s].next = {}
        /\ RestoreAt(s, "run", restore[s].live, restore[s].specs, a, restore[s].ok)
    BY <1>10, <2>3, AnnouncedEffect
  <2>5. \A spec : ToOpen(s, spec) => ToOpen(s, spec)'
    BY <2>1, <2>4 DEF ToOpen, RestoreAt
  <2>6. \A local \in a : local \in restore[s].announced \/ NewHere(local)
    BY <2>2, <2>3
  <2> QED
    BY <2>1, <2>2, <2>4, <2>5, <2>6, SpecFactsRestore
<1>11. ASSUME NEW s \in Sessions, AnnounceFails(s) \/ SpecFails(s) PROVE SpecFacts
  <2>1. n' = n /\ persistent' = persistent
    BY <1>11 DEF AnnounceFails, SpecFails, daemonVars, stateVars
  <2>2. PICK b : b = FALSE
    OBVIOUS
  <2>3. CASE SpecFails(s)
    <3>1. \A q \in Sessions : q # s => call'[q] = call[q]
      BY <2>3, SpecFailsEffect
    <3>2. restore[s].pc = "run" /\ RestoreAt(s, "run", restore[s].live, restore[s].specs, restore[s].announced, b)
      BY <2>2, <2>3, SpecFailsEffect
    <3> QED
      BY <2>1, <2>2, <3>1, <3>2, SpecFactsRestore DEF SpecsStep
  <2>4. CASE AnnounceFails(s)
    <3>1. hello' = hello /\ given' = given /\ s \in Requesters
      BY <2>4 DEF AnnounceFails, daemonVars, gatewayVars
    <3>2. \A q \in Sessions : q # s => call'[q] = call[q]
      <4>1. call' = call \/ (Returns(s) /\ call[s] # Idle)
        BY <2>4, IdleFields DEF AnnounceFails, Waits, Refused
      <4> QED
        BY <2>1, <3>1, <4>1, ReturnsEffect
    <3>3. restore[s].pc = "run" /\ \E l : RestoreAt(s, "run", l, restore[s].specs, restore[s].announced, b)
      <4>1. Unanswered(s) \/ NotAsked(s)
        BY <2>4 DEF AnnounceFails, Unanswered, NotAsked
      <4> QED
        BY <2>1, <2>2, <3>1, <4>1, UnansweredEffect, NotAskedEffect
    <3> QED
      BY <2>1, <2>2, <3>2, <3>3, SpecFactsRestore DEF SpecsStep
  <2> QED
    BY <1>11, <2>3, <2>4
<1>12. ASSUME NEW s \in Sessions, GatewayOpens(s) \/ GatewayRefuses(s) \/ GatewayReleases(s) \/ GatewayDrops(s)
       PROVE  SpecFacts
  <2>1. n' = n /\ persistent' = persistent /\ restore' = restore
    BY <1>12 DEF GatewayOpens, GatewayRefuses, GatewayReleases, GatewayDrops, daemonVars, stateVars
  <2>2. \/ call' = call
        \/ \E w \in Requesters :
             /\ call'[w].pc = "answered" /\ call'[w].ask = call[w].ask
             /\ \A q \in Requesters \ {w} : call'[q] = call[q]
    <3>1. CASE GatewayOpens(s)
      BY <3>1, GatewayOpensEffect DEF AnsweredAs, Messages
    <3>2. CASE GatewayRefuses(s)
      BY <3>2, GatewayRefusesEffect DEF AnsweredAs, Messages
    <3>3. CASE GatewayReleases(s)
      BY <3>3, GatewayReleasesEffect DEF AnsweredAs, Messages
    <3>4. CASE GatewayDrops(s)
      BY <3>4 DEF GatewayDrops
    <3> QED
      BY <1>12, <3>1, <3>2, <3>3, <3>4
  <2>3. SpecsStep
    BY <2>1 DEF SpecsStep
  <2> QED
    BY <2>1, <2>2, <2>3, SpecFactsSame
<1>13. CASE Lost \/ UNCHANGED vars
  <2>1. n' = n /\ call' = call /\ restore' = restore /\ persistent' = persistent
    BY <1>13 DEF Lost, vars, daemonVars, stateVars
  <2>2. SpecsStep
    BY <2>1 DEF SpecsStep
  <2> QED
    BY <2>1, <2>2, SpecFactsSame
<1> QED
  BY <1>a, <1>1, <1>2, <1>3, <1>4, <1>5, <1>6, <1>7, <1>8, <1>9, <1>10, <1>11, <1>12, <1>13, <1>14, <1>15,
     <1>16 DEF Next

(* While nothing failed and nothing was closed, the present session, once  *)
(* it has begun, has a tunnel for every specification's address or has yet *)
(* to open one.                                                            *)
Undisturbed == (\A s \in Sessions : restore[s].ok) /\ (\A p \in Closers : call[p] = Idle)
Present(local) == \E id \in DOMAIN tunnels : tunnels[id].local = local /\ tunnels[id].on = n
RestoreInv ==
    n > 0 /\ Begun(n) /\ Undisturbed =>
        /\ \A spec \in persistent : Present(spec.local) \/ ToOpen(n, spec)
        /\ \A local \in restore[n].announced : Present(local)

(* Every step keeps RestoreInv: no tunnel leaves but for one of its address.*)
LEMMA RestoreInvStep ==
    ASSUME Types, Types', Answers, Faithful, StaleInv, RestoreInv, ClosersKept,
           StepFacts, AnnounceFacts, SpecFacts
    PROVE  RestoreInv'
<1> USE Constants, IdleFields
<1> SUFFICES ASSUME n' > 0, Begun(n)', Undisturbed'
             PROVE  /\ \A spec \in persistent' : Present(spec.local)' \/ ToOpen(n, spec)'
                    /\ \A local \in restore'[n'].announced : Present(local)'
  BY DEF RestoreInv
<1>1. n' = n /\ n \in Sessions
  BY DEF AnnounceFacts, PendingStep, Types, NumberTypes, Sessions
<1>2. ~Restarted
  BY <1>1 DEF Restarted
<1>3. \A s \in Sessions : restore[s].ok
  BY <1>2 DEF AnnounceFacts, FailedStep, Undisturbed
\* A closer that is idle has always been.
<1>4. ASSUME NEW p \in Closers PROVE call[p] = Idle
  <2>1. call'[p] = Idle
    BY DEF Undisturbed
  <2>2. call'[p].ask.op # "close"
    BY <2>1
  <2> QED
    BY <2>2 DEF ClosersKept, Types, CallTypes, GoodCall
<1>5. Undisturbed
  BY <1>3, <1>4 DEF Undisturbed
<1>6. \A id : ~Closing(id)
  BY <1>4 DEF Closing
<1>7. \A id \in DOMAIN tunnels : tunnels[id].status # "stale"
  BY <1>3 DEF StaleInv
\* A tunnel that is there stays or is replaced.
<1>8. ASSUME NEW local, NewHere(local) PROVE Present(local)'
  <2>1. PICK p \in Requesters :
          /\ Installs(p, call[p].ack.id) /\ call[p].ask.local = local
          /\ call[p].ack.id \in DOMAIN tunnels' /\ InstalledAs(tunnels'[call[p].ack.id], call[p])
    BY <1>8 DEF NewHere
  <2>2. Begun(n)
    <3>1. call[p].ack.id \notin DOMAIN tunnels
      BY <2>1, KnownMembers DEF Installs, Answers, Fresh
    <3> QED
      BY <1>1, <2>1, <3>1 DEF AnnounceFacts, PendingStep, Sessions
  <2>3. call[p].on = n
    BY <1>1, <2>1, <2>2 DEF Installs, Got, StaleInv, Settled, Sessions
  <2> QED
    BY <1>1, <2>1, <2>3 DEF Present, InstalledAs
<1>9. ASSUME NEW local, Present(local) PROVE Present(local)'
  <2>1. PICK id \in DOMAIN tunnels : tunnels[id].local = local /\ tunnels[id].on = n
    BY <1>9 DEF Present
  <2>2. CASE id \in DOMAIN tunnels'
    <3>1. ASSUME NEW p \in Requesters, Installs(p, id) PROVE FALSE
      BY <3>1, KnownMembers DEF Installs, Answers, Fresh
    <3>2. Keeps(tunnels[id], tunnels'[id])
      BY <2>2, <3>1 DEF StepFacts, TunnelStep
    <3> QED
      BY <1>1, <2>1, <2>2, <3>2 DEF Present, Keeps
  <2>3. CASE id \notin DOMAIN tunnels'
    <3>1. PICK p \in Requesters :
            /\ Installs(p, call[p].ack.id) /\ call[p].ask.id = id
            /\ call[p].ack.id \in DOMAIN tunnels' /\ InstalledAs(tunnels'[call[p].ack.id], call[p])
      BY <1>2, <1>6, <2>3 DEF AnnounceFacts, RemovedStep
    <3>2. call[p].ask.local = local
      BY <2>1, <3>1 DEF Installs, Got, Faithful, Same
    <3>3. NewHere(local)
      BY <3>1, <3>2 DEF NewHere
    <3> QED
      BY <1>8, <3>3
  <2> QED
    BY <2>2, <2>3
<1>10. CASE ~Begun(n) /\ restore'[n].specs = persistent' /\ restore'[n].announced = {}
  BY <1>1, <1>10 DEF ToOpen
<1>11. CASE /\ Begun(n)
            /\ \A spec : ToOpen(n, spec) =>
                  ToOpen(n, spec)' \/ NewHere(spec.local) \/ ~restore'[n].ok \/ SkipsNow(n, spec)
            /\ \A local \in restore'[n].announced : local \in restore[n].announced \/ NewHere(local)
  <2>1. /\ \A spec \in persistent : Present(spec.local) \/ ToOpen(n, spec)
        /\ \A local \in restore[n].announced : Present(local)
    BY <1>1, <1>5, <1>11 DEF RestoreInv, Sessions
  <2>2. ASSUME NEW spec, SkipsNow(n, spec) PROVE Present(spec.local)
    <3>1. CASE spec.local \in restore[n].announced
      BY <2>1, <3>1
    <3>2. CASE Already(spec.local)
      <4>1. PICK id \in DOMAIN tunnels : tunnels[id].local = spec.local
        BY <3>2 DEF Already
      <4>2. ~Pending(id)
        BY <2>2, <4>1 DEF SkipsNow, Pending, ToAnnounce
      <4>3. tunnels[id].on = n
        BY <1>1, <1>7, <1>11, <4>1, <4>2 DEF StaleInv, Sessions
      <4> QED
        BY <4>1, <4>3 DEF Present
    <3> QED
      BY <2>2, <3>1, <3>2 DEF SkipsNow, Skips
  <2>3. restore'[n].ok
    BY <1>1 DEF Undisturbed
  <2>4. ASSUME NEW spec \in persistent' PROVE Present(spec.local)' \/ ToOpen(n, spec)'
    <3>1. CASE NewHere(spec.local)
      BY <1>8, <3>1
    <3>2. CASE spec \in persistent
      BY <1>8, <1>9, <1>11, <2>1, <2>2, <2>3, <3>2
    <3> QED
      BY <3>1, <3>2 DEF SpecFacts, SpecsStep
  <2>5. \A local \in restore'[n].announced : Present(local)'
    BY <1>8, <1>9, <1>11, <2>1
  <2> QED
    BY <1>1, <2>4, <2>5
<1> QED
  BY <1>1, <1>10, <1>11 DEF SpecFacts, RestoringStep

(* A restoration that is done has nothing to open.                          *)
LEMMA RestoreHolds ==
    ASSUME Types, RestoreInv
    PROVE  Restored
<1>1. SUFFICES ASSUME n > 0, restore[n].pc = "done", Undisturbed, NEW spec \in persistent
               PROVE  \E id \in DOMAIN tunnels : tunnels[id].local = spec.local /\ tunnels[id].on = n
  BY DEF Restored, Undisturbed
<1>2. n \in Sessions
  BY <1>1 DEF Types, NumberTypes, Sessions
<1>3. restore[n].specs = {} /\ restore[n].next = {} /\ call[n] = Idle
  BY <1>1, <1>2 DEF Types, RestoreTypes, GoodRestore
<1>4. ~ToOpen(n, spec)
  BY <1>3, IdleFields DEF ToOpen
<1> QED
  BY <1>1, <1>4 DEF RestoreInv, Begun, Present

-----------------------------------------------------------------------------
(* The theorems.                                                           *)
IInv == /\ Types /\ Answers /\ ServedWhileUp /\ Faithful /\ StaleInv /\ Named
       /\ FoundInv /\ ListedInv /\ RestoreInv

(* All of it holds of every state, for any number of requests, sessions,   *)
(* tunnels and restarts.                                                   *)
THEOREM TunnelsInvariant == Spec => []IInv
<1> USE IdleFields
<1>1. Init => IInv
  <2> SUFFICES ASSUME Init PROVE IInv
    OBVIOUS
  <2>1. Types /\ Answers /\ ServedWhileUp
    BY InitHolds
  <2>2. DOMAIN tunnels = {} /\ n = 0
    BY DEF Init
  <2>3. /\ \A p \in Requesters : call[p].ask.op # "open" /\ call[p].pc = "idle"
        /\ \A s \in Sessions : restore[s].live = {}
    BY DEF Init
  <2>4. Faithful /\ StaleInv /\ Named /\ RestoreInv
    BY <2>2, <2>3 DEF Faithful, StaleInv, Named, RestoreInv
  <2>5. FoundInv /\ ListedInv
    BY <2>2, <2>3, Constants DEF FoundInv, ListedInv, Owed, Past
  <2> QED
    BY <2>1, <2>4, <2>5 DEF IInv
<1>2. IInv /\ [Next]_vars => IInv'
  <2> SUFFICES ASSUME IInv, [Next]_vars PROVE IInv'
    OBVIOUS
  <2>1. /\ Types /\ Answers /\ ServedWhileUp /\ Faithful /\ StaleInv /\ Named
        /\ FoundInv /\ ListedInv /\ RestoreInv
    BY DEF IInv
  <2>2. Types' /\ ClosersKept
    BY <2>1, TypesStep
  <2>3. StepFacts /\ AnnounceFacts /\ CloserFacts /\ SpecFacts
    BY <2>1, StepFactsHold, AnnounceFactsHold, CloserFactsHold, SpecFactsHold
  <2>4. Answers'
    BY <2>1, <2>2, <2>3, AnswersStep
  <2>5. ServedWhileUp'
    BY <2>1, <2>2, <2>3, ServedStep
  <2>6. Faithful'
    BY <2>1, <2>2, <2>3, FaithfulStep
  <2>7. StaleInv'
    BY <2>1, <2>2, <2>3, StaleStep
  <2>8. Named'
    BY <2>1, <2>3, NamedStep
  <2>9. FoundInv' /\ ListedInv'
    BY <2>1, <2>2, <2>3, FoundStep, ListedStep
  <2>10. RestoreInv'
    BY <2>1, <2>2, <2>3, RestoreInvStep
  <2> QED
    BY <2>2, <2>4, <2>5, <2>6, <2>7, <2>8, <2>9, <2>10 DEF IInv
<1> QED
  BY <1>1, <1>2, PTL DEF Spec

(* The types, and no hostname is bound twice at the gateway.               *)
THEOREM TunnelsTypes == Spec => []TunnelsTypeOK
<1>1. Types => TunnelsTypeOK
  <2> SUFFICES ASSUME Types PROVE TunnelsTypeOK
    OBVIOUS
  <2>1. bound \subseteq [id : 1..given, host : Hosts, sess : Sessions]
    <3>1. given \in Nat
      BY Constants DEF Types, NumberTypes
    <3>2. ASSUME NEW l \in bound PROVE l \in [id : 1..given, host : Hosts, sess : Sessions]
      <4>1. l \in [id : 1..MaxTunnels, host : Hosts, sess : Sessions] /\ l.id <= given
        BY DEF Types, StateTypes, BoundTypes
      <4> QED
        BY <3>1, <4>1, Constants
    <3> QED
      BY <3>2
  <2>2. \A p \in Requesters : call[p].pc \in {"idle", "found", "forgot", "wait", "answered", "returned"}
    BY DEF Types, CallTypes, Calls
  <2>3. \A s \in Sessions : restore[s].pc \in {"off", "sleep", "run", "done"}
    BY DEF Types, RestoreTypes, Restores
  <2>4. persistent \subseteq [local : Locals, sub : Hosts \cup {Random}]
    BY DEF Types, StateTypes, SpecTypes, Subs
  <2> QED
    BY <2>1, <2>2, <2>3, <2>4 DEF TunnelsTypeOK, Types, NumberTypes, StateTypes, TunnelTypes, BoundTypes
<1> QED
  BY <1>1, TunnelsInvariant, PTL DEF IInv

(* A tunnel of the present session is routed to it until somebody asks to  *)
(* close it.                                                               *)
THEOREM TunnelsServed == Spec => []ServedWhileUp
BY TunnelsInvariant, PTL DEF IInv

(* No tunnel of an earlier session looks active once restoreTunnels is     *)
(* done.                                                                   *)
THEOREM TunnelsReannounced == Spec => []Reannounced
<1>1. IInv => Reannounced
  BY StaleHolds DEF IInv
<1> QED
  BY <1>1, TunnelsInvariant, PTL

(* Every address with a specification has a tunnel when restoreTunnels is  *)
(* done, if nothing failed or was closed.                                  *)
THEOREM TunnelsRestored == Spec => []Restored
<1>1. IInv => Restored
  BY RestoreHolds DEF IInv
<1> QED
  BY <1>1, TunnelsInvariant, PTL

(* No reconnection changes a public URL.                                   *)
THEOREM TunnelsUrlKept == Spec => UrlKept
<1>1. IInv /\ [Next]_vars => [UrlStep]_vars
  BY AnnounceFactsHold, UrlHolds DEF IInv
<1>2. [UrlStep]_vars => [\A id \in DOMAIN tunnels \ DOMAIN tunnels' :
                            \/ restarts' > restarts
                            \/ Closing(id)
                            \/ \E i \in DOMAIN tunnels' \ DOMAIN tunnels : SameTunnel(tunnels[id], tunnels'[i])]_vars
  BY DEF UrlStep
<1> QED
  BY <1>1, <1>2, TunnelsInvariant, PTL DEF Spec, UrlKept

(* A specification that a close call leaves behind is that of a tunnel      *)
(* which the daemon still has, and shows.                                  *)
THEOREM TunnelsClosedOrListed == Spec => ClosedOrListed
<1>1. IInv /\ [Next]_vars =>
        [\A p \in Closers : Closes(p) /\ call[p].ask.sub # Random /\ Dropped(p) \in persistent' =>
            \E id \in DOMAIN tunnels' : tunnels'[id].persist /\ SpecFor(tunnels'[id]) = Dropped(p)]_vars
  <2> SUFFICES ASSUME IInv, NEW p \in Closers, Closes(p), call[p].ask.sub # Random, Dropped(p) \in persistent'
               PROVE  \E id \in DOMAIN tunnels' : tunnels'[id].persist /\ SpecFor(tunnels'[id]) = Dropped(p)
    OBVIOUS
  <2>1. Types /\ ListedInv
    BY DEF IInv
  <2>2. /\ Past(p) /\ persistent' = persistent
        /\ DOMAIN tunnels' = DOMAIN tunnels \ {call[p].ask.id}
        /\ \A id \in DOMAIN tunnels' : tunnels'[id] = tunnels[id]
    BY <2>1, CloseDeletesEffect DEF Closes, CloseDeletes, Opened, Past
  <2>3. PICK spec \in SpecTypes : spec = Dropped(p)
    BY <2>1, <2>2 DEF Types, StateTypes
  <2>4. Owed(p, spec)
    BY <2>2, <2>3 DEF Owed, Closes, Dropped
  <2>5. PICK id : Shown(id, spec)
    BY <2>1, <2>4 DEF ListedInv
  <2> QED
    BY <2>2, <2>3, <2>5 DEF Shown
<1> QED
  BY <1>1, TunnelsInvariant, PTL DEF Spec, ClosedOrListed
=============================================================================
