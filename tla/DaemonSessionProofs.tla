------------------------ MODULE DaemonSessionProofs ------------------------
(***************************************************************************)
(* Proofs about DaemonSession: for any number of connections, pings and    *)
(* callers, a call is only ever given the answer to its own request.       *)
(*                                                                         *)
(* The argument: numbers are drawn once and never again, so whatever is in *)
(* flight under the number of a call was written for that call, even if it *)
(* travels on another connection than the one the caller now thinks of.    *)
(***************************************************************************)
EXTENDS DaemonSession, TLAPS

Elems(q) == {q[i] : i \in 1..Len(q)}

InFlight(n) == Elems(toGw[n]) \cup Elems(fromGw[n])

(* A message in flight has a number that was drawn, and a call under that  *)
(* number is the one it was written for.                                   *)
NumberedFor(m) ==
    /\ m.seq \in 1..seq
    /\ \A w \in Waiters : call[w].pc # "idle" /\ call[w].seq = m.seq => m.of = w

OwnNumbers == \A n \in Attempts : \A m \in InFlight(n) : NumberedFor(m)

(* The two halves of SessionTypeOK. *)
ControlTypes ==
    /\ loop \in {"connect", "serve", "reset", "backoff", "crashed"} /\ att \in 0..MaxAttempts
    /\ h2 \in [Attempts -> BOOLEAN] /\ alive \in [Attempts -> BOOLEAN] /\ closed \in [Attempts -> BOOLEAN]
    /\ spc \in [Attempts -> {"none", "start", "hello", "run", "ended"}]
    /\ reader \in [Attempts -> {"off", "on", "failed"}]
    /\ ka \in [Attempts -> {"none", "first", "tick", "ended"}]
    /\ control \in Attempts \cup {None} /\ connected \in BOOLEAN
CallTypes ==
    /\ seq \in Nat /\ call \in [Waiters -> Call]
    /\ \A w \in Waiters : call[w].seq \in 0..seq
    /\ toGw \in [Attempts -> Seq(Envelope)] /\ fromGw \in [Attempts -> Seq(Envelope)]

CallInv == CallTypes /\ AnswerIsOwn /\ OwnNumbers
SessInv == ControlTypes /\ CallInv

-----------------------------------------------------------------------------
(* Sequences and their elements.                                           *)

LEMMA ElemsEmpty == Elems(<<>>) = {}
BY DEF Elems

LEMMA ElemsAppend ==
    ASSUME NEW S, NEW q \in Seq(S), NEW x \in S
    PROVE  Append(q, x) \in Seq(S) /\ Elems(Append(q, x)) \subseteq Elems(q) \cup {x}
<1>1. Append(q, x) \in Seq(S) /\ Len(Append(q, x)) = Len(q) + 1
  OBVIOUS
<1>2. ASSUME NEW i \in 1..Len(Append(q, x))
      PROVE  Append(q, x)[i] \in Elems(q) \cup {x}
  <2>1. CASE i = Len(q) + 1
    BY <2>1
  <2>2. CASE i \in 1..Len(q)
    BY <2>2 DEF Elems
  <2> QED
    BY <1>1, <2>1, <2>2
<1> QED
  BY <1>1, <1>2 DEF Elems

LEMMA ElemsTail ==
    ASSUME NEW S, NEW q \in Seq(S), q # <<>>
    PROVE  /\ Tail(q) \in Seq(S) /\ Elems(Tail(q)) \subseteq Elems(q)
           /\ Head(q) \in S /\ Head(q) \in Elems(q)
<1>1. /\ Tail(q) \in Seq(S) /\ Len(Tail(q)) = Len(q) - 1 /\ Len(q) \in Nat \ {0}
      /\ Head(q) = q[1] /\ Head(q) \in S
  OBVIOUS
<1>2. ASSUME NEW i \in 1..Len(Tail(q))
      PROVE  Tail(q)[i] \in Elems(q)
  <2>1. i + 1 \in 1..Len(q) /\ Tail(q)[i] = q[i + 1]
    BY <1>1
  <2> QED
    BY <2>1 DEF Elems
<1> QED
  BY <1>1, <1>2 DEF Elems

-----------------------------------------------------------------------------
(* Calls and messages keep their numbers.                                  *)

Kept(w) ==
    \/ call'[w].pc = "idle" \/ call'[w].seq = 0
    \/ call[w].pc # "idle" /\ call'[w].seq = call[w].seq

(* A step that draws no number, writes nothing new and gives no call       *)
(* another number.                                                         *)
LEMMA NothingDrawn ==
    ASSUME CallTypes, OwnNumbers, seq' = seq,
           \A w \in Waiters : Kept(w),
           \A n \in Attempts : InFlight(n)' \subseteq InFlight(n)
    PROVE  OwnNumbers'
<1> SUFFICES ASSUME NEW n \in Attempts, NEW m \in InFlight(n)' PROVE NumberedFor(m)'
  BY DEF OwnNumbers
<1>1. NumberedFor(m) /\ seq \in Nat
  BY DEF OwnNumbers, CallTypes
<1> QED
  BY <1>1 DEF NumberedFor, Kept

(* A step that draws the next number for w and writes at most a message    *)
(* under it.                                                               *)
LEMMA NumberDrawn ==
    ASSUME CallTypes, OwnNumbers, NEW w \in Waiters, seq' = seq + 1,
           \A v \in Waiters \ {w} : call'[v] = call[v],
           call'[w].seq = seq + 1,
           \A n \in Attempts : InFlight(n)' \subseteq InFlight(n) \cup {[seq |-> seq + 1, of |-> w]}
    PROVE  OwnNumbers'
<1> SUFFICES ASSUME NEW n \in Attempts, NEW m \in InFlight(n)' PROVE NumberedFor(m)'
  BY DEF OwnNumbers
<1>1. seq \in Nat /\ \A v \in Waiters : call[v].seq \in 0..seq
  BY DEF CallTypes
<1>2. CASE m \in InFlight(n)
  <2>1. NumberedFor(m)
    BY <1>2 DEF OwnNumbers
  <2> QED
    BY <1>1, <2>1 DEF NumberedFor
<1>3. CASE m = [seq |-> seq + 1, of |-> w]
  BY <1>1, <1>3 DEF NumberedFor
<1> QED
  BY <1>2, <1>3

-----------------------------------------------------------------------------
(* What the pieces of the actions do to calls and messages.                *)

LEMMA ExpectAndWriteKeeps ==
    ASSUME CallInv, NEW w \in Waiters, NEW n \in Attempts,
           ExpectAndWrite(w, n), fromGw' = fromGw
    PROVE  CallInv'
<1> DEFINE m == [seq |-> seq + 1, of |-> w]
<1>0. /\ seq \in Nat /\ call \in [Waiters -> Call]
      /\ toGw \in [Attempts -> Seq(Envelope)]
      /\ fromGw \in [Attempts -> Seq(Envelope)]
      /\ \A v \in Waiters : call[v].seq \in 0..seq
  BY DEF CallInv, CallTypes
<1>1. m \in Envelope
  BY <1>0 DEF Envelope
<1>2. PICK pc \in {"wait", "unsent"} : Expect(w, n, pc)
  BY DEF ExpectAndWrite
<1>3. /\ seq' = seq + 1 /\ call' \in [Waiters -> Call]
      /\ call'[w].seq = seq + 1 /\ call'[w].got = None
      /\ \A v \in Waiters \ {w} : call'[v] = call[v]
  BY <1>0, <1>1, <1>2 DEF Expect, Call
<1>4. toGw' = [toGw EXCEPT ![n] = Append(@, m)] \/ toGw' = toGw
  BY <1>3 DEF ExpectAndWrite, Put
<1>5. Append(toGw[n], m) \in Seq(Envelope) /\ Elems(Append(toGw[n], m)) \subseteq Elems(toGw[n]) \cup {m}
  BY <1>0, <1>1, ElemsAppend
<1> HIDE DEF m
<1>6. toGw' \in [Attempts -> Seq(Envelope)]
  BY <1>0, <1>1, <1>4, <1>5
<1>7. \A k \in Attempts : Elems(toGw'[k]) \subseteq Elems(toGw[k]) \cup {m}
  BY <1>0, <1>1, <1>4, <1>5
<1>8. \A k \in Attempts : InFlight(k)' \subseteq InFlight(k) \cup {m}
  BY <1>7 DEF InFlight, Elems
<1>9. OwnNumbers'
  BY <1>3, <1>8, NumberDrawn DEF CallInv, m
<1>10. CallTypes'
  <2>1. ASSUME NEW v \in Waiters
        PROVE  call'[v].seq \in 0..seq'
    <3>1. CASE v = w
      BY <1>0, <1>3, <3>1
    <3>2. CASE v # w
      <4>1. call'[v] = call[v]
        BY <1>3, <3>2
      <4> QED
        BY <1>0, <1>3, <4>1
    <3> QED
      BY <3>1, <3>2
  <2> QED
    BY <1>0, <1>3, <1>6, <2>1 DEF CallTypes
<1>11. AnswerIsOwn'
  BY <1>3 DEF CallInv, AnswerIsOwn
<1> QED
  BY <1>9, <1>10, <1>11 DEF CallInv

(* A call that is over; messages stay or are lost.                         *)
LEMMA CallOver ==
    ASSUME CallInv, NEW w \in Waiters, NEW c \in {NoCall, [NoCall EXCEPT !.pc = "returned"]},
           call' = [call EXCEPT ![w] = c], seq' = seq, toGw' = toGw, fromGw' = fromGw
    PROVE  CallInv'
<1>1. c \in Call /\ c.seq = 0 /\ c.got = None
  BY DEF NoCall, Call
<1>2. CallTypes' /\ AnswerIsOwn'
  BY <1>1 DEF CallInv, CallTypes, AnswerIsOwn
<1>3. \A v \in Waiters : Kept(v)
  BY <1>1 DEF Kept, CallInv, CallTypes
<1>4. \A n \in Attempts : InFlight(n)' \subseteq InFlight(n)
  BY DEF InFlight
<1> QED
  BY <1>2, <1>3, <1>4, NothingDrawn DEF CallInv

(* Messages that move on or are lost; no call is touched.                  *)
LEMMA MessagesMove ==
    ASSUME CallInv, call' = call, seq' = seq,
           toGw' \in [Attempts -> Seq(Envelope)], fromGw' \in [Attempts -> Seq(Envelope)],
           \A n \in Attempts : InFlight(n)' \subseteq InFlight(n)
    PROVE  CallInv'
<1>1. CallTypes' /\ AnswerIsOwn'
  BY DEF CallInv, CallTypes, AnswerIsOwn
<1>2. \A v \in Waiters : Kept(v)
  BY DEF Kept, CallInv, CallTypes
<1> QED
  BY <1>1, <1>2, NothingDrawn DEF CallInv

LEMMA DownKeeps ==
    ASSUME CallInv, NEW n, Down(n), UNCHANGED callVars
    PROVE  CallInv'
<1>1. <<>> \in Seq(Envelope) /\ Elems(<<>>) = {}
  BY ElemsEmpty
<1>2. /\ toGw \in [Attempts -> Seq(Envelope)] /\ fromGw \in [Attempts -> Seq(Envelope)]
      /\ toGw' = [toGw EXCEPT ![n] = <<>>]
      /\ fromGw' = [fromGw EXCEPT ![n] = <<>>] \/ fromGw' = fromGw
  BY DEF CallInv, CallTypes, Down
<1>3. toGw' \in [Attempts -> Seq(Envelope)] /\ fromGw' \in [Attempts -> Seq(Envelope)]
  BY <1>1, <1>2
<1>4. \A k \in Attempts : /\ toGw'[k] \in {toGw[k], <<>>}
                           /\ fromGw'[k] \in {fromGw[k], <<>>}
  BY <1>2
<1>5. \A k \in Attempts : InFlight(k)' \subseteq InFlight(k)
  BY <1>1, <1>4 DEF InFlight, Elems
<1> QED
  BY <1>3, <1>5, MessagesMove DEF callVars

-----------------------------------------------------------------------------
(* The actions.                                                            *)

LEMMA DispatchKeeps ==
    ASSUME CallInv, NEW n \in Attempts, Dispatch(n)
    PROVE  CallInv'
<1> DEFINE m == Head(fromGw[n])
           hit == {w \in Waiters : call[w].pc # "idle" /\ call[w].seq = m.seq /\ call[w].got = None}
<1>1. /\ fromGw[n] \in Seq(Envelope) /\ fromGw[n] # <<>> /\ n \in Attempts
      /\ fromGw \in [Attempts -> Seq(Envelope)] /\ toGw \in [Attempts -> Seq(Envelope)]
      /\ call \in [Waiters -> Call] /\ seq \in Nat
  BY DEF CallInv, CallTypes, Dispatch
<1>2. /\ Tail(fromGw[n]) \in Seq(Envelope) /\ Elems(Tail(fromGw[n])) \subseteq Elems(fromGw[n])
      /\ m \in Envelope /\ m \in Elems(fromGw[n])
  BY <1>1, ElemsTail
<1>3. NumberedFor(m)
  BY <1>2 DEF CallInv, OwnNumbers, InFlight
<1>4. /\ call' = [w \in Waiters |-> IF w \in hit THEN [call[w] EXCEPT !.got = m.of] ELSE call[w]]
      /\ fromGw' = [fromGw EXCEPT ![n] = Tail(@)] /\ toGw' = toGw /\ seq' = seq
  BY DEF Dispatch
<1>5. \A w \in hit : m.of = w
  BY <1>3 DEF NumberedFor
<1> HIDE DEF m
<1>6. ASSUME NEW w \in Waiters
      PROVE  /\ call'[w] \in Call /\ call'[w].got \in {call[w].got, w}
             /\ call'[w].seq = call[w].seq /\ call'[w].pc = call[w].pc
  <2>1. call[w] \in Call
    BY <1>1
  <2>2. CASE w \in hit
    <3>1. call'[w] = [call[w] EXCEPT !.got = w]
      BY <1>4, <1>5, <2>2
    <3> QED
      BY <2>1, <3>1 DEF Call
  <2>3. CASE w \notin hit
    <3>1. call'[w] = call[w]
      BY <1>4, <2>3
    <3> QED
      BY <2>1, <3>1
  <2> QED
    BY <2>2, <2>3
<1>7. fromGw' \in [Attempts -> Seq(Envelope)]
  BY <1>1, <1>2, <1>4
<1>8. \A k \in Attempts : Elems(fromGw'[k]) \subseteq Elems(fromGw[k])
  BY <1>1, <1>2, <1>4
<1>9. \A k \in Attempts : InFlight(k)' \subseteq InFlight(k)
  BY <1>4, <1>8 DEF InFlight, Elems
<1>10. \A w \in Waiters : Kept(w)
  BY <1>6 DEF Kept
<1>11. OwnNumbers'
  BY <1>4, <1>9, <1>10, NothingDrawn DEF CallInv
<1>12. CallTypes' /\ AnswerIsOwn'
  <2>1. call' \in [Waiters -> Call]
    BY <1>4, <1>6
  <2> QED
    BY <1>1, <1>4, <1>6, <1>7, <2>1 DEF CallInv, CallTypes, AnswerIsOwn
<1> QED
  BY <1>11, <1>12 DEF CallInv

LEMMA ReaderFailsKeeps ==
    ASSUME CallInv, NEW n \in Attempts, ReaderFails(n)
    PROVE  CallInv'
<1>1. <<>> \in Seq(Envelope) /\ Elems(<<>>) = {}
  BY ElemsEmpty
<1>2. /\ toGw \in [Attempts -> Seq(Envelope)] /\ fromGw \in [Attempts -> Seq(Envelope)]
      /\ fromGw' = [fromGw EXCEPT ![n] = <<>>] /\ toGw' = toGw
      /\ call' = call /\ seq' = seq
  BY DEF CallInv, CallTypes, ReaderFails, callVars
<1>3. fromGw' \in [Attempts -> Seq(Envelope)] /\ \A k \in Attempts : fromGw'[k] \in {fromGw[k], <<>>}
  BY <1>1, <1>2
<1>4. \A k \in Attempts : InFlight(k)' \subseteq InFlight(k)
  BY <1>1, <1>2, <1>3 DEF InFlight, Elems
<1> QED
  BY <1>2, <1>3, <1>4, MessagesMove

(* An answer goes out under the number of the message it answers, or none. *)
LEMMA GatewayReadsKeeps ==
    ASSUME CallInv, NEW n \in Attempts, GatewayAnswers(n) \/ GatewayErrs(n)
    PROVE  CallInv'
<1> DEFINE m == Head(toGw[n])
<1>1. /\ toGw[n] \in Seq(Envelope) /\ toGw[n] # <<>> /\ fromGw[n] \in Seq(Envelope)
      /\ fromGw \in [Attempts -> Seq(Envelope)] /\ toGw \in [Attempts -> Seq(Envelope)]
      /\ toGw' = [toGw EXCEPT ![n] = Tail(@)] /\ call' = call /\ seq' = seq
      /\ fromGw' = [fromGw EXCEPT ![n] = Append(@, m)] \/ fromGw' = fromGw
  BY DEF CallInv, CallTypes, GatewayAnswers, GatewayErrs, callVars
<1>2. /\ Tail(toGw[n]) \in Seq(Envelope) /\ Elems(Tail(toGw[n])) \subseteq Elems(toGw[n])
      /\ m \in Envelope /\ m \in Elems(toGw[n])
  BY <1>1, ElemsTail
<1> HIDE DEF m
<1>3. /\ Append(fromGw[n], m) \in Seq(Envelope)
      /\ Elems(Append(fromGw[n], m)) \subseteq Elems(fromGw[n]) \cup {m}
  BY <1>1, <1>2, ElemsAppend
<1>4. toGw' \in [Attempts -> Seq(Envelope)] /\ fromGw' \in [Attempts -> Seq(Envelope)]
  BY <1>1, <1>2, <1>3
<1>5. \A k \in Attempts : Elems(toGw'[k]) \subseteq Elems(toGw[k])
  BY <1>1, <1>2
<1>6. \A k \in Attempts : Elems(fromGw'[k]) \subseteq Elems(fromGw[k]) \cup Elems(toGw[k])
  BY <1>1, <1>2, <1>3
<1>7. \A k \in Attempts : InFlight(k)' \subseteq InFlight(k)
  BY <1>5, <1>6 DEF InFlight, Elems
<1> QED
  BY <1>1, <1>4, <1>7, MessagesMove

(* The end of the process: no call and no message is left.                 *)
LEMMA PingCrashesKeeps ==
    ASSUME CallInv, NEW n \in Attempts, PingCrashes(n)
    PROVE  CallInv'
<1>1. <<>> \in Seq(Envelope) /\ Elems(<<>>) = {} /\ NoCall \in Call /\ NoCall.seq = 0 /\ NoCall.got = None
  BY ElemsEmpty DEF NoCall, Call
<1>2. /\ call' = [w \in Waiters |-> NoCall] /\ seq' = seq /\ seq \in Nat
      /\ toGw' = [m \in Attempts |-> <<>>] /\ fromGw' = [m \in Attempts |-> <<>>]
  BY DEF PingCrashes, CallInv, CallTypes
<1>3. CallTypes' /\ AnswerIsOwn'
  BY <1>1, <1>2 DEF CallTypes, AnswerIsOwn
<1>4. \A m \in Attempts : InFlight(m)' = {}
  BY <1>1, <1>2 DEF InFlight, Elems
<1>5. OwnNumbers'
  BY <1>4 DEF OwnNumbers
<1> QED
  BY <1>3, <1>5 DEF CallInv

(* Every step keeps the calls and their answers right.                     *)
LEMMA CallStep ==
    ASSUME SessInv, [Next]_vars
    PROVE  CallInv'
<1> USE DEF SessInv
<1>0. /\ \A n \in Attempts : Hello(n) \in Waiters /\ Ping(n) \in Waiters
      /\ \A c \in Callers : Api(c) \in Waiters
  BY DEF Waiters
<1>1. CASE DialFails \/ Dial \/ Reset \/ Backoff
  <2>1. UNCHANGED <<callVars, netVars>>
    BY <1>1 DEF DialFails, Dial, Reset, Backoff
  <2> QED
    BY <2>1, MessagesMove DEF CallInv, CallTypes, callVars, netVars, InFlight
<1>2. CASE ServeEnds
  BY <1>2, DownKeeps DEF ServeEnds
<1>3. ASSUME NEW n \in Attempts, OnControl(n) PROVE CallInv'
  <2>1. UNCHANGED <<callVars, netVars>>
    BY <1>3 DEF OnControl
  <2> QED
    BY <2>1, MessagesMove DEF CallInv, CallTypes, callVars, netVars, InFlight
<1>4. ASSUME NEW n \in Attempts, Session(n) PROVE CallInv'
  <2>1. CASE Start(n)
    BY <1>0, <2>1, ExpectAndWriteKeeps DEF Start
  <2>2. CASE Serving(n) \/ SessionEnds(n)
    <3>1. /\ call' = [call EXCEPT ![Hello(n)] = NoCall]
          /\ seq' = seq /\ toGw' = toGw /\ fromGw' = fromGw
      BY <2>2 DEF Serving, SessionEnds, netVars
    <3> QED
      BY <1>0, <3>1, CallOver
  <2> QED
    BY <1>4, <2>1, <2>2 DEF Session
<1>5. ASSUME NEW n \in Attempts, Reader(n) PROVE CallInv'
  BY <1>5, DispatchKeeps, ReaderFailsKeeps DEF Reader
<1>6. ASSUME NEW n \in Attempts, Keepalive(n) PROVE CallInv'
  <2>1. CASE PingStarts(n)
    <3>1. control \in Attempts
      BY <2>1 DEF PingStarts, PingDue, ControlTypes
    <3> QED
      BY <1>0, <2>1, <3>1, ExpectAndWriteKeeps DEF PingStarts
  <2>2. CASE PingAnswered(n) \/ PingTimesOut(n) \/ KeepaliveEnds(n)
    <3>1. /\ call' = [call EXCEPT ![Ping(n)] = NoCall]
          /\ seq' = seq /\ toGw' = toGw /\ fromGw' = fromGw
      BY <2>2 DEF PingAnswered, PingTimesOut, KeepaliveEnds, KeepaliveReturns, netVars
    <3> QED
      BY <1>0, <3>1, CallOver
  <2>3. CASE PingCrashes(n)
    BY <2>3, PingCrashesKeeps
  <2> QED
    BY <1>6, <2>1, <2>2, <2>3 DEF Keepalive
<1>7. ASSUME NEW n \in Attempts, Gateway(n) PROVE CallInv'
  <2>1. CASE GatewayCloses(n)
    BY <2>1, DownKeeps DEF GatewayCloses
  <2> QED
    BY <1>7, <2>1, GatewayReadsKeeps DEF Gateway
<1>8. ASSUME NEW n \in Attempts, Breaks(n) PROVE CallInv'
  BY <1>8, DownKeeps DEF Breaks
<1>9. ASSUME NEW c \in Callers, Caller(c) PROVE CallInv'
  <2>1. CASE ApiAsks(c)
    <3>1. control \in Attempts
      BY <2>1 DEF ApiAsks, ControlTypes
    <3> QED
      BY <1>0, <2>1, <3>1, ExpectAndWriteKeeps DEF ApiAsks
  <2>2. CASE ApiReturns(c)
    <3>1. /\ call' = [call EXCEPT ![Api(c)] = [NoCall EXCEPT !.pc = "returned"]]
          /\ seq' = seq /\ toGw' = toGw /\ fromGw' = fromGw
      BY <2>2 DEF ApiReturns, netVars
    <3> QED
      BY <1>0, <3>1, CallOver
  <2> QED
    BY <1>9, <2>1, <2>2 DEF Caller
<1>10. CASE UNCHANGED vars
  BY <1>10, MessagesMove DEF CallInv, CallTypes, vars, callVars, netVars, InFlight
<1> QED
  BY <1>1, <1>2, <1>3, <1>4, <1>5, <1>6, <1>7, <1>8, <1>9, <1>10 DEF Next, Loop

(* The control state keeps its types.                                      *)
LEMMA ControlStep ==
    ASSUME SessInv, [Next]_vars
    PROVE  ControlTypes'
<1> USE DEF SessInv, ControlTypes, Attempts
<1>1. CASE Dial
  <2>1. att \in Nat /\ MaxAttempts \in Nat /\ att < MaxAttempts /\ att' = att + 1
    BY <1>1, SessionAssumption DEF Dial
  <2>2. att' \in 0..MaxAttempts
    BY <2>1
  <2>3. PICK http2 \in BOOLEAN :
          /\ h2' = [h2 EXCEPT ![att + 1] = http2]
          /\ spc' = [spc EXCEPT ![att + 1] = IF http2 THEN "none" ELSE "start"]
    BY <1>1 DEF Dial
  <2>4. h2' \in [Attempts -> BOOLEAN] /\ spc' \in [Attempts -> {"none", "start", "hello", "run", "ended"}]
    BY <2>3
  <2> QED
    BY <1>1, <2>2, <2>4 DEF Dial, sharedVars
<1>11. CASE DialFails
  <2>1. att \in Nat /\ MaxAttempts \in Nat /\ att < MaxAttempts /\ att' = att + 1
    BY <1>11, SessionAssumption DEF DialFails
  <2>2. att' \in 0..MaxAttempts
    BY <2>1
  <2> QED
    BY <1>11, <2>2 DEF DialFails, connVars, sessVars, sharedVars
<1>12. CASE ServeEnds \/ Reset \/ Backoff
  BY <1>12 DEF ServeEnds, Reset, Backoff, Down, connVars, sessVars, sharedVars
<1>2. ASSUME NEW n \in Attempts, OnControl(n) \/ Session(n) \/ Reader(n) PROVE ControlTypes'
  BY <1>2 DEF OnControl, Session, Start, Serving, SessionEnds, Reader, Dispatch, ReaderFails,
              loopVars, connVars, sessVars, sharedVars
<1>3. ASSUME NEW n \in Attempts, Keepalive(n) PROVE ControlTypes'
  <2>1. CASE PingCrashes(n)
    BY <2>1 DEF PingCrashes
  <2>2. CASE ~PingCrashes(n)
    BY <1>3, <2>2 DEF Keepalive, PingStarts, PingAnswered, PingTimesOut, KeepaliveEnds, KeepaliveReturns,
                      loopVars, connVars, sessVars, sharedVars
  <2> QED
    BY <2>1, <2>2
<1>4. ASSUME NEW n \in Attempts, Gateway(n) \/ Breaks(n) PROVE ControlTypes'
  BY <1>4 DEF Gateway, GatewayAnswers, GatewayErrs, GatewayCloses, Breaks, Down,
              loopVars, connVars, sessVars, sharedVars
<1>5. ASSUME NEW c \in Callers, Caller(c) PROVE ControlTypes'
  BY <1>5 DEF Caller, ApiAsks, ApiReturns, loopVars, connVars, sessVars, sharedVars
<1>6. CASE UNCHANGED vars
  BY <1>6 DEF vars, loopVars, connVars, sessVars, sharedVars
<1> QED
  BY <1>1, <1>11, <1>12, <1>2, <1>3, <1>4, <1>5, <1>6 DEF Next, Loop

LEMMA InitInv == Init => SessInv
<1> SUFFICES ASSUME Init PROVE SessInv
  OBVIOUS
<1>1. ControlTypes
  <2>1. att \in 0..MaxAttempts
    BY SessionAssumption DEF Init
  <2> QED
    BY <2>1 DEF Init, ControlTypes
<1>2. CallTypes /\ AnswerIsOwn
  BY DEF Init, CallTypes, AnswerIsOwn, Call, NoCall
<1>3. \A n \in Attempts : toGw[n] = <<>> /\ fromGw[n] = <<>>
  BY DEF Init
<1>4. OwnNumbers
  BY <1>3 DEF OwnNumbers, InFlight, Elems
<1> QED
  BY <1>1, <1>2, <1>4 DEF SessInv, CallInv

LEMMA SessionInvariant == Spec => []SessInv
<1>1. SessInv /\ [Next]_vars => SessInv'
  BY CallStep, ControlStep DEF SessInv
<1> QED
  BY <1>1, InitInv, PTL DEF Spec

(* The daemon's connection state keeps its types, and no number is in use  *)
(* that was not drawn, for any number of connections and callers.          *)
THEOREM SessionTypeCorrect == Spec => []SessionTypeOK
<1>1. SessInv => SessionTypeOK
  BY DEF SessInv, ControlTypes, CallInv, CallTypes, SessionTypeOK
<1> QED
  BY <1>1, SessionInvariant, PTL

(* Whatever is late, lost or answered with an error, and over however many *)
(* connections: what dispatch gives a call is the answer to its request.   *)
THEOREM AnswersAreOwn == Spec => []AnswerIsOwn
<1>1. SessInv => AnswerIsOwn
  BY DEF SessInv, CallInv
<1> QED
  BY <1>1, SessionInvariant, PTL
-----------------------------------------------------------------------------
(* What d.control and d.connected are, as long as no connection was        *)
(* HTTP/2: a session at work is the loop's present one.                    *)

AtWork(n) == spc[n] \in {"start", "hello", "run"}

NotYet == \A n \in Attempts : n > att => ~h2[n] /\ spc[n] = "none"

QuicInv ==
    /\ \A n \in Attempts : n <= att /\ AtWork(n) => n = att /\ loop = "serve"
    /\ control \in {None, att}
    /\ connected => control # None
    /\ loop = "serve" /\ att \in Attempts =>
          /\ spc[att] = "start" => control = None
          /\ spc[att] = "hello" => control = att
          /\ spc[att] = "run" => control = att /\ connected
    /\ loop \in {"backoff", "connect"} => control = None /\ ~connected

ControlInv == NotYet /\ (loop = "serve" => att \in Attempts) /\ (OnlyQuic => QuicInv)

(* Most actions concern neither. *)
ControlUnchanged == UNCHANGED <<loop, att, h2, spc, control, connected>>

LEMMA ControlKept ==
    ASSUME ControlInv, ControlUnchanged
    PROVE  ControlInv'
BY DEF ControlInv, ControlUnchanged, NotYet, OnlyQuic, QuicInv, AtWork

LEMMA DialControl ==
    ASSUME ControlTypes, ControlInv, Dial
    PROVE  ControlInv'
<1>1. /\ att \in Nat /\ MaxAttempts \in Nat /\ att + 1 \in Attempts /\ att' = att + 1
      /\ loop = "connect" /\ loop' = "serve" /\ control' = control /\ connected' = connected
  BY SessionAssumption DEF ControlTypes, Dial, Attempts, sharedVars
<1>2. PICK http2 \in BOOLEAN :
        /\ h2' = [h2 EXCEPT ![att + 1] = http2]
        /\ spc' = [spc EXCEPT ![att + 1] = IF http2 THEN "none" ELSE "start"]
  BY DEF Dial
<1>3. DOMAIN h2 = Attempts /\ DOMAIN spc = Attempts
  BY DEF ControlTypes
<1>4. \A n \in Attempts \ {att + 1} : h2'[n] = h2[n] /\ spc'[n] = spc[n]
  BY <1>2, <1>3
<1>5. h2'[att + 1] = http2 /\ spc'[att + 1] = (IF http2 THEN "none" ELSE "start")
  BY <1>1, <1>2, <1>3
<1>6. NotYet'
  <2> SUFFICES ASSUME NEW n \in Attempts, n > att + 1 PROVE ~h2'[n] /\ spc'[n] = "none"
    BY <1>1 DEF NotYet
  <2>1. n \in Nat /\ n > att /\ n # att + 1
    BY <1>1 DEF Attempts
  <2> QED
    BY <1>4, <2>1 DEF ControlInv, NotYet
<1>7. ASSUME OnlyQuic' PROVE QuicInv'
  <2>1. ~http2
    BY <1>1, <1>5, <1>7 DEF OnlyQuic
  <2>2. OnlyQuic
    <3> SUFFICES ASSUME NEW n \in 1..att PROVE ~h2[n]
      BY DEF OnlyQuic
    <3>1. n \in Attempts /\ n # att + 1 /\ n \in 1..(att + 1)
      BY <1>1 DEF Attempts
    <3> QED
      BY <1>1, <1>4, <1>7, <3>1 DEF OnlyQuic
  <2>3. control = None /\ ~connected /\ \A n \in Attempts : n <= att => ~AtWork(n)
    BY <1>1, <2>2 DEF ControlInv, QuicInv
  <2>4. ASSUME NEW n \in Attempts, n <= att + 1, n # att + 1
        PROVE  ~AtWork(n)'
    <3>1. n <= att
      BY <1>1, <2>4 DEF Attempts
    <3> QED
      BY <1>4, <2>3, <2>4, <3>1 DEF AtWork
  <2> QED
    BY <1>1, <1>5, <2>1, <2>3, <2>4 DEF QuicInv
<1> QED
  BY <1>1, <1>6, <1>7 DEF ControlInv

(* A failed attempt is over before it has a session.                       *)
LEMMA DialFailsControl ==
    ASSUME ControlTypes, ControlInv, DialFails
    PROVE  ControlInv'
<1>1. /\ att \in Nat /\ MaxAttempts \in Nat /\ att + 1 \in Attempts /\ att' = att + 1
      /\ loop = "connect" /\ loop' = "reset" /\ control' = control /\ connected' = connected
      /\ h2' = h2 /\ spc' = spc
  BY SessionAssumption DEF ControlTypes, DialFails, Attempts, sharedVars, sessVars
<1>2. NotYet'
  BY <1>1 DEF ControlInv, NotYet, Attempts
<1>3. ASSUME OnlyQuic' PROVE QuicInv'
  <2>1. OnlyQuic
    BY <1>1, <1>3 DEF OnlyQuic
  <2>2. control = None /\ ~connected /\ \A n \in Attempts : n <= att => ~AtWork(n)
    BY <1>1, <2>1 DEF ControlInv, QuicInv
  <2>3. ASSUME NEW n \in Attempts, n <= att + 1 PROVE ~AtWork(n)'
    <3>1. CASE n <= att
      BY <1>1, <2>2, <3>1 DEF AtWork
    <3>2. CASE n > att
      BY <1>1, <3>2 DEF ControlInv, NotYet, AtWork
    <3> QED
      BY <1>1, <3>1, <3>2 DEF Attempts
  <2> QED
    BY <1>1, <2>2, <2>3 DEF QuicInv
<1> QED
  BY <1>1, <1>2, <1>3 DEF ControlInv

(* The daemon ends: only over HTTP/2, and with nothing left at work.       *)
LEMMA CrashControl ==
    ASSUME ControlTypes, ControlInv, NEW n \in Attempts, PingCrashes(n)
    PROVE  ControlInv'
<1>1. /\ loop' = "crashed" /\ att' = att /\ h2' = h2 /\ control' = None /\ ~connected'
      /\ \A m \in Attempts : spc'[m] = "none"
  BY DEF PingCrashes
<1>2. NotYet'
  BY <1>1 DEF ControlInv, NotYet
<1>3. QuicInv'
  BY <1>1 DEF QuicInv, AtWork
<1> QED
  BY <1>1, <1>2, <1>3 DEF ControlInv

LEMMA LoopControl ==
    ASSUME ControlTypes, ControlInv, ServeEnds \/ Reset \/ Backoff
    PROVE  ControlInv'
<1>1. att' = att /\ h2' = h2 /\ spc' = spc /\ loop' # "serve"
  BY DEF ServeEnds, Reset, Backoff, sessVars
<1>2. ASSUME OnlyQuic PROVE QuicInv'
  <2>1. QuicInv
    BY <1>2 DEF ControlInv
  <2>2. \A n \in Attempts : n <= att => ~AtWork(n)
    <3>1. CASE ServeEnds
      <4>1. att \in Attempts /\ loop = "serve"
        BY <3>1 DEF ServeEnds, ControlInv
      <4>2. ~h2[att]
        BY <1>2, <4>1 DEF OnlyQuic, Attempts
      <4>3. spc[att] = "ended"
        BY <3>1, <4>2 DEF ServeEnds
      <4> QED
        BY <2>1, <4>3 DEF QuicInv, AtWork
    <3>2. CASE Reset \/ Backoff
      BY <2>1, <3>2 DEF QuicInv, Reset, Backoff
    <3> QED
      BY <3>1, <3>2
  <2> QED
    BY <1>1, <2>1, <2>2 DEF ServeEnds, Reset, Backoff, QuicInv, AtWork, sharedVars
<1> QED
  BY <1>1, <1>2 DEF ControlInv, NotYet, OnlyQuic

(* A step of the session of attempt n, when it is at work.                 *)
LEMMA SessionControl ==
    ASSUME ControlTypes, ControlInv, NEW n \in Attempts, Session(n)
    PROVE  ControlInv'
<1>1. AtWork(n) /\ \A m \in Attempts \ {n} : spc'[m] = spc[m]
  BY DEF Session, Start, Serving, SessionEnds, AtWork, ControlTypes
<1>2. loop' = loop /\ att' = att /\ h2' = h2 /\ att \in Nat /\ n \in Nat
  BY DEF Session, Start, Serving, SessionEnds, loopVars, ControlTypes, Attempts
<1>3. n <= att
  BY <1>1, <1>2 DEF ControlInv, NotYet, AtWork
<1>4. NotYet'
  BY <1>1, <1>2, <1>3 DEF ControlInv, NotYet
<1>5. ASSUME OnlyQuic PROVE QuicInv'
  <2>1. QuicInv /\ n = att /\ loop = "serve" /\ None # att
    BY <1>1, <1>2, <1>3, <1>5, SessionAssumption DEF ControlInv, QuicInv
  <2>2. CASE Start(n)
    <3>1. spc[n] = "start" /\ spc'[n] = "hello" /\ control' = n /\ connected' = connected
      BY <2>2 DEF Start, ControlTypes
    <3> QED
      BY <1>1, <1>2, <2>1, <3>1 DEF QuicInv, AtWork
  <2>3. CASE Serving(n)
    <3>1. spc[n] = "hello" /\ spc'[n] = "run" /\ control' = control /\ connected' = TRUE
      BY <2>3 DEF Serving, ControlTypes
    <3> QED
      BY <1>1, <1>2, <2>1, <3>1 DEF QuicInv, AtWork
  <2>4. CASE SessionEnds(n)
    <3>1. spc'[n] = "ended" /\ control' = control /\ connected' = connected
      BY <2>4 DEF SessionEnds, ControlTypes, sharedVars
    <3> QED
      BY <1>1, <1>2, <2>1, <3>1 DEF QuicInv, AtWork
  <2> QED
    BY <2>2, <2>3, <2>4 DEF Session
<1> QED
  BY <1>2, <1>4, <1>5 DEF ControlInv, OnlyQuic

(* The gateway opens the control stream of an HTTP/2 connection.           *)
LEMMA OnControlControl ==
    ASSUME ControlTypes, ControlInv, NEW n \in Attempts, OnControl(n)
    PROVE  ControlInv'
<1>1. /\ loop' = loop /\ att' = att /\ h2' = h2 /\ att \in Nat /\ n \in Nat /\ n >= 1 /\ h2[n]
      /\ \A m \in Attempts \ {n} : spc'[m] = spc[m]
  BY DEF OnControl, loopVars, ControlTypes, Attempts
<1>2. n <= att
  BY <1>1 DEF ControlInv, NotYet
<1>3. ~OnlyQuic'
  BY <1>1, <1>2 DEF OnlyQuic
<1>4. NotYet'
  BY <1>1, <1>2 DEF ControlInv, NotYet
<1> QED
  BY <1>1, <1>3, <1>4 DEF ControlInv

LEMMA ControlInvStep ==
    ASSUME ControlTypes, ControlInv, [Next]_vars
    PROVE  ControlInv'
<1>1. CASE Loop
  BY <1>1, DialControl, DialFailsControl, LoopControl DEF Loop
<1>2. ASSUME NEW n \in Attempts, OnControl(n) \/ Session(n) PROVE ControlInv'
  BY <1>2, OnControlControl, SessionControl
<1>3. ASSUME NEW n \in Attempts, Reader(n) \/ Keepalive(n) PROVE ControlInv'
  <2>1. CASE PingCrashes(n)
    BY <2>1, CrashControl
  <2>2. CASE ~PingCrashes(n)
    <3>1. ControlUnchanged
      BY <1>3, <2>2 DEF Reader, Dispatch, ReaderFails, Keepalive, PingStarts, PingAnswered, PingTimesOut,
                  KeepaliveEnds, KeepaliveReturns, ControlUnchanged, loopVars, sessVars, sharedVars
    <3> QED
      BY <3>1, ControlKept
  <2> QED
    BY <2>1, <2>2
<1>4. ASSUME NEW n \in Attempts, Gateway(n) \/ Breaks(n) PROVE ControlInv'
  <2>1. ControlUnchanged
    BY <1>4 DEF Gateway, GatewayAnswers, GatewayErrs, GatewayCloses, Breaks, ControlUnchanged,
                loopVars, sessVars, sharedVars
  <2> QED
    BY <2>1, ControlKept
<1>5. ASSUME NEW c \in Callers, Caller(c) PROVE ControlInv'
  <2>1. ControlUnchanged
    BY <1>5 DEF Caller, ApiAsks, ApiReturns, ControlUnchanged, loopVars, sessVars, sharedVars
  <2> QED
    BY <2>1, ControlKept
<1>6. CASE UNCHANGED vars
  BY <1>6, ControlKept DEF vars, loopVars, sessVars, sharedVars, ControlUnchanged
<1> QED
  BY <1>1, <1>2, <1>3, <1>4, <1>5, <1>6 DEF Next

LEMMA InitControl == Init => ControlInv
BY DEF Init, ControlInv, NotYet, OnlyQuic, QuicInv, AtWork, Attempts

(* As long as all connections are QUIC, d.control is the stream of the     *)
(* session being served, and between two sessions there is none; the flag  *)
(* that the local API looks at agrees with it.                             *)
THEOREM ControlFollowsSession == Spec => []ControlIsCurrent
<1>1. SessInv => ControlTypes
  BY DEF SessInv
<1>2. ControlTypes /\ ControlInv /\ [Next]_vars => ControlInv'
  BY ControlInvStep
<1>3. ControlInv => ControlIsCurrent
  BY DEF ControlInv, QuicInv, ControlIsCurrent
<1> QED
  BY <1>1, <1>2, <1>3, InitControl, SessionInvariant, PTL DEF Spec
=============================================================================
