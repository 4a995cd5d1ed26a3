--------------------------- MODULE DaemonSession ---------------------------
(***************************************************************************)
(* client/daemon.go: the connection loop, the control session of each      *)
(* attempt, its reader, its keepalive, and the calls that wait for an      *)
(* answer on the control stream (requestOpen, closeTunnel, ping, hello).   *)
(*                                                                         *)
(* Over QUIC the session runs in the loop's goroutine under a context that *)
(* ends with it.  Over HTTP/2 it runs in the goroutine of the request that *)
(* the gateway opens, under the loop's own context: it may still be at     *)
(* work when the loop has gone on to the next attempt.                     *)
(*                                                                         *)
(* The gateway answers messages in order, or fails to (an Error with       *)
(* sequence number 0).  Writes do not block.  A caller that gives up       *)
(* leaves its entry in d.pending; nobody reads that channel, so the model  *)
(* keeps an entry for as long as somebody waits.                           *)
(***************************************************************************)
EXTENDS Naturals, Sequences

CONSTANTS MaxAttempts,  \* bound on connections made
          MaxSeq,       \* bound on pings: none once so many numbers are drawn
          Callers,      \* requests of the local API, each made once
          Closers,      \* those that are closeTunnel; the others are requestOpen
          None

ASSUME SessionAssumption == /\ MaxAttempts \in Nat /\ MaxSeq \in Nat
                            /\ Closers \subseteq Callers /\ None \notin Nat

Attempts == 1..MaxAttempts
Hello(n) == <<"hello", n>>
Ping(n) == <<"ping", n>>
Api(c) == <<"api", c>>
Waiters == {Hello(n) : n \in Attempts} \cup {Ping(n) : n \in Attempts} \cup {Api(c) : c \in Callers}

VARIABLES loop,      \* where loop is: "connect", "serve", "reset" or "backoff"; or "crashed"
          att,       \* number of the current attempt
          h2,        \* h2[n]: attempt n uses HTTP/2
          alive,     \* alive[n]: its connection is open
          closed,    \* closed[n]: the daemon has closed its control stream
          spc,       \* spc[n]: where session is
          reader,    \* reader[n]: "off", "on" or "failed" (readErr holds the error)
          ka,        \* ka[n]: where keepalive is
          control,   \* d.control: the attempt whose stream it is, or None
          connected, \* d.connected
          seq,       \* d.seq
          call,      \* call[w]: the call w is in, with its entry of d.pending
          toGw,      \* toGw[n]: control messages to the gateway
          fromGw     \* fromGw[n]: its answers

loopVars == <<loop, att, h2>>
connVars == <<alive, closed>>
sessVars == <<spc, reader, ka>>
sharedVars == <<control, connected>>
callVars == <<seq, call>>
netVars == <<toGw, fromGw>>
vars == <<loopVars, connVars, sessVars, sharedVars, callVars, netVars>>

(* got: the answer in the buffered channel.  An answer carries a sequence  *)
(* number; whose request it answers ("of") is history.                     *)
NoCall == [pc |-> "idle", seq |-> 0, on |-> None, got |-> None]

Init == /\ loop = "connect" /\ att = 0
        /\ h2 = [n \in Attempts |-> FALSE]
        /\ alive = [n \in Attempts |-> FALSE]
        /\ closed = [n \in Attempts |-> FALSE]
        /\ spc = [n \in Attempts |-> "none"]
        /\ reader = [n \in Attempts |-> "off"]
        /\ ka = [n \in Attempts |-> "none"]
        /\ control = None /\ connected = FALSE
        /\ seq = 0
        /\ call = [w \in Waiters |-> NoCall]
        /\ toGw = [n \in Attempts |-> <<>>]
        /\ fromGw = [n \in Attempts |-> <<>>]

-----------------------------------------------------------------------------
(* Connections and calls.                                                  *)

(* The connection is gone, and with it what the gateway has not read; the  *)
(* end of a QUIC connection also discards what the daemon has not read.    *)
Down(n) == /\ alive' = [alive EXCEPT ![n] = FALSE]
           /\ toGw' = [toGw EXCEPT ![n] = <<>>]
           /\ fromGw' = [fromGw EXCEPT ![n] = IF h2[n] THEN @ ELSE <<>>]

(* Close shuts a QUIC stream to writers.  Of an HTTP/2 one it closes the   *)
(* request body only: it can be written to until the handler, and with it  *)
(* the session, has returned.                                              *)
Writable(n) == alive[n] /\ (IF h2[n] THEN spc[n] # "ended" ELSE ~closed[n])
Put(n, w) == toGw' = [toGw EXCEPT ![n] = Append(@, [seq |-> seq', of |-> w])]

(* expect: draw a number and enter a channel under it.                     *)
Expect(w, n, pc) ==
    /\ seq' = seq + 1
    /\ call' = [call EXCEPT ![w] = [pc |-> pc, seq |-> seq + 1, on |-> n, got |-> None]]

(* expect, then writeControl to the control stream n.  The two are one     *)
(* step: a write that comes later finds the stream open or closed too.     *)
ExpectAndWrite(w, n) ==
    \/ Writable(n) /\ Expect(w, n, "wait") /\ Put(n, w)
    \/ ~Writable(n) /\ Expect(w, n, "unsent") /\ UNCHANGED toGw

Waits(w) == call[w].pc = "wait"
Answered(w) == Waits(w) /\ call[w].got # None

-----------------------------------------------------------------------------
(* loop and connect.                                                       *)

(* No credentials, no connection, or no control stream on it.              *)
DialFails ==
    /\ loop = "connect" /\ att < MaxAttempts
    /\ loop' = "reset" /\ att' = att + 1
    /\ UNCHANGED <<h2, connVars, sessVars, sharedVars, callVars, netVars>>

(* A dialled connection: session is called at once over QUIC, and when the *)
(* gateway opens the control request over HTTP/2.                          *)
Dial ==
    /\ loop = "connect" /\ att < MaxAttempts
    /\ loop' = "serve" /\ att' = att + 1
    /\ alive' = [alive EXCEPT ![att + 1] = TRUE]
    /\ \E http2 \in BOOLEAN :
        /\ h2' = [h2 EXCEPT ![att + 1] = http2]
        /\ spc' = [spc EXCEPT ![att + 1] = IF http2 THEN "none" ELSE "start"]
    /\ UNCHANGED <<closed, reader, ka, sharedVars, callVars, netVars>>

OnControl(n) ==
    /\ h2[n] /\ alive[n] /\ spc[n] = "none"
    /\ spc' = [spc EXCEPT ![n] = "start"]
    /\ UNCHANGED <<loopVars, connVars, reader, ka, sharedVars, callVars, netVars>>

(* serveQUIC returns with the session, serveH2 with the session or with    *)
(* the connection; both close the connection.                              *)
ServeEnds ==
    /\ loop = "serve"
    /\ spc[att] = "ended" \/ (h2[att] /\ ~alive[att])
    /\ loop' = "reset"
    /\ Down(att)
    /\ UNCHANGED <<att, h2, closed, sessVars, sharedVars, callVars>>

\* Mutant: connect's error ends the loop's iteration before the reset.
ResetForgotten ==
    /\ loop = "reset"
    /\ loop' = "backoff"
    /\ UNCHANGED <<att, h2, connVars, sessVars, sharedVars, callVars, netVars>>

\* Mutant: the numbers start anew with the connection.
ResetRenumbers ==
    /\ loop = "reset"
    /\ connected' = FALSE /\ control' = None /\ seq' = 0
    /\ loop' = "backoff"
    /\ UNCHANGED <<att, h2, connVars, sessVars, call, netVars>>

Reset ==
    /\ loop = "reset"
    /\ connected' = FALSE /\ control' = None
    /\ loop' = "backoff"
    /\ UNCHANGED <<att, h2, connVars, sessVars, callVars, netVars>>

Backoff ==
    /\ loop = "backoff"
    /\ loop' = "connect"
    /\ UNCHANGED <<att, h2, connVars, sessVars, sharedVars, callVars, netVars>>

Loop == DialFails \/ Dial \/ ServeEnds \/ Reset \/ Backoff

-----------------------------------------------------------------------------
(* session and its reader.                                                 *)

(* The stream becomes d.control, the reader starts, the hello is written   *)
(* (to the session's own stream: nothing can come in between).             *)
Start(n) ==
    /\ spc[n] = "start"
    /\ spc' = [spc EXCEPT ![n] = "hello"]
    /\ reader' = [reader EXCEPT ![n] = "on"]
    /\ control' = n
    /\ ExpectAndWrite(Hello(n), n)
    /\ UNCHANGED <<loopVars, connVars, ka, connected, fromGw>>

(* The hello is acknowledged: from here the daemon serves.                 *)
Serving(n) ==
    /\ spc[n] = "hello" /\ Answered(Hello(n))
    /\ spc' = [spc EXCEPT ![n] = "run"]
    /\ call' = [call EXCEPT ![Hello(n)] = NoCall]
    /\ connected' = TRUE
    /\ ka' = [ka EXCEPT ![n] = "first"]
    /\ UNCHANGED <<loopVars, connVars, reader, control, seq, netVars>>

\* Mutant: the session's context is the loop's over QUIC too.
CancelledNever(n) == FALSE

(* A QUIC session's context is cancelled when AcceptStream fails.          *)
Cancelled(n) == ~h2[n] /\ ~alive[n]

(* Hello not written, not answered in time, or answered with an error; or  *)
(* the reader has failed.  The deferred Close closes the control stream.   *)
SessionEnds(n) ==
    /\ spc[n] = "hello" \/ (spc[n] = "run" /\ (reader[n] = "failed" \/ Cancelled(n)))
    /\ spc' = [spc EXCEPT ![n] = "ended"]
    /\ closed' = [closed EXCEPT ![n] = TRUE]
    /\ call' = [call EXCEPT ![Hello(n)] = NoCall]
    /\ UNCHANGED <<loopVars, alive, reader, ka, sharedVars, seq, netVars>>

\* Mutant: an answer goes to whoever waits on its stream.
DispatchByStream(n) ==
    /\ reader[n] = "on" /\ fromGw[n] # <<>>
    /\ LET hit == {w \in Waiters : Waits(w) /\ call[w].on = n /\ call[w].got = None}
       IN call' = [w \in Waiters |-> IF w \in hit THEN [call[w] EXCEPT !.got = Head(fromGw[n]).of] ELSE call[w]]
    /\ fromGw' = [fromGw EXCEPT ![n] = Tail(@)]
    /\ UNCHANGED <<loopVars, connVars, sessVars, sharedVars, seq, toGw>>

(* dispatch: take the channel out of pending and send to it; an answer     *)
(* nobody waits for is dropped.                                            *)
Dispatch(n) ==
    /\ reader[n] = "on" /\ fromGw[n] # <<>>
    /\ LET m == Head(fromGw[n])
           hit == {w \in Waiters : call[w].pc # "idle" /\ call[w].seq = m.seq /\ call[w].got = None}
       IN call' = [w \in Waiters |-> IF w \in hit THEN [call[w] EXCEPT !.got = m.of] ELSE call[w]]
    /\ fromGw' = [fromGw EXCEPT ![n] = Tail(@)]
    /\ UNCHANGED <<loopVars, connVars, sessVars, sharedVars, seq, toGw>>

(* Closing the stream of an HTTP/2 request ends its body too; closing a    *)
(* QUIC stream ends its sending side only.                                 *)
ReaderFails(n) ==
    /\ reader[n] = "on"
    /\ ~alive[n] \/ (h2[n] /\ closed[n])
    /\ reader' = [reader EXCEPT ![n] = "failed"]
    /\ fromGw' = [fromGw EXCEPT ![n] = <<>>]
    /\ UNCHANGED <<loopVars, connVars, spc, ka, sharedVars, callVars, toGw>>

Session(n) == Start(n) \/ Serving(n) \/ SessionEnds(n)
Reader(n) == Dispatch(n) \/ ReaderFails(n)

-----------------------------------------------------------------------------
(* keepalive.  A ping is written to whatever d.control is by then.         *)

PingDue(n) == ka[n] \in {"first", "tick"} /\ call[Ping(n)].pc = "idle" /\ control # None

(* Writing to the response of an HTTP/2 handler that has returned panics.  *)
Panics(n) == h2[n] /\ spc[n] = "ended"

PingStarts(n) ==
    /\ PingDue(n) /\ ~Panics(control) /\ seq < MaxSeq
    /\ ExpectAndWrite(Ping(n), control)
    /\ UNCHANGED <<loopVars, connVars, sessVars, sharedVars, fromGw>>

(* Nothing recovers a panic of the keepalive's goroutine: the daemon ends. *)
PingCrashes(n) ==
    /\ PingDue(n) /\ Panics(control)
    /\ loop' = "crashed"
    /\ alive' = [m \in Attempts |-> FALSE] /\ spc' = [m \in Attempts |-> "none"]
    /\ reader' = [m \in Attempts |-> "off"] /\ ka' = [m \in Attempts |-> "none"]
    /\ control' = None /\ connected' = FALSE
    /\ call' = [w \in Waiters |-> NoCall]
    /\ toGw' = [m \in Attempts |-> <<>>] /\ fromGw' = [m \in Attempts |-> <<>>]
    /\ UNCHANGED <<att, h2, closed, seq>>

PingAnswered(n) ==
    /\ Answered(Ping(n))
    /\ call' = [call EXCEPT ![Ping(n)] = NoCall]
    /\ ka' = [ka EXCEPT ![n] = "tick"]
    /\ UNCHANGED <<loopVars, connVars, spc, reader, sharedVars, seq, netVars>>

(* The keepalive returns; a first ping that failed closes the session's    *)
(* own stream.                                                             *)
KeepaliveReturns(n, streams) ==
    /\ closed' = [m \in Attempts |-> closed[m] \/ m \in streams \/ (m = n /\ ka[n] = "first")]
    /\ call' = [call EXCEPT ![Ping(n)] = NoCall]
    /\ ka' = [ka EXCEPT ![n] = "ended"]
    /\ UNCHANGED <<loopVars, alive, spc, reader, sharedVars, seq, netVars>>

\* Mutant: after a timeout only the keepalive gives up.
PingTimesOutQuietly(n) == Waits(Ping(n)) /\ ~Cancelled(n) /\ KeepaliveReturns(n, {})

(* After 5 s: close the stream that the ping was written to.               *)
PingTimesOut(n) == Waits(Ping(n)) /\ ~Cancelled(n) /\ KeepaliveReturns(n, {call[Ping(n)].on})

(* No control stream, a write that failed, or the context was cancelled.   *)
KeepaliveEnds(n) ==
    /\ ka[n] \in {"first", "tick"}
    /\ \/ Cancelled(n)
       \/ call[Ping(n)].pc = "unsent"
       \/ call[Ping(n)].pc = "idle" /\ control = None
    /\ KeepaliveReturns(n, {})

Keepalive(n) == PingStarts(n) \/ PingCrashes(n) \/ PingAnswered(n) \/ PingTimesOut(n) \/ KeepaliveEnds(n)

-----------------------------------------------------------------------------
(* Requests of the local API: requestOpen, which asks for d.connected too, *)
(* and closeTunnel, which does not.  net/http recovers a handler's panic:  *)
(* the request ends as if its write had failed.                            *)

ApiAsks(c) ==
    /\ call[Api(c)] = NoCall /\ control # None
    /\ connected \/ c \in Closers
    /\ ExpectAndWrite(Api(c), control)
    /\ UNCHANGED <<loopVars, connVars, sessVars, sharedVars, fromGw>>

(* Not written, answered, or 10 s (8 s) later.                             *)
ApiReturns(c) ==
    /\ call[Api(c)].pc \in {"wait", "unsent"}
    /\ call' = [call EXCEPT ![Api(c)] = [NoCall EXCEPT !.pc = "returned"]]
    /\ UNCHANGED <<loopVars, connVars, sessVars, sharedVars, seq, netVars>>

Caller(c) == ApiAsks(c) \/ ApiReturns(c)

-----------------------------------------------------------------------------
(* The gateway's side of the control stream, and the network.              *)

GatewayAnswers(n) ==
    /\ alive[n] /\ toGw[n] # <<>>
    /\ toGw' = [toGw EXCEPT ![n] = Tail(@)]
    /\ fromGw' = [fromGw EXCEPT ![n] = Append(@, Head(toGw[n]))]
    /\ UNCHANGED <<loopVars, connVars, sessVars, sharedVars, callVars>>

(* handleControl returned an error: the answer has sequence number 0 and   *)
(* dispatch gives it to nobody.                                            *)
GatewayErrs(n) ==
    /\ alive[n] /\ toGw[n] # <<>>
    /\ toGw' = [toGw EXCEPT ![n] = Tail(@)]
    /\ UNCHANGED <<loopVars, connVars, sessVars, sharedVars, callVars, fromGw>>

(* serveSession reads the end of the stream and closes the connection: a   *)
(* QUIC stream ends when it is closed, an HTTP/2 response with its handler. *)
GatewayCloses(n) ==
    /\ alive[n] /\ toGw[n] = <<>>
    /\ IF h2[n] THEN spc[n] = "ended" ELSE closed[n]
    /\ Down(n)
    /\ UNCHANGED <<loopVars, closed, sessVars, sharedVars, callVars>>

Gateway(n) == GatewayAnswers(n) \/ GatewayErrs(n) \/ GatewayCloses(n)

Breaks(n) ==
    /\ alive[n]
    /\ Down(n)
    /\ UNCHANGED <<loopVars, closed, sessVars, sharedVars, callVars>>

Next == \/ Loop
        \/ \E n \in Attempts : \/ OnControl(n) \/ Session(n) \/ Reader(n) \/ Keepalive(n)
                               \/ Gateway(n) \/ Breaks(n)
        \/ \E c \in Callers : Caller(c)

Spec == Init /\ [][Next]_vars

(* The daemon's goroutines are scheduled and its timers fire; a gateway    *)
(* reads the control stream and acts on its end.  Nothing is assumed of    *)
(* the network, of the local API's clients, or of answers.                 *)
FairSpec ==
    /\ Spec
    /\ WF_vars(Loop)
    /\ \A n \in Attempts :
        WF_vars(Session(n)) /\ WF_vars(Reader(n)) /\ WF_vars(Keepalive(n)) /\ WF_vars(Gateway(n))

-----------------------------------------------------------------------------

Call == [pc : {"idle", "unsent", "wait", "returned"}, seq : Nat,
         on : Attempts \cup {None}, got : Waiters \cup {None}]
Envelope == [seq : Nat, of : Waiters]

(* Types; the numbers in use are numbers drawn.                            *)
SessionTypeOK ==
    /\ loop \in {"connect", "serve", "reset", "backoff", "crashed"} /\ att \in 0..MaxAttempts
    /\ h2 \in [Attempts -> BOOLEAN] /\ alive \in [Attempts -> BOOLEAN] /\ closed \in [Attempts -> BOOLEAN]
    /\ spc \in [Attempts -> {"none", "start", "hello", "run", "ended"}]
    /\ reader \in [Attempts -> {"off", "on", "failed"}]
    /\ ka \in [Attempts -> {"none", "first", "tick", "ended"}]
    /\ control \in Attempts \cup {None} /\ connected \in BOOLEAN
    /\ seq \in Nat /\ call \in [Waiters -> Call]
    /\ \A w \in Waiters : call[w].seq \in 0..seq
    /\ toGw \in [Attempts -> Seq(Envelope)] /\ fromGw \in [Attempts -> Seq(Envelope)]

(* A call is only ever given the answer to its own request, with calls of  *)
(* several connections waiting, timing out and answers coming late.        *)
AnswerIsOwn == \A w \in Waiters : call[w].got \in {None, w}

(* Between its hello and its end a session is what the daemon's requests   *)
(* go to, and after it nothing is, if all connections so far were QUIC.    *)
OnlyQuic == \A n \in 1..att : ~h2[n]
ControlIsCurrent ==
    OnlyQuic => /\ control \in {None, att}
                /\ connected => control # None
                /\ loop = "serve" /\ spc[att] = "run" => connected /\ control = att
                /\ loop \in {"backoff", "connect"} => control = None /\ ~connected

(* A keepalive that has not ended belongs to the session being served:     *)
(* reconnecting over QUIC leaves none behind for good.                     *)
Gone(n) == att > n \/ (att = n /\ loop # "serve")
KeepalivesEnd == \A n \in Attempts : (Gone(n) /\ ~h2[n]) ~> (ka[n] \in {"none", "ended"})

(* A connection that breaks takes the loop to its next attempt, over       *)
(* either transport, whatever earlier HTTP/2 sessions still do to          *)
(* d.control; and so does a keepalive that has given up, if all            *)
(* connections so far were QUIC.  Or the daemon has crashed.               *)
Reconnects ==
    \A n \in Attempts :
        (att = n /\ (~alive[n] \/ (OnlyQuic /\ ka[n] = "ended"))) ~> (att > n \/ loop \in {"connect", "crashed"})

(* "Keepalive periodique sur le controle" (docs/architecture.md:94), for   *)
(* "RTT + liveness" (:169): a session whose keepalive has given up ends.   *)
UnwatchedEnds == \A n \in Attempts : (ka[n] = "ended") ~> (spc[n] # "run")
=============================================================================
