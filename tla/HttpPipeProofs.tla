--------------------------- MODULE HttpPipeProofs ---------------------------
(***************************************************************************)
(* Proofs about HttpPipe: its types, for bodies of any length and hops of  *)
(* any size.                                                               *)
(*                                                                         *)
(* Two parts of PipeTypeOK are not inductive: the daemon never writes more *)
(* of the body to the origin than the gateway has written to the stream,   *)
(* and the origin reads no more than the visitor has sent.  Both follow    *)
(* from what is on the wire: chunks move between hops and are lost, and    *)
(* none is made up (Conserved, Ordered).                                   *)
(***************************************************************************)
EXTENDS HttpPipe, TLAPS

Chunks == {"head", "data", "last"} \cup Modes

(* Types; both handlers' copies run while they wait for them.              *)
Types ==
    /\ transport \in Transports /\ body \in 0..MaxBody
    /\ visitor \in {"there", "left"} /\ visSent \in 0..(body + MaxData)
    /\ gateway \in {"write", "read", "copy", "both", "done"} /\ gatSent \in 0..body
    /\ daemon \in {"read", "dial", "write", "both", "done"} /\ daeSent \in 0..body
    /\ gatCopy \subseteq {"toVisitor", "toStream"} /\ (gatCopy # {} => gateway = "both")
    /\ daeCopy \subseteq {"toOrigin", "toStream"} /\ (daeCopy # {} => daemon = "both")
    /\ origin \in {"idle", "answering", "answered", "closed"} /\ mode \in Modes
    /\ orgRead \in Nat /\ orgSent \in 0..MaxData
    /\ wire \in [Hops -> Seq(Chunks)]
    /\ fin \subseteq Hops /\ gone \subseteq Hops

(* The head of the request while the daemon holds it.                      *)
Held == IF daemon = "dial" THEN 1 ELSE 0

(* What is on its way to the origin, or was read by it, the visitor has    *)
(* sent, the head apart.                                                   *)
OnVG == Len(wire["VG"])
OnGD == Len(wire["GD"])
OnDO == Len(wire["DO"])
Conserved == OnVG + OnGD + Held + OnDO + orgRead <= visSent + 1

(* While the gateway writes the body, or has failed to, the stream carries *)
(* what the daemon has not written of it; the head comes first.            *)
HeadRead == IF daemon = "read" THEN 0 ELSE 1
Ordered ==
    /\ gateway \in {"read", "copy", "both"} => gatSent = body
    /\ daemon = "read" => daeSent = 0
    /\ daeSent <= gatSent
    /\ daemon = "done" \/ gatSent = body
       \/ OnGD + daeSent + HeadRead <= gatSent + 1

PipeInv == Types /\ Conserved /\ Ordered

(* What appending a chunk and taking the first one do to a hop.            *)
LEMMA SeqFacts ==
    ASSUME NEW S, NEW s \in Seq(S)
    PROVE  /\ Len(s) \in Nat
           /\ \A c \in S : Append(s, c) \in Seq(S) /\ Len(Append(s, c)) = Len(s) + 1
           /\ s # <<>> => /\ Tail(s) \in Seq(S) /\ Len(Tail(s)) = Len(s) - 1
                          /\ Head(s) \in S /\ Len(s) >= 1
  OBVIOUS

(* Put: one hop has a chunk more.                                          *)
LEMMA PutEffect ==
    ASSUME Types, NEW h \in Hops, NEW c \in Chunks, Put(h, c)
    PROVE  /\ wire' \in [Hops -> Seq(Chunks)]
           /\ Len(wire'[h]) = Len(wire[h]) + 1
           /\ \A k \in Hops \ {h} : wire'[k] = wire[k]
<1>1. wire \in [Hops -> Seq(Chunks)]
  BY DEF Types
<1>2. Append(wire[h], c) \in Seq(Chunks) /\ Len(Append(wire[h], c)) = Len(wire[h]) + 1
  BY <1>1, SeqFacts
<1> QED
  BY <1>1, <1>2 DEF Put

(* Takes: one hop has a chunk less. *)
LEMMA TakesEffect ==
    ASSUME Types, NEW h \in Hops, Takes(h)
    PROVE  /\ wire' \in [Hops -> Seq(Chunks)]
           /\ Len(wire'[h]) = Len(wire[h]) - 1 /\ Len(wire[h]) >= 1 /\ Len(wire[h]) \in Nat
           /\ \A k \in Hops \ {h} : wire'[k] = wire[k]
<1>1. wire \in [Hops -> Seq(Chunks)]
  BY DEF Types
<1>2. /\ Tail(wire[h]) \in Seq(Chunks) /\ Len(Tail(wire[h])) = Len(wire[h]) - 1
      /\ Len(wire[h]) >= 1 /\ Len(wire[h]) \in Nat
  BY <1>1, SeqFacts DEF Takes
<1> QED
  BY <1>1, <1>2 DEF Takes

(* Moves: a chunk goes from one hop to another. *)
LEMMA MovesEffect ==
    ASSUME Types, NEW h \in Hops, NEW k \in Hops, h # k, Moves(h, k)
    PROVE  /\ wire' \in [Hops -> Seq(Chunks)]
           /\ Len(wire'[h]) = Len(wire[h]) - 1 /\ Len(wire[h]) >= 1 /\ Len(wire[h]) \in Nat
           /\ Len(wire'[k]) = Len(wire[k]) + 1
           /\ \A i \in Hops \ {h, k} : wire'[i] = wire[i]
<1>1. wire \in [Hops -> Seq(Chunks)]
  BY DEF Types
<1>2. /\ Tail(wire[h]) \in Seq(Chunks) /\ Len(Tail(wire[h])) = Len(wire[h]) - 1
      /\ Len(wire[h]) >= 1 /\ Len(wire[h]) \in Nat /\ Head(wire[h]) \in Chunks
  BY <1>1, SeqFacts DEF Moves
<1>3. Append(wire[k], Head(wire[h])) \in Seq(Chunks) /\ Len(Append(wire[k], Head(wire[h]))) = Len(wire[k]) + 1
  BY <1>1, <1>2, SeqFacts
<1> QED
  BY <1>1, <1>2, <1>3 DEF Moves

(* The lengths of the hops are numbers. *)
LEMMA Lengths ==
    ASSUME Types
    PROVE  \A h \in Hops : Len(wire[h]) \in Nat
<1>1. \A h \in Hops : wire[h] \in Seq(Chunks)
  BY DEF Types
<1> QED
  BY <1>1, SeqFacts

(* The hops to the origin after each move of the two handlers, and after   *)
(* the moves on the way back, which leave them alone.                      *)
LEMMA Flows ==
    ASSUME Types
    PROVE  /\ Moves("VG", "GD") => /\ wire' \in [Hops -> Seq(Chunks)]
                                   /\ OnVG' = OnVG - 1 /\ OnVG >= 1
                                   /\ OnGD' = OnGD + 1 /\ OnDO' = OnDO
           /\ Moves("GD", "DO") => /\ wire' \in [Hops -> Seq(Chunks)]
                                   /\ OnGD' = OnGD - 1 /\ OnGD >= 1
                                   /\ OnDO' = OnDO + 1 /\ OnVG' = OnVG
           /\ (Moves("DG", "GV") \/ Moves("OD", "DG") \/ Takes("GV") \/ Takes("DG")
               \/ \E c \in Chunks : Put("OD", c))
              => /\ wire' \in [Hops -> Seq(Chunks)]
                 /\ OnVG' = OnVG /\ OnGD' = OnGD /\ OnDO' = OnDO
<1> DEFINE Back == /\ wire' \in [Hops -> Seq(Chunks)]
                   /\ wire'["VG"] = wire["VG"] /\ wire'["GD"] = wire["GD"] /\ wire'["DO"] = wire["DO"]
<1>0. /\ "VG" \in Hops /\ "GD" \in Hops /\ "DO" \in Hops
      /\ "OD" \in Hops /\ "DG" \in Hops /\ "GV" \in Hops
  BY DEF Hops
<1>1. ASSUME Moves("VG", "GD")
      PROVE  /\ wire' \in [Hops -> Seq(Chunks)]
             /\ Len(wire'["VG"]) = Len(wire["VG"]) - 1 /\ Len(wire["VG"]) >= 1
             /\ Len(wire'["GD"]) = Len(wire["GD"]) + 1 /\ wire'["DO"] = wire["DO"]
  <2>1. "VG" # "GD" /\ "DO" \in Hops \ {"VG", "GD"}
    BY <1>0
  <2> QED
    BY <1>0, <1>1, <2>1, MovesEffect
<1>2. ASSUME Moves("GD", "DO")
      PROVE  /\ wire' \in [Hops -> Seq(Chunks)]
             /\ Len(wire'["GD"]) = Len(wire["GD"]) - 1 /\ Len(wire["GD"]) >= 1
             /\ Len(wire'["DO"]) = Len(wire["DO"]) + 1 /\ wire'["VG"] = wire["VG"]
  <2>1. "GD" # "DO" /\ "VG" \in Hops \ {"GD", "DO"}
    BY <1>0
  <2> QED
    BY <1>0, <1>2, <2>1, MovesEffect
<1>3. ASSUME Moves("DG", "GV")
      PROVE  Back
  <2>1. "DG" # "GV" /\ \A h \in {"VG", "GD", "DO"} : h \in Hops \ {"DG", "GV"}
    BY <1>0
  <2> QED
    BY <1>0, <1>3, <2>1, MovesEffect
<1>4. ASSUME Moves("OD", "DG")
      PROVE  Back
  <2>1. "OD" # "DG" /\ \A h \in {"VG", "GD", "DO"} : h \in Hops \ {"OD", "DG"}
    BY <1>0
  <2> QED
    BY <1>0, <1>4, <2>1, MovesEffect
<1>5. ASSUME NEW h \in {"GV", "DG"}, Takes(h)
      PROVE  Back
  <2>1. h \in Hops /\ \A k \in {"VG", "GD", "DO"} : k \in Hops \ {h}
    BY <1>0
  <2> QED
    BY <1>5, <2>1, TakesEffect
<1>6. ASSUME NEW c \in Chunks, Put("OD", c)
      PROVE  Back
  <2>1. \A k \in {"VG", "GD", "DO"} : k \in Hops \ {"OD"}
    BY <1>0
  <2> QED
    BY <1>0, <1>6, <2>1, PutEffect
<1> QED
  BY <1>1, <1>2, <1>3, <1>4, <1>5, <1>6 DEF OnVG, OnGD, OnDO

(* Every step of the visitor, of the two handlers and of the origin keeps  *)
(* the invariant.                                                          *)
LEMMA PipeStep ==
    ASSUME PipeInv, [Next]_vars
    PROVE  PipeInv'
<1> USE PipeAssumption DEF PipeInv
<1> USE DEF given, visVars, gatVars, daeVars, orgVars, endVars
<1>0. /\ {"VG", "GD", "DO", "OD", "DG", "GV"} = Hops
      /\ {"head", "data", "last", "sized", "closed", "upgrade"} = Chunks
      /\ OnVG \in Nat /\ OnGD \in Nat /\ OnDO \in Nat
  BY Lengths DEF Hops, Chunks, Modes, OnVG, OnGD, OnDO
<1>1. CASE VisitorSends
  <2>0. /\ wire' \in [Hops -> Seq(Chunks)]
        /\ OnVG' = OnVG + 1
        /\ OnGD' = OnGD /\ OnDO' = OnDO
    BY <1>0, <1>1, PutEffect DEF VisitorSends, OnVG, OnGD, OnDO
  <2>1. Types'
    BY <1>0, <1>1, <2>0 DEF VisitorSends, Types
  <2>2. Conserved'
    BY <1>0, <1>1, <2>0, <2>1 DEF VisitorSends, Types, Conserved, Held
  <2>3. Ordered'
    BY <1>0, <1>1, <2>0 DEF VisitorSends, Types, Ordered, HeadRead
  <2> QED
    BY <2>1, <2>2, <2>3
<1>2. CASE VisitorReads
  <2>0. /\ wire' \in [Hops -> Seq(Chunks)]
        /\ OnVG' = OnVG /\ OnGD' = OnGD /\ OnDO' = OnDO
    BY <1>2, Flows DEF VisitorReads
  <2>1. Types'
    BY <1>0, <2>0, <1>2 DEF VisitorReads, Types
  <2>2. Conserved'
    BY <1>0, <2>0, <1>2 DEF VisitorReads, Types, Conserved, Held
  <2>3. Ordered'
    BY <1>0, <2>0, <1>2 DEF VisitorReads, Types, Ordered, HeadRead
  <2> QED
    BY <2>1, <2>2, <2>3
<1>3. CASE VisitorLeaves \/ VisitorSeesEnd
  <2>0. wire' = wire => OnVG' = OnVG /\ OnGD' = OnGD /\ OnDO' = OnDO
    BY DEF OnVG, OnGD, OnDO
  <2>1. Types'
    BY <1>0, <1>3 DEF VisitorLeaves, VisitorSeesEnd, Types
  <2>2. Conserved'
    BY <1>0, <2>0, <1>3 DEF VisitorLeaves, VisitorSeesEnd, Types, Conserved, Held
  <2>3. Ordered'
    BY <1>0, <2>0, <1>3 DEF VisitorLeaves, VisitorSeesEnd, Types, Ordered, HeadRead
  <2> QED
    BY <2>1, <2>2, <2>3
<1>4. CASE GatewayWrites
  <2>0. /\ wire' \in [Hops -> Seq(Chunks)]
        /\ OnVG' = OnVG - 1 /\ OnVG >= 1
        /\ OnGD' = OnGD + 1
        /\ OnDO' = OnDO
    BY <1>4, Flows DEF GatewayWrites
  <2>1. Types'
    BY <1>0, <1>4, <2>0 DEF GatewayWrites, Types
  <2>2. Conserved'
    BY <1>0, <1>4, <2>0, <2>1 DEF GatewayWrites, Types, Conserved, Held
  <2>3. Ordered'
    BY <1>0, <1>4, <2>0 DEF GatewayWrites, Types, Ordered, HeadRead
  <2> QED
    BY <2>1, <2>2, <2>3
<1>5. CASE GatewayWritten
  <2>0. wire' = wire => OnVG' = OnVG /\ OnGD' = OnGD /\ OnDO' = OnDO
    BY DEF OnVG, OnGD, OnDO
  <2>1. Types'
    BY <1>0, <1>5 DEF GatewayWritten, Types
  <2>2. Conserved'
    BY <1>0, <2>0, <1>5 DEF GatewayWritten, Types, Conserved, Held
  <2>3. Ordered'
    BY <1>0, <2>0, <1>5 DEF GatewayWritten, Types, Ordered, HeadRead
  <2> QED
    BY <2>1, <2>2, <2>3
<1>6. CASE GatewayFails
  <2>0. wire' = wire => OnVG' = OnVG /\ OnGD' = OnGD /\ OnDO' = OnDO
    BY DEF OnVG, OnGD, OnDO
  <2>1. Types'
    BY <1>0, <1>6 DEF GatewayFails, GatewayReturns, BodyClosed, Types
  <2>2. Conserved'
    BY <1>0, <2>0, <1>6 DEF GatewayFails, GatewayReturns, BodyClosed, Types, Conserved, Held
  <2>3. Ordered'
    BY <1>0, <2>0, <1>6 DEF GatewayFails, GatewayReturns, BodyClosed, Types, Ordered, HeadRead
  <2> QED
    BY <2>1, <2>2, <2>3
<1>7. CASE GatewayReads
  <2>0. /\ wire' \in [Hops -> Seq(Chunks)]
        /\ OnVG' = OnVG /\ OnGD' = OnGD /\ OnDO' = OnDO
    BY <1>7, Flows DEF GatewayReads
  <2>1. Types'
    BY <1>0, <2>0, <1>7 DEF GatewayReads, Types
  <2>2. Conserved'
    BY <1>0, <2>0, <1>7 DEF GatewayReads, Types, Conserved, Held
  <2>3. Ordered'
    BY <1>0, <2>0, <1>7 DEF GatewayReads, Types, Ordered, HeadRead
  <2> QED
    BY <2>1, <2>2, <2>3
<1>8. CASE GatewayCopies
  <2>0. /\ wire' \in [Hops -> Seq(Chunks)]
        /\ OnVG' = OnVG /\ OnGD' = OnGD /\ OnDO' = OnDO
    BY <1>8, Flows DEF GatewayCopies
  <2>1. Types'
    BY <1>0, <1>8, <2>0 DEF GatewayCopies, GatewayReturns, BodyClosed, Types
  <2>2. Conserved'
    BY <1>0, <1>8, <2>0, <2>1 DEF GatewayCopies, GatewayReturns, BodyClosed, Types, Conserved, Held
  <2>3. Ordered'
    BY <1>0, <1>8, <2>0 DEF GatewayCopies, GatewayReturns, BodyClosed, Types, Ordered, HeadRead
  <2> QED
    BY <2>1, <2>2, <2>3
<1>9. CASE GatewayCopied
  <2>0. wire' = wire => OnVG' = OnVG /\ OnGD' = OnGD /\ OnDO' = OnDO
    BY DEF OnVG, OnGD, OnDO
  <2>1. Types'
    BY <1>0, <1>9 DEF GatewayCopied, GatewayReturns, BodyClosed, Types
  <2>2. Conserved'
    BY <1>0, <2>0, <1>9 DEF GatewayCopied, GatewayReturns, BodyClosed, Types, Conserved, Held
  <2>3. Ordered'
    BY <1>0, <2>0, <1>9 DEF GatewayCopied, GatewayReturns, BodyClosed, Types, Ordered, HeadRead
  <2> QED
    BY <2>1, <2>2, <2>3
<1>10. CASE GatewayPipes
  <2>0. /\ wire' \in [Hops -> Seq(Chunks)]
        /\ \/ /\ OnVG' = OnVG
              /\ OnGD' = OnGD
              /\ OnDO' = OnDO
           \/ /\ "toStream" \in gatCopy
              /\ OnVG' = OnVG - 1
              /\ OnGD' = OnGD + 1
              /\ OnDO' = OnDO
    BY <1>10, Flows DEF GatewayPipes
  <2>1. Types'
    BY <1>0, <1>10, <2>0 DEF GatewayPipes, Types
  <2>2. Conserved'
    BY <1>0, <1>10, <2>0 DEF GatewayPipes, Types, Conserved, Held
  <2>3. Ordered'
    BY <1>0, <1>10, <2>0 DEF GatewayPipes, Types, Ordered, HeadRead
  <2> QED
    BY <2>1, <2>2, <2>3
<1>11. CASE GatewayCopyEnds
  <2>0. wire' = wire => OnVG' = OnVG /\ OnGD' = OnGD /\ OnDO' = OnDO
    BY DEF OnVG, OnGD, OnDO
  <2>1. Types'
    BY <1>0, <1>11 DEF GatewayCopyEnds, Types
  <2>2. Conserved'
    BY <1>0, <2>0, <1>11 DEF GatewayCopyEnds, Types, Conserved, Held
  <2>3. Ordered'
    BY <1>0, <2>0, <1>11 DEF GatewayCopyEnds, Types, Ordered, HeadRead
  <2> QED
    BY <2>1, <2>2, <2>3
<1>12. CASE GatewayUpgradeEnds
  <2>0. wire' = wire => OnVG' = OnVG /\ OnGD' = OnGD /\ OnDO' = OnDO
    BY DEF OnVG, OnGD, OnDO
  <2>1. Types'
    BY <1>0, <1>12 DEF GatewayUpgradeEnds, GatewayReturns, BodyClosed, Joined, Types
  <2>2. Conserved'
    BY <1>0, <2>0, <1>12 DEF GatewayUpgradeEnds, GatewayReturns, BodyClosed, Joined, Types, Conserved, Held
  <2>3. Ordered'
    BY <1>0, <2>0, <1>12 DEF GatewayUpgradeEnds, GatewayReturns, BodyClosed, Joined, Types, Ordered, HeadRead
  <2> QED
    BY <2>1, <2>2, <2>3
<1>13. CASE DaemonReads
  <2>0. /\ wire' \in [Hops -> Seq(Chunks)]
        /\ OnGD' = OnGD - 1 /\ OnGD >= 1
        /\ OnVG' = OnVG /\ OnDO' = OnDO
    BY <1>0, <1>13, TakesEffect DEF DaemonReads, OnVG, OnGD, OnDO
  <2>1. Types'
    BY <1>0, <1>13, <2>0 DEF DaemonReads, Types
  <2>2. Conserved'
    BY <1>0, <1>13, <2>0, <2>1 DEF DaemonReads, Types, Conserved, Held
  <2>3. Ordered'
    BY <1>0, <1>13, <2>0 DEF DaemonReads, Types, Ordered, HeadRead
  <2> QED
    BY <2>1, <2>2, <2>3
<1>14. CASE TunnelUnknown
  <2>0. wire' = wire => OnVG' = OnVG /\ OnGD' = OnGD /\ OnDO' = OnDO
    BY DEF OnVG, OnGD, OnDO
  <2>1. Types'
    BY <1>0, <1>14 DEF TunnelUnknown, DaemonReturns, Types
  <2>2. Conserved'
    BY <1>0, <2>0, <1>14 DEF TunnelUnknown, DaemonReturns, Types, Conserved, Held
  <2>3. Ordered'
    BY <1>0, <2>0, <1>14 DEF TunnelUnknown, DaemonReturns, Types, Ordered, HeadRead
  <2> QED
    BY <2>1, <2>2, <2>3
<1>15. CASE DaemonDials
  <2>0. /\ wire' \in [Hops -> Seq(Chunks)]
        /\ OnDO' = OnDO + 1
        /\ OnVG' = OnVG /\ OnGD' = OnGD
    BY <1>0, <1>15, PutEffect DEF DaemonDials, OnVG, OnGD, OnDO
  <2>1. Types'
    BY <1>0, <1>15, <2>0 DEF DaemonDials, Types
  <2>2. Conserved'
    BY <1>0, <1>15, <2>0, <2>1 DEF DaemonDials, Types, Conserved, Held
  <2>3. Ordered'
    BY <1>0, <1>15, <2>0 DEF DaemonDials, Types, Ordered, HeadRead
  <2> QED
    BY <2>1, <2>2, <2>3
<1>16. CASE DialFails
  <2>0. OnVG' = OnVG /\ OnGD' = OnGD /\ OnDO' = OnDO
    BY <1>0, <1>16 DEF DialFails, Types, OnVG, OnGD, OnDO
  <2>1. Types'
    BY <1>0, <1>16 DEF DialFails, DaemonReturns, Types
  <2>2. Conserved'
    BY <1>0, <1>16, <2>0 DEF DialFails, DaemonReturns, Types, Conserved, Held
  <2>3. Ordered'
    BY <1>0, <1>16, <2>0 DEF DialFails, DaemonReturns, Types, Ordered, HeadRead
  <2> QED
    BY <2>1, <2>2, <2>3
<1>17. CASE DaemonWrites
  <2>0. /\ wire' \in [Hops -> Seq(Chunks)]
        /\ OnGD' = OnGD - 1 /\ OnGD >= 1
        /\ OnDO' = OnDO + 1
        /\ OnVG' = OnVG
    BY <1>17, Flows DEF DaemonWrites
  <2>1. Types'
    BY <1>0, <1>17, <2>0 DEF DaemonWrites, Types
  <2>2. Conserved'
    BY <1>0, <1>17, <2>0, <2>1 DEF DaemonWrites, Types, Conserved, Held
  <2>3. Ordered'
    BY <1>0, <1>17, <2>0 DEF DaemonWrites, Types, Ordered, HeadRead
  <2> QED
    BY <2>1, <2>2, <2>3
<1>18. CASE DaemonWritten
  <2>0. wire' = wire => OnVG' = OnVG /\ OnGD' = OnGD /\ OnDO' = OnDO
    BY DEF OnVG, OnGD, OnDO
  <2>1. Types'
    BY <1>0, <1>18 DEF DaemonWritten, Types
  <2>2. Conserved'
    BY <1>0, <2>0, <1>18 DEF DaemonWritten, Types, Conserved, Held
  <2>3. Ordered'
    BY <1>0, <2>0, <1>18 DEF DaemonWritten, Types, Ordered, HeadRead
  <2> QED
    BY <2>1, <2>2, <2>3
<1>19. CASE DaemonFails
  <2>0. wire' = wire => OnVG' = OnVG /\ OnGD' = OnGD /\ OnDO' = OnDO
    BY DEF OnVG, OnGD, OnDO
  <2>1. Types'
    BY <1>0, <1>19 DEF DaemonFails, DaemonReturns, Types
  <2>2. Conserved'
    BY <1>0, <2>0, <1>19 DEF DaemonFails, DaemonReturns, Types, Conserved, Held
  <2>3. Ordered'
    BY <1>0, <2>0, <1>19 DEF DaemonFails, DaemonReturns, Types, Ordered, HeadRead
  <2> QED
    BY <2>1, <2>2, <2>3
<1>20. CASE DaemonPipes
  <2>0. /\ wire' \in [Hops -> Seq(Chunks)]
        /\ \/ /\ OnVG' = OnVG
              /\ OnGD' = OnGD - 1
              /\ OnDO' = OnDO + 1
           \/ /\ OnVG' = OnVG
              /\ OnGD' = OnGD
              /\ OnDO' = OnDO
    BY <1>20, Flows DEF DaemonPipes
  <2>1. Types'
    BY <1>0, <1>20, <2>0 DEF DaemonPipes, Types
  <2>2. Conserved'
    BY <1>0, <1>20, <2>0 DEF DaemonPipes, Types, Conserved, Held
  <2>3. Ordered'
    BY <1>0, <1>20, <2>0 DEF DaemonPipes, Types, Ordered, HeadRead
  <2> QED
    BY <2>1, <2>2, <2>3
<1>21. CASE DaemonCopyEnds
  <2>0. wire' = wire => OnVG' = OnVG /\ OnGD' = OnGD /\ OnDO' = OnDO
    BY DEF OnVG, OnGD, OnDO
  <2>1. Types'
    BY <1>0, <1>21 DEF DaemonCopyEnds, CloseWrite, Types
  <2>2. Conserved'
    BY <1>0, <2>0, <1>21 DEF DaemonCopyEnds, CloseWrite, Types, Conserved, Held
  <2>3. Ordered'
    BY <1>0, <2>0, <1>21 DEF DaemonCopyEnds, CloseWrite, Types, Ordered, HeadRead
  <2> QED
    BY <2>1, <2>2, <2>3
<1>22. CASE DaemonEnds
  <2>0. wire' = wire => OnVG' = OnVG /\ OnGD' = OnGD /\ OnDO' = OnDO
    BY DEF OnVG, OnGD, OnDO
  <2>1. Types'
    BY <1>0, <1>22 DEF DaemonEnds, DaemonReturns, Joined, Types
  <2>2. Conserved'
    BY <1>0, <2>0, <1>22 DEF DaemonEnds, DaemonReturns, Joined, Types, Conserved, Held
  <2>3. Ordered'
    BY <1>0, <2>0, <1>22 DEF DaemonEnds, DaemonReturns, Joined, Types, Ordered, HeadRead
  <2> QED
    BY <2>1, <2>2, <2>3
<1>23. CASE OriginReads
  <2>0. /\ wire' \in [Hops -> Seq(Chunks)]
        /\ OnDO' = OnDO - 1 /\ OnDO >= 1
        /\ OnVG' = OnVG /\ OnGD' = OnGD
    BY <1>0, <1>23, TakesEffect DEF OriginReads, OnVG, OnGD, OnDO
  <2>1. Types'
    BY <1>0, <1>23, <2>0 DEF OriginReads, Types
  <2>2. Conserved'
    BY <1>0, <1>23, <2>0, <2>1 DEF OriginReads, Types, Conserved, Held
  <2>3. Ordered'
    BY <1>0, <1>23, <2>0 DEF OriginReads, Types, Ordered, HeadRead
  <2> QED
    BY <2>1, <2>2, <2>3
<1>24. CASE OriginAnswers
  <2>0. /\ wire' \in [Hops -> Seq(Chunks)]
        /\ OnVG' = OnVG /\ OnGD' = OnGD /\ OnDO' = OnDO
    BY <1>0, <1>24, Flows DEF OriginAnswers, Modes
  <2>1. Types'
    BY <1>0, <2>0, <1>24 DEF OriginAnswers, Modes, Types
  <2>2. Conserved'
    BY <1>0, <2>0, <1>24 DEF OriginAnswers, Modes, Types, Conserved, Held
  <2>3. Ordered'
    BY <1>0, <2>0, <1>24 DEF OriginAnswers, Modes, Types, Ordered, HeadRead
  <2> QED
    BY <2>1, <2>2, <2>3
<1>25. CASE OriginSends \/ OriginAnswered
  <2>0. /\ wire' \in [Hops -> Seq(Chunks)]
        /\ OnVG' = OnVG /\ OnGD' = OnGD /\ OnDO' = OnDO
    BY <1>0, <1>25, Flows DEF OriginSends, OriginAnswered
  <2>1. Types'
    <3>1. orgSent' \in 0..MaxData /\ origin' \in {"answering", "answered"}
      BY <1>25 DEF OriginSends, OriginAnswered, Types
    <3> QED
      BY <1>25, <2>0, <3>1 DEF OriginSends, OriginAnswered, Types
  <2>2. Conserved'
    BY <1>0, <1>25, <2>0, <2>1 DEF OriginSends, OriginAnswered, Types, Conserved, Held
  <2>3. Ordered'
    BY <1>0, <1>25, <2>0 DEF OriginSends, OriginAnswered, Types, Ordered, HeadRead
  <2> QED
    BY <2>1, <2>2, <2>3
<1>26. CASE OriginCloses \/ OriginSeesEnd
  <2>0. wire' = wire => OnVG' = OnVG /\ OnGD' = OnGD /\ OnDO' = OnDO
    BY DEF OnVG, OnGD, OnDO
  <2>1. Types'
    BY <1>0, <1>26 DEF OriginCloses, OriginSeesEnd, Closes, Types
  <2>2. Conserved'
    BY <1>0, <2>0, <1>26 DEF OriginCloses, OriginSeesEnd, Closes, Types, Conserved, Held
  <2>3. Ordered'
    BY <1>0, <2>0, <1>26 DEF OriginCloses, OriginSeesEnd, Closes, Types, Ordered, HeadRead
  <2> QED
    BY <2>1, <2>2, <2>3
<1>27. CASE TunnelBreaks
  <2>0. /\ OnVG' = OnVG /\ OnDO' = OnDO
        /\ wire'["GD"] = <<>> /\ OnGD' = 0
    BY <1>0, <1>27 DEF TunnelBreaks, OnVG, OnGD, OnDO
  <2>1. Types'
    BY <1>0, <1>27 DEF TunnelBreaks, Types
  <2>2. Conserved'
    BY <1>0, <1>27, <2>0 DEF TunnelBreaks, Types, Conserved, Held
  <2>3. Ordered'
    BY <1>0, <1>27, <2>0 DEF TunnelBreaks, Types, Ordered, HeadRead
  <2> QED
    BY <2>1, <2>2, <2>3
<1>28. CASE UNCHANGED vars
  <2>0. wire' = wire => OnVG' = OnVG /\ OnGD' = OnGD /\ OnDO' = OnDO
    BY DEF OnVG, OnGD, OnDO
  <2>1. Types'
    BY <1>0, <1>28 DEF vars, Types
  <2>2. Conserved'
    BY <1>0, <2>0, <1>28 DEF vars, Types, Conserved, Held
  <2>3. Ordered'
    BY <1>0, <2>0, <1>28 DEF vars, Types, Ordered, HeadRead
  <2> QED
    BY <2>1, <2>2, <2>3
<1> QED
  BY <1>1, <1>2, <1>3, <1>4, <1>5, <1>6, <1>7, <1>8, <1>9, <1>10, <1>11, <1>12, <1>13, <1>14, <1>15,
     <1>16, <1>17, <1>18, <1>19, <1>20, <1>21, <1>22, <1>23, <1>24, <1>25, <1>26, <1>27, <1>28
     DEF Next, Gateway, Daemon

(* A request starts with its head on the stream and nothing else.          *)
LEMMA InitHolds ==
    ASSUME Init
    PROVE  PipeInv
<1> USE PipeAssumption
<1>1. Types
  <2>1. wire \in [Hops -> Seq(Chunks)]
    BY DEF Init, Hops, Chunks
  <2> QED
    BY <2>1 DEF Init, Types, Modes
<1>2. wire["VG"] = <<>> /\ wire["GD"] = <<"head">> /\ wire["DO"] = <<>>
  BY DEF Init, Hops
<1>3. OnVG = 0 /\ OnGD = 1 /\ OnDO = 0
  BY <1>2 DEF OnVG, OnGD, OnDO
<1> QED
  BY <1>1, <1>3 DEF Init, PipeInv, Conserved, Held, Ordered, HeadRead

(* The invariant bounds what the daemon has written by what the gateway    *)
(* has, and what the origin has read by what the visitor has sent.         *)
LEMMA PipeBounds ==
    ASSUME PipeInv
    PROVE  PipeTypeOK
<1> USE PipeAssumption DEF PipeInv
<1>1. OnVG \in Nat /\ OnGD \in Nat /\ OnDO \in Nat /\ Held \in Nat
  BY Lengths DEF Hops, OnVG, OnGD, OnDO, Held
<1>2. daeSent \in 0..gatSent
  BY DEF Types, Ordered
<1>3. orgRead \in 0..(1 + body + MaxData)
  BY <1>1 DEF Types, Conserved
<1> QED
  BY <1>2, <1>3 DEF Types, Chunks, PipeTypeOK

(* In every state, whatever leaves, closes, fails or breaks: the chunks on *)
(* their way to the origin, and those it has read, were all sent by the    *)
(* visitor, and the daemon writes no more of the body than ForwardRequest  *)
(* has given it.                                                           *)
THEOREM PipeInvariant == Spec => []PipeInv
<1>1. Init => PipeInv
  BY InitHolds
<1>2. PipeInv /\ [Next]_vars => PipeInv'
  BY PipeStep
<1> QED
  BY <1>1, <1>2, PTL DEF Spec

(* The types of ForwardRequest, ServeOrigin and what is between them; the  *)
(* copies of an upgraded connection run only while their handler waits for *)
(* them, and the origin reads no more than the visitor may have sent.      *)
THEOREM PipeTypes == Spec => []PipeTypeOK
<1>1. PipeInv => PipeTypeOK
  BY PipeBounds
<1> QED
  BY <1>1, PipeInvariant, PTL
=============================================================================
