---------------------------- MODULE MonitorProofs ----------------------------
(***************************************************************************)
(* Monitor keeps its safety properties, for any number of sends, of calls  *)
(* of stop() and of sockets.                                               *)
(***************************************************************************)
EXTENDS Monitor, TLAPS

Results == {"none", "queued", "written", "acked"} \cup Rejections

ConnectionType ==
    /\ ws \in [Sockets -> States]
    /\ attached \subseteq Sockets
    /\ socket \in Sockets \cup {None}
    /\ connected \in BOOLEAN /\ stopRequested \in BOOLEAN
    /\ loop \in [at : Places, on : Sockets \cup {None}]
    /\ stops \in [Callers -> [at : {"idle", "closing", "waiting", "done"},
                              on : Sockets \cup {None}]]

SendType ==
    /\ chain \in Seq(Sends)
    /\ result \in [Sends -> Results]
    /\ pendingAck \in Sends \cup {None}
    /\ acked \in [Sends -> Sends \cup {None}]
    /\ wire \in [Sockets -> Seq(Sends)]
    /\ outcome \in [Sends -> {"none", "waiting", "ws", "http", "error"}]
    /\ written \subseteq Sends

(* Only the variable socket can hold a socket that is not closed, and what *)
(* has let go of it stays without one.                                     *)
SocketInv ==
    /\ Closable(ws) \subseteq {socket}
    /\ loop.at \in {"closing", "ending", "ended"} => socket = None
    /\ loop.at \in {"ending", "ended"} => ~ connected
    /\ \A c \in Callers : stops[c].at = "done" => loop.at = "ended"

(* The loop that ends has rejected the send that waited.                   *)
EndInv == loop.at \in {"ending", "ended"} => pendingAck = None

(* The send that waits for an acknowledgement is the one that is written   *)
(* and not settled.                                                        *)
PendingInv == \A s \in Sends : result[s] = "written" <=> pendingAck = s

(* What has become of a send agrees with what its promise became.          *)
FateInv ==
    \A s \in Sends :
        /\ outcome[s] = "none" => result[s] = "none"
        /\ outcome[s] = "http" => result[s] \in {"none", "not connected"}
        /\ outcome[s] = "ws" => result[s] = "acked"
        /\ result[s] = "acked" => acked[s] = s
        /\ s \in written => result[s] \in {"written", "acked", "timed out", "socket closed"}

(* In the chain a send is written only after all before it were            *)
(* acknowledged, and fails only after all before it are settled.           *)
ChainInv ==
    /\ \A s \in Sends : result[s] # "none" <=> \E i \in 1..Len(chain) : chain[i] = s
    /\ \A i, j \in 1..Len(chain) : chain[i] = chain[j] => i = j
    /\ \A i, j \in 1..Len(chain) : i < j =>
          /\ result[chain[j]] \in {"written", "acked"} => result[chain[i]] = "acked"
          /\ Rejected(chain[j]) => result[chain[i]] = "acked" \/ Rejected(chain[i])

(* A frame is on one wire, once, and of a send that was not acknowledged.  *)
FrameInv ==
    \A w \in Sockets : \A i \in 1..Len(wire[w]) :
        wire[w][i] \in written /\ result[wire[w][i]] # "acked"

OnceInv ==
    \A v, w \in Sockets : \A i \in 1..Len(wire[v]), j \in 1..Len(wire[w]) :
        wire[v][i] = wire[w][j] => v = w /\ i = j

SendInv ==
    SendType /\ PendingInv /\ FateInv /\ ChainInv /\ FrameInv /\ OnceInv

MonitorInv == ConnectionType /\ SocketInv /\ EndInv /\ SendInv

-----------------------------------------------------------------------------
(* The socket and the loop                                                 *)

LEMMA NoneIsNoSocket == None \notin Sockets
  BY NoneIsNothing, MaxSocketsIsNat DEF Sockets

LEMMA AtIs ==
    ASSUME NEW place, NEW w
    PROVE  At(place, w).at = place /\ At(place, w).on = w
  BY DEF At

LEMMA AtIsLoop ==
    ASSUME NEW place \in Places, NEW w \in Sockets \cup {None}
    PROVE  At(place, w) \in [at : Places, on : Sockets \cup {None}]
  BY DEF At

(* A socket that is opened while none is open is the only one.             *)
LEMMA OpenKeeps ==
  ASSUME NEW states \in [Sockets -> States], Closable(states) = {},
         Open(states)
  PROVE  /\ ws' \in [Sockets -> States] /\ socket' \in Sockets
         /\ loop' = At("opening", socket')
         /\ Closable(ws') \subseteq {socket'}
  <1>1. PICK w \in Sockets : /\ ws' = [states EXCEPT ![w] = "connecting"]
                             /\ socket' = w /\ loop' = At("opening", w)
    BY DEF Open
  <1> QED
    BY <1>1 DEF Closable, States

(* Closing the socket leaves none open.                                    *)
LEMMA ClosingLeavesNone ==
  ASSUME NEW states \in [Sockets -> States], Closable(states) \subseteq {socket},
         NEW new \in [Sockets -> States],
         \/ socket \in Closable(states) /\ new = [states EXCEPT ![socket] = "closing"]
         \/ socket \notin Closable(states) /\ new = states
  PROVE  Closable(new) = {}
  BY DEF Closable

LEMMA EndLoopKeeps ==
  ASSUME ConnectionType,
         NEW states \in [Sockets -> States], Closable(states) \subseteq {socket},
         EndLoop(states)
  PROVE  /\ ws' \in [Sockets -> States] /\ socket' = None
         /\ loop' \in [at : Places, on : Sockets \cup {None}]
         /\ loop'.at \in {"ending", "ended"}
         /\ Closable(ws') = {}
  <1>1. CASE socket \in Closable(states)
    <2>1. socket \in Sockets
      BY <1>1 DEF Closable
    <2>2. ws' = [states EXCEPT ![socket] = "closing"] /\ loop' = At("ending", socket) /\ socket' = None
      BY <1>1 DEF EndLoop
    <2>3. ws' \in [Sockets -> States]
      BY <2>2 DEF States
    <2> QED
      BY <1>1, <2>1, <2>2, <2>3, AtIs, AtIsLoop, ClosingLeavesNone DEF Places
  <1>2. CASE socket \notin Closable(states)
    <2>1. ws' = states /\ loop' = At("ended", None) /\ socket' = None
      BY <1>2 DEF EndLoop
    <2> QED
      BY <1>2, <2>1, AtIs, AtIsLoop, ClosingLeavesNone DEF Places
  <1> QED
    BY <1>1, <1>2

LEMMA EndAttemptKeeps ==
  ASSUME ConnectionType,
         NEW states \in [Sockets -> States], Closable(states) \subseteq {socket},
         EndAttempt(states)
  PROVE  /\ ws' \in [Sockets -> States] /\ socket' \in Sockets \cup {None}
         /\ loop' \in [at : Places, on : Sockets \cup {None}]
         /\ Closable(ws') \subseteq {socket'}
         /\ \/ ~ stopRequested /\ loop'.at = "delay"
            \/ stopRequested /\ loop'.at \in {"ending", "ended"} /\ socket' = None
  <1>1. CASE stopRequested
    <2>1. EndLoop(states)
      BY <1>1 DEF EndAttempt
    <2> QED
      BY <1>1, <2>1, EndLoopKeeps
  <1>2. CASE ~ stopRequested
    <2>1. ws' = states /\ loop' = At("delay", None) /\ socket' = socket
      BY <1>2 DEF EndAttempt
    <2>2. At("delay", None) \in [at : Places, on : Sockets \cup {None}]
      BY AtIsLoop DEF Places
    <2> QED
      BY <1>2, <2>1, <2>2, AtIs DEF ConnectionType
  <1> QED
    BY <1>1, <1>2
-----------------------------------------------------------------------------
(* Every step keeps the connection's invariant                             *)

ConnectionInv == ConnectionType /\ SocketInv

LEMMA AttemptKeeps ==
  ASSUME ConnectionInv, Attempt
  PROVE  ConnectionInv'
  <1>1. /\ ws \in [Sockets -> States] /\ Closable(ws) \subseteq {socket}
        /\ loop.at = "delay" /\ connected' = FALSE
        /\ \A c \in Callers : stops[c].at # "done"
        /\ attached' = attached /\ stopRequested' = stopRequested /\ stops' = stops
    BY DEF Attempt, ConnectionInv, ConnectionType, SocketInv
  <1>2. CASE socket \in Closable(ws)
    <2>1. socket \in Sockets
      BY <1>2 DEF Closable
    <2>2. /\ ws' = [ws EXCEPT ![socket] = "closing"] /\ socket' = None
          /\ loop' = At("closing", socket)
      BY <1>2 DEF Attempt
    <2>3. ws' \in [Sockets -> States]
      BY <1>1, <2>2 DEF States
    <2>4. Closable(ws') = {}
      BY <1>1, <1>2, <2>2, <2>3, ClosingLeavesNone
    <2>5. loop'.at = "closing" /\ loop' \in [at : Places, on : Sockets \cup {None}]
      BY <2>1, <2>2, AtIs, AtIsLoop DEF Places
    <2> QED
      BY <1>1, <2>2, <2>3, <2>4, <2>5 DEF ConnectionInv, ConnectionType, SocketInv
  <1>3. CASE socket \notin Closable(ws)
    <2>1. Open(ws) /\ Closable(ws) = {}
      BY <1>1, <1>3 DEF Attempt
    <2>2. /\ ws' \in [Sockets -> States] /\ socket' \in Sockets
          /\ loop' = At("opening", socket') /\ Closable(ws') \subseteq {socket'}
      BY <1>1, <2>1, OpenKeeps
    <2>3. loop'.at = "opening" /\ loop' \in [at : Places, on : Sockets \cup {None}]
      BY <2>2, AtIs, AtIsLoop DEF Places
    <2> QED
      BY <1>1, <2>2, <2>3 DEF ConnectionInv, ConnectionType, SocketInv
  <1> QED
    BY <1>2, <1>3

LEMMA LeaveLoopKeeps ==
  ASSUME ConnectionInv, LeaveLoop
  PROVE  ConnectionInv'
  <1>1. /\ ws \in [Sockets -> States] /\ Closable(ws) \subseteq {socket}
        /\ loop.at = "delay" /\ connected' = FALSE
        /\ \A c \in Callers : stops[c].at # "done"
        /\ attached' = attached /\ stopRequested' = stopRequested /\ stops' = stops
    BY DEF LeaveLoop, ConnectionInv, ConnectionType, SocketInv
  <1>2. /\ ws' \in [Sockets -> States] /\ socket' = None
        /\ loop' \in [at : Places, on : Sockets \cup {None}]
        /\ loop'.at \in {"ending", "ended"}
        /\ Closable(ws') = {}
    BY <1>1, EndLoopKeeps DEF ConnectionInv, LeaveLoop
  <1> QED
    BY <1>1, <1>2 DEF ConnectionInv, ConnectionType, SocketInv

LEMMA OpenedKeeps ==
  ASSUME ConnectionInv, NEW w \in Sockets, Opened(w)
  PROVE  ConnectionInv'
  <1>1. /\ ws[w] = "connecting" /\ loop.at = "opening"
        /\ ws' = [ws EXCEPT ![w] = "open"] /\ loop' = At("authing", w)
        /\ UNCHANGED <<attached, socket, connected, stopRequested, stops>>
    BY AtIs DEF Opened
  <1>2. ws' \in [Sockets -> States] /\ Closable(ws') = Closable(ws)
    BY <1>1 DEF ConnectionInv, ConnectionType, Closable, States
  <1>3. loop'.at = "authing" /\ loop' \in [at : Places, on : Sockets \cup {None}]
    BY <1>1, AtIs, AtIsLoop DEF Places
  <1> QED
    BY <1>1, <1>2, <1>3 DEF ConnectionInv, ConnectionType, SocketInv

LEMMA AuthOkKeeps ==
  ASSUME ConnectionInv, NEW w \in Sockets, AuthOk(w)
  PROVE  ConnectionInv'
  <1>1. /\ loop.at = "authing" /\ connected' = TRUE /\ attached' = attached \cup {w}
        /\ loop' = At("serving", w)
        /\ UNCHANGED <<ws, socket, stopRequested, stops>>
    BY AtIs DEF AuthOk
  <1>2. loop'.at = "serving" /\ loop' \in [at : Places, on : Sockets \cup {None}]
    BY <1>1, AtIs, AtIsLoop DEF Places
  <1> QED
    BY <1>1, <1>2 DEF ConnectionInv, ConnectionType, SocketInv

LEMMA AuthFailsKeeps ==
  ASSUME ConnectionInv, NEW w \in Sockets, AuthFails(w)
  PROVE  ConnectionInv'
  <1>1. /\ ws \in [Sockets -> States] /\ Closable(ws) \subseteq {socket}
        /\ loop.at = "authing" /\ EndAttempt(ws)
        /\ connected' = (connected /\ ~ stopRequested)
        /\ \A c \in Callers : stops[c].at # "done"
        /\ attached' = attached /\ stopRequested' = stopRequested /\ stops' = stops
    BY AtIs DEF AuthFails, ConnectionInv, ConnectionType, SocketInv
  <1>2. /\ ws' \in [Sockets -> States] /\ socket' \in Sockets \cup {None}
        /\ loop' \in [at : Places, on : Sockets \cup {None}]
        /\ Closable(ws') \subseteq {socket'}
        /\ \/ ~ stopRequested /\ loop'.at = "delay"
           \/ stopRequested /\ loop'.at \in {"ending", "ended"} /\ socket' = None
    BY <1>1, EndAttemptKeeps DEF ConnectionInv
  <1> QED
    BY <1>1, <1>2 DEF ConnectionInv, ConnectionType, SocketInv

LEMMA PeerClosesKeeps ==
  ASSUME ConnectionInv, NEW w \in Sockets, PeerCloses(w)
  PROVE  ConnectionInv'
  <1>1. /\ ws' = [ws EXCEPT ![w] = "closing"]
        /\ UNCHANGED <<attached, socket, connected, stopRequested, loop, stops>>
    BY DEF PeerCloses
  <1>2. ws' \in [Sockets -> States] /\ Closable(ws') \subseteq Closable(ws)
    BY <1>1 DEF ConnectionInv, ConnectionType, Closable, States
  <1> QED
    BY <1>1, <1>2 DEF ConnectionInv, ConnectionType, SocketInv

LEMMA ClosedKeeps ==
  ASSUME ConnectionInv, NEW w \in Sockets, Closed(w)
  PROVE  ConnectionInv'
  <1> DEFINE now == [ws EXCEPT ![w] = "closed"]
             ends == loop.on = w /\ loop.at \in {"opening", "authing", "serving"}
  <1>1. /\ ws \in [Sockets -> States] /\ Closable(ws) \subseteq {socket}
        /\ attached' = attached /\ stopRequested' = stopRequested
        /\ connected' = (connected /\ w \notin attached /\ ~ (ends /\ stopRequested))
        /\ loop \in [at : Places, on : Sockets \cup {None}]
    BY DEF Closed, ConnectionInv, ConnectionType, SocketInv
  <1>2. now \in [Sockets -> States] /\ Closable(now) \subseteq Closable(ws)
    BY <1>1 DEF Closable, States
  <1>3. stops' \in [Callers -> [at : {"idle", "closing", "waiting", "done"},
                                on : Sockets \cup {None}]]
    BY DEF Closed, ConnectionInv, ConnectionType, At
  <1>4. \A c \in Callers : stops'[c].at = "done" => stops[c].at = "done"
    BY AtIs DEF Closed, ConnectionInv, ConnectionType
  <1>5. connected' \in BOOLEAN /\ (connected' => connected)
    BY <1>1
  <1>6. CASE ends /\ EndAttempt(now)
    <2>1. /\ ws' \in [Sockets -> States] /\ socket' \in Sockets \cup {None}
          /\ loop' \in [at : Places, on : Sockets \cup {None}]
          /\ Closable(ws') \subseteq {socket'}
          /\ \/ ~ stopRequested /\ loop'.at = "delay"
             \/ stopRequested /\ loop'.at \in {"ending", "ended"} /\ socket' = None
      <3>1. Closable(now) \subseteq {socket} /\ EndAttempt(now) /\ ConnectionType
        BY <1>1, <1>2, <1>6 DEF ConnectionInv
      <3> HIDE DEF now
      <3> QED
        BY <1>2, <3>1, EndAttemptKeeps
    <2>2. loop.at # "ended" /\ (stopRequested => ~ connected')
      BY <1>1, <1>6
    <2> QED
      BY <1>1, <1>3, <1>4, <1>5, <2>1, <2>2 DEF ConnectionInv, ConnectionType, SocketInv
  <1>7. CASE loop = At("closing", w) /\ Open(now)
    <2>1. loop.at = "closing" /\ socket = None
      BY <1>7, AtIs DEF ConnectionInv, SocketInv
    <2>2. Closable(now) = {}
      BY <1>1, <1>2, <2>1, NoneIsNoSocket DEF Closable
    <2>3. /\ ws' \in [Sockets -> States] /\ socket' \in Sockets
          /\ loop' = At("opening", socket') /\ Closable(ws') \subseteq {socket'}
      <3> HIDE DEF now
      <3> QED
        BY <1>2, <1>7, <2>2, OpenKeeps
    <2>4. loop'.at = "opening" /\ loop' \in [at : Places, on : Sockets \cup {None}]
      BY <2>3, AtIs, AtIsLoop DEF Places
    <2> QED
      BY <1>1, <1>3, <1>4, <1>5, <2>1, <2>3, <2>4 DEF ConnectionInv, ConnectionType, SocketInv
  <1>8. CASE loop = At("ending", w) /\ ws' = now /\ loop' = At("ended", None) /\ UNCHANGED socket
    <2>1. loop.at = "ending" /\ loop'.at = "ended" /\ loop' \in [at : Places, on : Sockets \cup {None}]
      BY <1>8, AtIs, AtIsLoop DEF Places
    <2> QED
      BY <1>1, <1>2, <1>3, <1>4, <1>5, <1>8, <2>1 DEF ConnectionInv, ConnectionType, SocketInv
  <1>9. CASE loop.on # w /\ ws' = now /\ UNCHANGED <<loop, socket>>
    BY <1>1, <1>2, <1>3, <1>4, <1>5, <1>9 DEF ConnectionInv, ConnectionType, SocketInv
  <1> QED
    BY <1>6, <1>7, <1>8, <1>9 DEF Closed

LEMMA StopKeeps ==
  ASSUME ConnectionInv, NEW c \in Callers, Stop(c)
  PROVE  ConnectionInv'
  <1>1. /\ ws \in [Sockets -> States] /\ Closable(ws) \subseteq {socket}
        /\ socket' = None /\ connected' = FALSE /\ stopRequested' = TRUE
        /\ attached' = attached /\ loop' = loop
    BY DEF Stop, ConnectionInv, ConnectionType, SocketInv
  <1>2. /\ ws' \in [Sockets -> States] /\ Closable(ws') = {}
        /\ \E a \in {"closing", "waiting"}, w \in Sockets \cup {None} :
              stops' = [stops EXCEPT ![c] = At(a, w)]
    <2>1. CASE socket \in Closable(ws)
      <3>1. socket \in Sockets
        BY <2>1 DEF Closable
      <3>2. /\ ws' = [ws EXCEPT ![socket] = "closing"]
            /\ stops' = [stops EXCEPT ![c] = At("closing", socket)]
        BY <2>1 DEF Stop
      <3>3. ws' \in [Sockets -> States]
        BY <1>1, <3>2 DEF States
      <3> QED
        BY <1>1, <2>1, <3>1, <3>2, <3>3, ClosingLeavesNone
    <2>2. CASE socket \notin Closable(ws)
      BY <1>1, <2>2, ClosingLeavesNone DEF Stop
    <2> QED
      BY <2>1, <2>2
  <1>3. PICK a \in {"closing", "waiting"}, w \in Sockets \cup {None} :
              stops' = [stops EXCEPT ![c] = At(a, w)]
    BY <1>2
  <1>4. stops' \in [Callers -> [at : {"idle", "closing", "waiting", "done"},
                                on : Sockets \cup {None}]]
    BY <1>3 DEF ConnectionInv, ConnectionType, At
  <1>5. \A d \in Callers : stops'[d].at = "done" => stops[d].at = "done"
    BY <1>3, AtIs DEF ConnectionInv, ConnectionType
  <1> QED
    BY <1>1, <1>2, <1>4, <1>5 DEF ConnectionInv, ConnectionType, SocketInv

LEMMA StopReturnsKeeps ==
  ASSUME ConnectionInv, NEW c \in Callers, StopReturns(c)
  PROVE  ConnectionInv'
  <1>1. /\ loop.at = "ended" /\ stops' = [stops EXCEPT ![c] = At("done", None)]
        /\ UNCHANGED <<ws, attached, socket, connected, stopRequested, loop>>
    BY DEF StopReturns
  <1>2. stops' \in [Callers -> [at : {"idle", "closing", "waiting", "done"},
                                on : Sockets \cup {None}]]
    BY <1>1 DEF ConnectionInv, ConnectionType, At
  <1> QED
    BY <1>1, <1>2 DEF ConnectionInv, ConnectionType, SocketInv
-----------------------------------------------------------------------------
(* The sends                                                               *)

LEMMA NoneIsNoSend == None \notin Sends
  BY NoneIsNothing

(* Of the sends in the chain, those before the one that is written or      *)
(* acknowledged were acknowledged, and those after it still wait.          *)
LEMMA AroundWritten ==
  ASSUME SendInv, NEW s \in Sends, result[s] = "written",
         NEW p \in Sends, p # s, result[p] # "none"
  PROVE  result[p] \in {"acked", "queued"}
  <1>1. /\ result[p] \in Results /\ result[s] \in Results
        /\ chain \in Seq(Sends)
    BY DEF SendInv, SendType
  <1>2. PICK i \in 1..Len(chain) : chain[i] = s
    BY DEF SendInv, ChainInv
  <1>3. PICK j \in 1..Len(chain) : chain[j] = p
    BY DEF SendInv, ChainInv
  <1>4. i < j \/ j < i
    BY <1>1, <1>2, <1>3
  <1>5. CASE j < i
    BY <1>2, <1>3, <1>5 DEF SendInv, ChainInv
  <1>6. CASE i < j
    <2>1. ~ (result[p] \in {"written", "acked"}) /\ ~ Rejected(p)
      BY <1>2, <1>3, <1>6 DEF SendInv, ChainInv, Rejected, Rejections
    <2> QED
      BY <1>1, <2>1 DEF Rejected, Results
  <1> QED
    BY <1>4, <1>5, <1>6

(* What a send still waits for is on the wire alone.                       *)
LEMMA FrameIsPending ==
  ASSUME SendInv, pendingAck # None, NEW w \in Sockets, wire[w] # << >>
  PROVE  Head(wire[w]) = pendingAck
  <1>1. pendingAck \in Sends /\ result[pendingAck] = "written"
    BY DEF SendInv, SendType, PendingInv
  <1>2. wire[w] \in Seq(Sends) /\ Head(wire[w]) = wire[w][1] /\ 1 \in 1..Len(wire[w])
    BY DEF SendInv, SendType
  <1>3. Head(wire[w]) \in Sends /\ Head(wire[w]) \in written /\ result[Head(wire[w])] # "acked"
    BY <1>2 DEF SendInv, FrameInv, SendType
  <1>4. result[Head(wire[w])] \in {"written", "timed out", "socket closed"}
    BY <1>3 DEF SendInv, FateInv
  <1> QED
    BY <1>1, <1>3, <1>4, AroundWritten

(* One promise of the chain changes, as the order of the chain allows.     *)
LEMMA ChainKept ==
  ASSUME SendInv, NEW s \in Sends, NEW x \in Results \ {"none", "queued"},
         chain' = chain,
         \A p \in Sends : result'[p] = IF p = s THEN x ELSE result[p],
         result[s] \in {"queued", "written"},
         \A i, j \in 1..Len(chain) : chain[j] = s /\ i < j =>
            /\ x \in {"written", "acked"} => result[chain[i]] = "acked"
            /\ x \in Rejections => result[chain[i]] = "acked" \/ Rejected(chain[i])
  PROVE  ChainInv'
  <1>1. \A i \in 1..Len(chain) : chain[i] \in Sends
    BY DEF SendInv, SendType
  <1>2. \A p \in Sends : result'[p] # "none" <=> result[p] # "none"
    OBVIOUS
  <1>3. \A p \in Sends : /\ result[p] = "acked" => result'[p] = "acked"
                         /\ Rejected(p) => Rejected(p)'
    BY DEF Rejected, Rejections
  <1>4. ASSUME NEW i \in 1..Len(chain), NEW j \in 1..Len(chain), i < j
        PROVE  /\ result'[chain[j]] \in {"written", "acked"} => result'[chain[i]] = "acked"
               /\ Rejected(chain[j])' => result'[chain[i]] = "acked" \/ Rejected(chain[i])'
    <2>1. chain[i] \in Sends /\ chain[j] \in Sends
      BY <1>1
    <2>2. CASE chain[j] = s
      <3>1. result'[chain[j]] = x
        BY <2>1, <2>2
      <3> QED
        BY <1>3, <1>4, <2>1, <2>2, <3>1 DEF Rejected
    <2>3. CASE chain[j] # s
      <3>1. result'[chain[j]] = result[chain[j]]
        BY <2>1, <2>3
      <3> QED
        BY <1>3, <1>4, <2>1, <3>1 DEF SendInv, ChainInv, Rejected
    <2> QED
      BY <2>2, <2>3
  <1>5. chain' = chain
    OBVIOUS
  <1>6. Len(chain') = Len(chain) /\ \A i \in 1..Len(chain) : chain'[i] = chain[i]
    BY <1>5
  <1> QED
    BY <1>1, <1>2, <1>4, <1>6 DEF SendInv, ChainInv, Rejected

LEMMA OnceKept ==
  ASSUME OnceInv, UNCHANGED wire
  PROVE  OnceInv'
  BY DEF OnceInv

LEMMA FramesAreSends ==
  ASSUME SendInv
  PROVE  /\ \A i \in 1..Len(chain) : chain[i] \in Sends
         /\ \A w \in Sockets : \A i \in 1..Len(wire[w]) : wire[w][i] \in Sends
  <1>1. chain \in Seq(Sends) /\ \A w \in Sockets : wire[w] \in Seq(Sends)
    BY DEF SendInv, SendType
  <1> QED
    BY <1>1

(* The send that is written is rejected.                                   *)
LEMMA RejectionKeeps ==
  ASSUME SendInv, NEW s \in Sends, NEW x \in {"timed out", "socket closed"},
         result[s] = "written",
         result' \in [Sends -> Results],
         \A p \in Sends : result'[p] = IF p = s THEN x ELSE result[p],
         pendingAck' = None,
         UNCHANGED <<chain, acked, wire, outcome, written>>
  PROVE  SendInv'
  <1>1. SendType'
    BY DEF SendInv, SendType
  <1>2. PendingInv'
    BY NoneIsNoSend DEF SendInv, PendingInv
  <1>3. FateInv'
    BY DEF SendInv, FateInv
  <1>4. ChainInv'
    <2>1. x \in Results \ {"none", "queued"} /\ x \in Rejections
      BY DEF Results, Rejections
    <2>2. ASSUME NEW i \in 1..Len(chain), NEW j \in 1..Len(chain), chain[j] = s, i < j
          PROVE  result[chain[i]] = "acked"
      <3>1. result[chain[j]] = "written" /\ ChainInv
        BY <2>2 DEF SendInv
      <3> QED
        BY ONLY <2>2, <3>1 DEF ChainInv
    <2> QED
      BY <2>1, <2>2, ChainKept
  <1>5. FrameInv'
    <2>1. \A w \in Sockets : \A i \in 1..Len(wire[w]) : wire[w][i] \in Sends
      BY FramesAreSends
    <2>2. \A p \in Sends : result[p] # "acked" => result'[p] # "acked"
      OBVIOUS
    <2>3. wire' = wire /\ written' = written
      OBVIOUS
    <2>4. FrameInv
      BY DEF SendInv
    <2>5. ASSUME NEW w \in Sockets, NEW i \in 1..Len(wire'[w])
          PROVE  wire'[w][i] \in written' /\ result'[wire'[w][i]] # "acked"
      <3>1. i \in 1..Len(wire[w]) /\ wire'[w][i] = wire[w][i]
        BY <2>3
      <3>2. wire[w][i] \in Sends /\ wire[w][i] \in written /\ result[wire[w][i]] # "acked"
        BY <2>1, <2>4, <3>1 DEF FrameInv
      <3> QED
        BY <2>2, <2>3, <3>1, <3>2
    <2> QED
      BY <2>5 DEF FrameInv
  <1>6. OnceInv'
    BY OnceKept DEF SendInv
  <1> QED
    BY <1>1, <1>2, <1>3, <1>4, <1>5, <1>6 DEF SendInv

LEMMA IdleKeeps ==
  ASSUME SendInv, UNCHANGED sending
  PROVE  SendInv'
  <1>1. UNCHANGED <<chain, result, pendingAck, acked, wire, outcome, written>>
    BY DEF sending
  <1>2. SendType'
    BY <1>1 DEF SendInv, SendType
  <1>3. PendingInv'
    BY <1>1 DEF SendInv, PendingInv
  <1>4. FateInv'
    BY <1>1 DEF SendInv, FateInv
  <1>5. ChainInv'
    BY <1>1 DEF SendInv, ChainInv, Rejected
  <1>6. FrameInv' /\ OnceInv'
    BY <1>1 DEF SendInv, FrameInv, OnceInv
  <1> QED
    BY <1>2, <1>3, <1>4, <1>5, <1>6 DEF SendInv

LEMMA ClearPendingAckKeeps ==
  ASSUME SendInv, NEW clear \in BOOLEAN, ClearPendingAck(clear),
         UNCHANGED <<chain, acked, wire, outcome, written>>
  PROVE  SendInv' /\ (clear => pendingAck' = None) /\ (pendingAck = None => pendingAck' = None)
  <1>1. SendType /\ pendingAck' = IF clear THEN None ELSE pendingAck
    BY DEF ClearPendingAck, SendInv
  <1>2. result' = [s \in Sends |-> IF clear /\ s = pendingAck THEN "socket closed" ELSE result[s]]
    BY DEF ClearPendingAck
  <1>3. CASE clear /\ pendingAck # None
    <2>1. pendingAck \in Sends /\ result[pendingAck] = "written"
      BY <1>3 DEF SendInv, SendType, PendingInv
    <2>2. result' \in [Sends -> Results]
      BY <1>1, <1>2 DEF SendType, Results, Rejections
    <2>3. \A p \in Sends : result'[p] = IF p = pendingAck THEN "socket closed" ELSE result[p]
      BY <1>2, <1>3
    <2> QED
      BY <1>1, <1>3, <2>1, <2>2, <2>3, RejectionKeeps
  <1>4. CASE ~ clear \/ pendingAck = None
    <2>1. \A s \in Sends : result'[s] = result[s]
      BY <1>2, <1>4, NoneIsNoSend
    <2>2. result' = result
      BY <1>1, <1>2, <2>1 DEF SendType
    <2>3. pendingAck' = pendingAck
      BY <1>1, <1>4
    <2>4. UNCHANGED <<chain, result, pendingAck, acked, wire, outcome, written>> /\ SendInv
      BY <2>2, <2>3
    <2>5. SendInv'
      BY <2>4, IdleKeeps DEF sending
    <2> QED
      BY <1>1, <1>4, <2>5
  <1> QED
    BY <1>3, <1>4
(* A frame is taken from the front of a wire.                              *)
LEMMA FrameTaken ==
  ASSUME SendInv, NEW w \in Sockets, wire[w] # << >>,
         wire' = [wire EXCEPT ![w] = Tail(@)]
  PROVE  /\ wire' \in [Sockets -> Seq(Sends)]
         /\ \A v \in Sockets : \A i \in 1..Len(wire'[v]) :
               /\ wire'[v][i] \in Sends /\ wire'[v][i] # Head(wire[w])
               /\ wire'[v][i] \in written /\ result[wire'[v][i]] # "acked"
         /\ OnceInv'
  <1> DEFINE Place(v, i) == IF v = w THEN i + 1 ELSE i
  <1>1. wire \in [Sockets -> Seq(Sends)] /\ wire[w] \in Seq(Sends)
    BY DEF SendInv, SendType
  <1>2. /\ Tail(wire[w]) \in Seq(Sends) /\ Head(wire[w]) = wire[w][1]
        /\ Len(wire[w]) \in Nat /\ Len(wire[w]) > 0
        /\ Len(Tail(wire[w])) = Len(wire[w]) - 1
        /\ \A i \in 1..Len(Tail(wire[w])) : Tail(wire[w])[i] = wire[w][i + 1]
    BY <1>1
  <1>3. wire'[w] = Tail(wire[w]) /\ \A v \in Sockets : v # w => wire'[v] = wire[v]
    BY <1>1
  <1>4. ASSUME NEW v \in Sockets, NEW i \in 1..Len(wire'[v])
        PROVE  /\ Place(v, i) \in 1..Len(wire[v]) /\ wire'[v][i] = wire[v][Place(v, i)]
               /\ v = w => Place(v, i) # 1
    <2>1. CASE v = w
      <3>1. wire'[v] = Tail(wire[w]) /\ i \in 1..(Len(wire[w]) - 1)
        BY <1>2, <1>3, <2>1
      <3>2. i + 1 \in 1..Len(wire[w]) /\ i + 1 # 1
        BY <1>2, <3>1
      <3>3. wire'[v][i] = wire[w][i + 1]
        BY <1>2, <3>1
      <3> QED
        BY <2>1, <3>2, <3>3
    <2>2. CASE v # w
      BY <1>1, <1>3, <2>2
    <2> QED
      BY <2>1, <2>2
  <1>5. 1 \in 1..Len(wire[w])
    BY <1>2
  <1>6. \A v \in Sockets : \A i \in 1..Len(wire'[v]) :
               /\ wire'[v][i] \in Sends /\ wire'[v][i] # Head(wire[w])
               /\ wire'[v][i] \in written /\ result[wire'[v][i]] # "acked"
    <2> SUFFICES ASSUME NEW v \in Sockets, NEW i \in 1..Len(wire'[v])
                 PROVE  /\ wire'[v][i] \in Sends /\ wire'[v][i] # Head(wire[w])
                        /\ wire'[v][i] \in written /\ result[wire'[v][i]] # "acked"
      OBVIOUS
    <2> DEFINE j == Place(v, i)
    <2>1. j \in 1..Len(wire[v]) /\ wire'[v][i] = wire[v][j] /\ (v = w => j # 1)
      BY <1>4
    <2> HIDE DEF j
    <2>2. wire[v][j] \in Sends /\ wire[v][j] \in written /\ result[wire[v][j]] # "acked"
      BY <2>1, FramesAreSends DEF SendInv, FrameInv
    <2>3. wire[v][j] # wire[w][1]
      BY <1>5, <2>1 DEF SendInv, OnceInv
    <2> QED
      BY <1>2, <2>1, <2>2, <2>3
  <1>7. OnceInv'
    <2> SUFFICES ASSUME NEW v \in Sockets, NEW u \in Sockets,
                        NEW i \in 1..Len(wire'[v]), NEW k \in 1..Len(wire'[u]),
                        wire'[v][i] = wire'[u][k]
                 PROVE  v = u /\ i = k
      BY DEF OnceInv
    <2>1. /\ Place(v, i) \in 1..Len(wire[v]) /\ wire'[v][i] = wire[v][Place(v, i)]
          /\ Place(u, k) \in 1..Len(wire[u]) /\ wire'[u][k] = wire[u][Place(u, k)]
      BY <1>4
    <2>2. v = u /\ Place(v, i) = Place(u, k)
      <3> HIDE DEF Place
      <3> QED
        BY <2>1 DEF SendInv, OnceInv
    <2>3. i \in Nat /\ k \in Nat
      BY <1>1, <1>2, <1>3
    <2> QED
      BY <2>2, <2>3
  <1> QED
    BY <1>1, <1>2, <1>6, <1>7

(* A frame that is on no wire is put at the end of one.                    *)
LEMMA FramePut ==
  ASSUME SendInv, NEW w \in Sockets, NEW s \in Sends, s \notin written,
         wire' = [wire EXCEPT ![w] = Append(@, s)]
  PROVE  /\ wire' \in [Sockets -> Seq(Sends)]
         /\ \A v \in Sockets : \A i \in 1..Len(wire'[v]) :
               \/ wire'[v][i] = s
               \/ /\ wire'[v][i] \in Sends
                  /\ wire'[v][i] \in written /\ result[wire'[v][i]] # "acked"
         /\ OnceInv'
  <1>1. wire \in [Sockets -> Seq(Sends)] /\ wire[w] \in Seq(Sends)
    BY DEF SendInv, SendType
  <1>2. /\ Append(wire[w], s) \in Seq(Sends)
        /\ Len(wire[w]) \in Nat
        /\ Len(Append(wire[w], s)) = Len(wire[w]) + 1
        /\ Append(wire[w], s)[Len(wire[w]) + 1] = s
        /\ \A i \in 1..Len(wire[w]) : Append(wire[w], s)[i] = wire[w][i]
    BY <1>1
  <1>3. wire'[w] = Append(wire[w], s) /\ \A v \in Sockets : v # w => wire'[v] = wire[v]
    BY <1>1
  <1>4. ASSUME NEW v \in Sockets, NEW i \in 1..Len(wire'[v])
        PROVE  \/ i \in 1..Len(wire[v]) /\ wire'[v][i] = wire[v][i]
               \/ v = w /\ i = Len(wire[w]) + 1 /\ wire'[v][i] = s
    <2>1. CASE v = w
      BY <1>2, <1>3, <2>1
    <2>2. CASE v # w
      BY <1>1, <1>3, <2>2
    <2> QED
      BY <2>1, <2>2
  <1>5. \A v \in Sockets : \A i \in 1..Len(wire[v]) :
           wire[v][i] \in Sends /\ wire[v][i] \in written /\ result[wire[v][i]] # "acked"
    BY FramesAreSends DEF SendInv, FrameInv
  <1>6. OnceInv'
    <2> SUFFICES ASSUME NEW v \in Sockets, NEW u \in Sockets,
                        NEW i \in 1..Len(wire'[v]), NEW k \in 1..Len(wire'[u]),
                        wire'[v][i] = wire'[u][k]
                 PROVE  v = u /\ i = k
      BY DEF OnceInv
    <2>1. CASE i \in 1..Len(wire[v]) /\ wire'[v][i] = wire[v][i]
      <3>1. k \in 1..Len(wire[u]) /\ wire'[u][k] = wire[u][k]
        BY <1>4, <1>5, <2>1
      <3> QED
        BY <2>1, <3>1 DEF SendInv, OnceInv
    <2>2. CASE v = w /\ i = Len(wire[w]) + 1 /\ wire'[v][i] = s
      <3>1. u = w /\ k = Len(wire[w]) + 1
        BY <1>4, <1>5, <2>2
      <3> QED
        BY <2>2, <3>1
    <2> QED
      BY <1>4, <2>1, <2>2
  <1> QED
    BY <1>1, <1>2, <1>4, <1>5, <1>6
-----------------------------------------------------------------------------
(* Every step keeps the invariant of the sends                             *)

(* The results of a step that changes that of s.                           *)
LEMMA OneResult ==
  ASSUME SendInv, NEW s \in Sends, NEW x \in Results,
         result' = [result EXCEPT ![s] = x]
  PROVE  /\ result' \in [Sends -> Results]
         /\ \A p \in Sends : result'[p] = IF p = s THEN x ELSE result[p]
  BY DEF SendInv, SendType

LEMMA SendKeeps ==
  ASSUME SendInv, NEW s \in Sends, Send(s)
  PROVE  SendInv' /\ pendingAck' = pendingAck
  <1>1. /\ outcome[s] = "none" /\ result[s] = "none"
        /\ s \notin written /\ pendingAck # s
        /\ UNCHANGED <<pendingAck, acked, wire, written>>
    BY DEF Send, SendInv, FateInv, PendingInv
  <1>2. CASE ~ IsConnected
    <2>1. outcome' = [outcome EXCEPT ![s] = "http"] /\ chain' = chain /\ result' = result
      BY <1>2 DEF Send
    <2>2. SendType'
      BY <1>1, <2>1 DEF SendInv, SendType
    <2>3. PendingInv' /\ FrameInv' /\ OnceInv'
      BY <1>1, <2>1 DEF SendInv, PendingInv, FrameInv, OnceInv
    <2>4. ChainInv'
      BY <2>1 DEF SendInv, ChainInv, Rejected
    <2>5. FateInv'
      BY <1>1, <2>1 DEF SendInv, SendType, FateInv
    <2> QED
      BY <1>1, <2>2, <2>3, <2>4, <2>5 DEF SendInv
  <1>3. CASE IsConnected
    <2>1. /\ outcome' = [outcome EXCEPT ![s] = "waiting"]
          /\ chain' = Append(chain, s)
          /\ result' = [result EXCEPT ![s] = "queued"]
      BY <1>3 DEF Send
    <2>2. /\ result' \in [Sends -> Results]
          /\ \A p \in Sends : result'[p] = IF p = s THEN "queued" ELSE result[p]
      BY <2>1, OneResult DEF Results
    <2>3. SendType'
      BY <1>1, <2>1, <2>2 DEF SendInv, SendType
    <2>4. PendingInv'
      BY <1>1, <2>2 DEF SendInv, PendingInv
    <2>5. FateInv'
      BY <1>1, <2>1, <2>2 DEF SendInv, SendType, FateInv
    <2>6. FrameInv'
      BY <1>1, <2>2, FramesAreSends DEF SendInv, FrameInv
    <2>7. OnceInv'
      BY <1>1, OnceKept DEF SendInv
    <2>8. /\ chain \in Seq(Sends) /\ Len(chain) \in Nat
          /\ Len(chain') = Len(chain) + 1 /\ chain'[Len(chain) + 1] = s
          /\ \A i \in 1..Len(chain) : chain'[i] = chain[i] /\ chain[i] \in Sends /\ chain[i] # s
      <3>1. chain \in Seq(Sends)
        BY DEF SendInv, SendType
      <3>2. \A i \in 1..Len(chain) : chain[i] # s
        BY <1>1 DEF SendInv, ChainInv
      <3> QED
        BY <2>1, <3>1, <3>2
    <2>9. ChainInv'
      <3>1. \A p \in Sends : result'[p] # "none" <=> \E i \in 1..Len(chain') : chain'[i] = p
        <4> SUFFICES ASSUME NEW p \in Sends
                     PROVE  result'[p] # "none" <=> \E i \in 1..Len(chain') : chain'[i] = p
          OBVIOUS
        <4>1. CASE p = s
          BY <2>2, <2>8, <4>1
        <4>2. CASE p # s
          <5>1. result'[p] # "none" <=> \E i \in 1..Len(chain) : chain[i] = p
            BY <2>2, <4>2 DEF SendInv, ChainInv
          <5>2. ASSUME NEW i \in 1..Len(chain'), chain'[i] = p
                PROVE  i \in 1..Len(chain) /\ chain[i] = p
            BY <2>8, <4>2, <5>2
          <5>3. \A i \in 1..Len(chain) : i \in 1..Len(chain') /\ chain'[i] = chain[i]
            BY <2>8
          <5> QED
            BY <5>1, <5>2, <5>3
        <4> QED
          BY <4>1, <4>2
      <3>2. \A i, j \in 1..Len(chain') : chain'[i] = chain'[j] => i = j
        <4> SUFFICES ASSUME NEW i \in 1..Len(chain'), NEW j \in 1..Len(chain'),
                            chain'[i] = chain'[j]
                     PROVE  i = j
          OBVIOUS
        <4>1. \/ i \in 1..Len(chain) /\ j \in 1..Len(chain)
              \/ i = Len(chain) + 1 /\ j \in 1..Len(chain)
              \/ i \in 1..Len(chain) /\ j = Len(chain) + 1
              \/ i = Len(chain) + 1 /\ j = Len(chain) + 1
          BY <2>8
        <4>2. CASE i \in 1..Len(chain) /\ j \in 1..Len(chain)
          BY <2>8, <4>2 DEF SendInv, ChainInv
        <4> QED
          BY <2>8, <4>1, <4>2
      <3>3. ASSUME NEW i \in 1..Len(chain'), NEW j \in 1..Len(chain'), i < j
            PROVE  /\ result'[chain'[j]] \in {"written", "acked"} => result'[chain'[i]] = "acked"
                   /\ result'[chain'[j]] \in Rejections =>
                         result'[chain'[i]] \in {"acked"} \cup Rejections
        <4>1. i \in 1..Len(chain) /\ (j \in 1..Len(chain) \/ j = Len(chain) + 1)
          BY <2>8, <3>3
        <4>2. CASE j = Len(chain) + 1
          BY <2>2, <2>8, <4>2 DEF Rejections
        <4>3. CASE j \in 1..Len(chain)
          <5>1. /\ chain'[i] = chain[i] /\ chain'[j] = chain[j]
                /\ result'[chain[i]] = result[chain[i]] /\ result'[chain[j]] = result[chain[j]]
            BY <2>2, <2>8, <4>1, <4>3
          <5>2. /\ result[chain[j]] \in {"written", "acked"} => result[chain[i]] = "acked"
                /\ result[chain[j]] \in Rejections =>
                      result[chain[i]] \in {"acked"} \cup Rejections
            BY <3>3, <4>1, <4>3 DEF SendInv, ChainInv, Rejected
          <5> QED
            BY <5>1, <5>2
        <4> QED
          BY <4>1, <4>2, <4>3
      <3> QED
        BY <3>1, <3>2, <3>3 DEF ChainInv, Rejected
    <2> QED
      BY <1>1, <2>3, <2>4, <2>5, <2>6, <2>7, <2>9 DEF SendInv
  <1> QED
    BY <1>2, <1>3

(* When the callback of then() runs, all sends before were acknowledged.   *)
LEMMA AllBeforeAcked ==
  ASSUME SendInv, NEW s \in Sends, MayRun(s),
         NEW i \in 1..Len(chain), NEW j \in 1..Len(chain), chain[j] = s, i < j
  PROVE  result[chain[i]] = "acked"
  <1>1. chain \in Seq(Sends) /\ Len(chain) \in Nat
    BY DEF SendInv, SendType
  <1>2. j - 1 \in 1..Len(chain) /\ j - 1 \in 1..(Len(chain) - 1) /\ (j - 1) + 1 = j
    BY <1>1
  <1>3. chain[j - 1] \in Before(s)
    BY <1>1, <1>2 DEF Before
  <1>4. result[chain[j - 1]] = "acked"
    BY <1>3 DEF MayRun
  <1>5. i = j - 1 \/ i < j - 1
    BY <1>1
  <1> QED
    BY <1>2, <1>4, <1>5 DEF SendInv, ChainInv

LEMMA WriteKeeps ==
  ASSUME SendInv, ConnectionInv, NEW s \in Sends, Write(s)
  PROVE  SendInv' /\ (pendingAck' # pendingAck => connected)
  <1>1. /\ result[s] = "queued" /\ s \notin written /\ pendingAck # s
        /\ UNCHANGED <<chain, acked, outcome>>
    BY DEF Write, MayRun, SendInv, FateInv, PendingInv
  <1>2. \A i, j \in 1..Len(chain) : chain[j] = s /\ i < j => result[chain[i]] = "acked"
    BY AllBeforeAcked DEF Write
  <1>3. CASE ~ IsConnected
    <2>1. result' = [result EXCEPT ![s] = "not connected"] /\ UNCHANGED <<pendingAck, wire, written>>
      BY <1>3 DEF Write
    <2>2. /\ result' \in [Sends -> Results]
          /\ \A p \in Sends : result'[p] = IF p = s THEN "not connected" ELSE result[p]
      BY <2>1, OneResult DEF Results, Rejections
    <2>3. SendType'
      BY <1>1, <2>1, <2>2 DEF SendInv, SendType
    <2>4. PendingInv'
      BY <1>1, <2>1, <2>2 DEF SendInv, PendingInv
    <2>5. FateInv'
      BY <1>1, <2>1, <2>2 DEF SendInv, FateInv
    <2>6. ChainInv'
      <3>1. "not connected" \in Results \ {"none", "queued"}
        BY DEF Results, Rejections
      <3> QED
        BY <1>1, <1>2, <2>2, <3>1, ChainKept
    <2>7. FrameInv'
      BY <2>1, <2>2, FramesAreSends DEF SendInv, FrameInv
    <2>8. OnceInv'
      BY <2>1, OnceKept DEF SendInv
    <2> QED
      BY <2>1, <2>3, <2>4, <2>5, <2>6, <2>7, <2>8 DEF SendInv
  <1>4. CASE IsConnected
    <2>1. /\ pendingAck' = s /\ wire' = [wire EXCEPT ![socket] = Append(@, s)]
          /\ result' = [result EXCEPT ![s] = "written"] /\ written' = written \cup {s}
      BY <1>4 DEF Write
    <2>2. /\ result' \in [Sends -> Results]
          /\ \A p \in Sends : result'[p] = IF p = s THEN "written" ELSE result[p]
      BY <2>1, OneResult DEF Results
    <2>3. socket \in Sockets /\ connected
      BY <1>4 DEF IsConnected, ConnectionInv, ConnectionType
    <2>4. /\ wire' \in [Sockets -> Seq(Sends)]
          /\ \A v \in Sockets : \A i \in 1..Len(wire'[v]) :
               \/ wire'[v][i] = s
               \/ /\ wire'[v][i] \in Sends
                  /\ wire'[v][i] \in written /\ result[wire'[v][i]] # "acked"
          /\ OnceInv'
      BY <1>1, <2>1, <2>3, FramePut
    <2>5. SendType'
      BY <1>1, <2>1, <2>2, <2>4 DEF SendInv, SendType
    <2>6. PendingInv'
      <3>1. \A p \in Sends : result[p] # "written"
        <4> SUFFICES ASSUME NEW p \in Sends, result[p] = "written"
                     PROVE  FALSE
          OBVIOUS
        <4>1. p # s
          BY <1>1
        <4>2. PICK i \in 1..Len(chain) : chain[i] = p
          BY DEF SendInv, ChainInv
        <4>3. PICK j \in 1..Len(chain) : chain[j] = s
          BY <1>1 DEF SendInv, ChainInv
        <4>4. chain \in Seq(Sends)
          BY DEF SendInv, SendType
        <4>5. CASE i < j
          BY <1>2, <4>2, <4>3, <4>5
        <4>6. CASE j < i
          BY <1>1, <4>2, <4>3, <4>6 DEF SendInv, ChainInv
        <4> QED
          BY <4>1, <4>2, <4>3, <4>4, <4>5, <4>6
      <3> QED
        BY <2>1, <2>2, <3>1 DEF PendingInv
    <2>7. FateInv'
      BY <1>1, <2>1, <2>2 DEF SendInv, FateInv
    <2>8. ChainInv'
      <3>1. "written" \in Results \ {"none", "queued"} /\ "written" \notin Rejections
        BY DEF Results, Rejections
      <3> QED
        BY <1>1, <1>2, <2>2, <3>1, ChainKept
    <2>9. FrameInv'
      BY <2>1, <2>2, <2>4 DEF FrameInv
    <2> QED
      BY <2>3, <2>4, <2>5, <2>6, <2>7, <2>8, <2>9 DEF SendInv
  <1> QED
    BY <1>3, <1>4

LEMMA PassOnKeeps ==
  ASSUME SendInv, NEW s \in Sends, PassOn(s)
  PROVE  SendInv' /\ pendingAck' = pendingAck
  <1>1. PICK p \in Before(s) : Rejected(p) /\ result' = [result EXCEPT ![s] = result[p]]
    BY DEF PassOn
  <1>2. /\ result[s] = "queued" /\ s \notin written /\ pendingAck # s
        /\ UNCHANGED <<chain, pendingAck, acked, wire, outcome, written>>
    BY DEF PassOn, SendInv, FateInv, PendingInv
  <1>3. PICK k \in 1..(Len(chain) - 1) : chain[k] = p /\ chain[k + 1] = s
    BY <1>1 DEF Before
  <1>4. chain \in Seq(Sends) /\ k \in 1..Len(chain) /\ k + 1 \in 1..Len(chain) /\ p \in Sends
    BY <1>1, <1>3 DEF SendInv, SendType, Before
  <1> DEFINE x == result[p]
  <1>5. x \in Rejections /\ x \in Results \ {"none", "queued"}
    BY <1>1 DEF Rejected, Rejections, Results
  <1>6. result' = [result EXCEPT ![s] = x]
    BY <1>1
  <1>7. ASSUME NEW i \in 1..Len(chain), NEW j \in 1..Len(chain), chain[j] = s, i < j
        PROVE  result[chain[i]] = "acked" \/ Rejected(chain[i])
    <2>1. j = k + 1
      BY <1>3, <1>4, <1>7 DEF SendInv, ChainInv
    <2>2. i = k \/ i < k
      BY <1>4, <1>7, <2>1
    <2>3. CASE i < k
      BY <1>1, <1>3, <1>4, <2>3 DEF SendInv, ChainInv
    <2> QED
      BY <1>1, <1>3, <2>2, <2>3
  <1> HIDE DEF x
  <1>8. /\ result' \in [Sends -> Results]
        /\ \A q \in Sends : result'[q] = IF q = s THEN x ELSE result[q]
    BY <1>5, <1>6, OneResult
  <1>9. SendType'
    BY <1>2, <1>8 DEF SendInv, SendType
  <1>10. PendingInv'
    BY <1>2, <1>5, <1>8 DEF SendInv, PendingInv, Rejections
  <1>11. FateInv'
    <2> SUFFICES ASSUME NEW q \in Sends
                 PROVE  /\ outcome'[q] = "none" => result'[q] = "none"
                        /\ outcome'[q] = "http" => result'[q] \in {"none", "not connected"}
                        /\ outcome'[q] = "ws" => result'[q] = "acked"
                        /\ result'[q] = "acked" => acked'[q] = q
                        /\ q \in written' =>
                              result'[q] \in {"written", "acked", "timed out", "socket closed"}
      BY DEF FateInv
    <2>1. CASE q = s
      BY <1>2, <1>5, <1>8, <2>1 DEF SendInv, FateInv, Rejections
    <2>2. CASE q # s
      BY <1>2, <1>8, <2>2 DEF SendInv, FateInv
    <2> QED
      BY <2>1, <2>2
  <1>12. ChainInv'
    BY <1>2, <1>5, <1>7, <1>8, ChainKept DEF Rejections
  <1>13. FrameInv'
    BY <1>2, <1>5, <1>8, FramesAreSends DEF SendInv, FrameInv, Rejections
  <1>14. OnceInv'
    BY <1>2, OnceKept DEF SendInv
  <1> QED
    BY <1>2, <1>9, <1>10, <1>11, <1>12, <1>13, <1>14 DEF SendInv
LEMMA WaitEnds ==
  ASSUME SendInv, NEW s \in Sends, Timeout(s) \/ WriteFails(s)
  PROVE  SendInv' /\ pendingAck' = None
  <1>1. \E x \in {"timed out", "socket closed"} : result' = [result EXCEPT ![s] = x]
    BY DEF Timeout, WriteFails
  <1>2. PICK x \in {"timed out", "socket closed"} : result' = [result EXCEPT ![s] = x]
    BY <1>1
  <1>3. /\ result[s] = "written" /\ pendingAck' = None
        /\ UNCHANGED <<chain, acked, wire, outcome, written>>
    BY DEF Timeout, WriteFails, SendInv, PendingInv
  <1>4. x \in Results
    BY DEF Results, Rejections
  <1>5. /\ result' \in [Sends -> Results]
        /\ \A p \in Sends : result'[p] = IF p = s THEN x ELSE result[p]
    BY <1>2, <1>4, OneResult
  <1> QED
    BY <1>3, <1>5, RejectionKeeps

LEMMA AckArrivesKeeps ==
  ASSUME SendInv, NEW w \in Sockets, AckArrives(w)
  PROVE  SendInv' /\ pendingAck' = None
  <1>1. /\ wire[w] # << >> /\ wire' = [wire EXCEPT ![w] = Tail(@)]
        /\ pendingAck' = None /\ UNCHANGED <<chain, outcome, written>>
    BY DEF AckArrives
  <1>2. /\ wire' \in [Sockets -> Seq(Sends)]
        /\ \A v \in Sockets : \A i \in 1..Len(wire'[v]) :
              /\ wire'[v][i] \in Sends /\ wire'[v][i] # Head(wire[w])
              /\ wire'[v][i] \in written /\ result[wire'[v][i]] # "acked"
        /\ OnceInv'
    BY <1>1, FrameTaken
  <1>3. CASE pendingAck = None
    <2>1. result' = result /\ acked' = acked /\ pendingAck' = pendingAck
      BY <1>1, <1>3 DEF AckArrives
    <2>2. SendType'
      BY <1>1, <1>2, <2>1 DEF SendInv, SendType
    <2>3. PendingInv' /\ FateInv'
      BY <1>1, <2>1 DEF SendInv, PendingInv, FateInv
    <2>4. ChainInv'
      BY <1>1, <2>1 DEF SendInv, ChainInv, Rejected
    <2>5. FrameInv'
      BY <1>1, <1>2, <2>1 DEF FrameInv
    <2> QED
      BY <1>1, <1>2, <2>2, <2>3, <2>4, <2>5 DEF SendInv
  <1>4. CASE pendingAck # None
    <2> DEFINE s == pendingAck
    <2>1. s \in Sends /\ result[s] = "written" /\ Head(wire[w]) = s
      BY <1>1, <1>4, FrameIsPending DEF SendInv, SendType, PendingInv
    <2>2. result' = [result EXCEPT ![s] = "acked"] /\ acked' = [acked EXCEPT ![s] = s]
      BY <1>4, <2>1 DEF AckArrives
    <2>3. \A p \in Sends : result[p] = "written" => p = s
      BY DEF SendInv, PendingInv
    <2> HIDE DEF s
    <2>4. /\ result' \in [Sends -> Results]
          /\ \A p \in Sends : result'[p] = IF p = s THEN "acked" ELSE result[p]
      BY <2>1, <2>2, OneResult DEF Results
    <2>5. SendType'
      BY <1>1, <1>2, <2>1, <2>2, <2>4 DEF SendInv, SendType
    <2>6. PendingInv'
      BY <1>1, <2>3, <2>4, NoneIsNoSend DEF PendingInv
    <2>7. FateInv'
      BY <1>1, <2>1, <2>2, <2>4 DEF SendInv, SendType, FateInv
    <2>8. ChainInv'
      <3>1. "acked" \in Results \ {"none", "queued"} /\ "acked" \notin Rejections
        BY DEF Results, Rejections
      <3>2. ASSUME NEW i \in 1..Len(chain), NEW j \in 1..Len(chain), chain[j] = s, i < j
            PROVE  result[chain[i]] = "acked"
        BY <2>1, <3>2 DEF SendInv, ChainInv
      <3> QED
        BY <1>1, <2>1, <2>4, <3>1, <3>2, ChainKept
    <2>9. FrameInv'
      <3> SUFFICES ASSUME NEW v \in Sockets, NEW i \in 1..Len(wire'[v])
                   PROVE  wire'[v][i] \in written' /\ result'[wire'[v][i]] # "acked"
        BY DEF FrameInv
      <3>1. /\ wire'[v][i] \in Sends /\ wire'[v][i] # s
            /\ wire'[v][i] \in written /\ result[wire'[v][i]] # "acked"
        BY <1>2, <2>1
      <3> QED
        BY <1>1, <2>4, <3>1
    <2> QED
      BY <1>1, <1>2, <2>5, <2>6, <2>7, <2>8, <2>9 DEF SendInv
  <1> QED
    BY <1>3, <1>4

LEMMA ErrorArrivesKeeps ==
  ASSUME SendInv, NEW w \in Sockets, ErrorArrives(w)
  PROVE  SendInv' /\ pendingAck' = pendingAck
  <1>1. /\ wire[w] # << >> /\ wire' = [wire EXCEPT ![w] = Tail(@)]
        /\ UNCHANGED <<chain, result, pendingAck, acked, outcome, written>>
    BY DEF ErrorArrives
  <1>2. /\ wire' \in [Sockets -> Seq(Sends)]
        /\ \A v \in Sockets : \A i \in 1..Len(wire'[v]) :
              wire'[v][i] \in written /\ result[wire'[v][i]] # "acked"
        /\ OnceInv'
    BY <1>1, FrameTaken
  <1>3. SendType'
    BY <1>1, <1>2 DEF SendInv, SendType
  <1>4. PendingInv' /\ FateInv'
    BY <1>1 DEF SendInv, PendingInv, FateInv
  <1>5. ChainInv'
    BY <1>1 DEF SendInv, ChainInv, Rejected
  <1>6. FrameInv'
    BY <1>1, <1>2 DEF FrameInv
  <1> QED
    BY <1>1, <1>2, <1>3, <1>4, <1>5, <1>6 DEF SendInv

LEMMA SettleKeeps ==
  ASSUME SendInv, NEW s \in Sends, Settle(s)
  PROVE  SendInv' /\ pendingAck' = pendingAck
  <1> DEFINE x == IF result[s] = "acked" THEN "ws" ELSE IF Falls(s) THEN "http" ELSE "error"
  <1>1. /\ outcome[s] = "waiting" /\ outcome' = [outcome EXCEPT ![s] = x]
        /\ UNCHANGED <<chain, result, pendingAck, acked, wire, written>>
    BY DEF Settle
  <1>2. /\ x \in {"ws", "http", "error"}
        /\ x = "ws" => result[s] = "acked"
        /\ x = "http" => result[s] = "not connected"
    BY DEF Falls
  <1> HIDE DEF x
  <1>3. SendType'
    BY <1>1, <1>2 DEF SendInv, SendType
  <1>4. PendingInv' /\ FrameInv'
    BY <1>1 DEF SendInv, PendingInv, FrameInv
  <1>5. ChainInv'
    BY <1>1 DEF SendInv, ChainInv, Rejected
  <1>6. FateInv'
    BY <1>1, <1>2 DEF SendInv, SendType, FateInv
  <1>7. OnceInv'
    BY <1>1, OnceKept DEF SendInv
  <1> QED
    BY <1>1, <1>3, <1>4, <1>5, <1>6, <1>7 DEF SendInv
-----------------------------------------------------------------------------
(* The whole invariant                                                     *)

LEMMA Initially == Init => MonitorInv
  <1> SUFFICES ASSUME Init PROVE MonitorInv
    OBVIOUS
  <1>1. ConnectionType
    BY DEF Init, ConnectionType, At, States, Places
  <1>2. SocketInv /\ EndInv
    <2>1. Closable(ws) = {}
      BY DEF Init, Closable
    <2>2. loop.at = "delay" /\ \A c \in Callers : stops[c].at = "idle"
      BY AtIs DEF Init
    <2> QED
      BY <2>1, <2>2 DEF SocketInv, EndInv
  <1>3. SendType
    BY DEF Init, SendType, Results
  <1>4. PendingInv /\ FateInv
    BY NoneIsNoSend DEF Init, PendingInv, FateInv
  <1>5. ChainInv
    BY DEF Init, ChainInv
  <1>6. FrameInv /\ OnceInv
    BY DEF Init, FrameInv, OnceInv
  <1> QED
    BY <1>1, <1>2, <1>3, <1>4, <1>5, <1>6 DEF MonitorInv, SendInv

LEMMA ConnectionStepKeeps ==
  ASSUME MonitorInv, ConnectionStep
  PROVE  MonitorInv'
  <1>1. ConnectionInv /\ SendInv /\ EndInv
    BY DEF MonitorInv, ConnectionInv
  <1>2. CASE Attempt
    <2>1. ConnectionInv' /\ SendInv'
      BY <1>1, <1>2, AttemptKeeps, IdleKeeps DEF Attempt
    <2>2. loop'.at \in {"closing", "opening"}
      BY <1>2, AtIs DEF Attempt, Open
    <2> QED
      BY <2>1, <2>2 DEF MonitorInv, ConnectionInv, EndInv
  <1>3. CASE LeaveLoop
    <2>1. ConnectionInv' /\ SendInv' /\ pendingAck' = None
      BY <1>1, <1>3, LeaveLoopKeeps, ClearPendingAckKeeps DEF LeaveLoop
    <2> QED
      BY <2>1 DEF MonitorInv, ConnectionInv, EndInv
  <1>4. ASSUME NEW w \in Sockets, Opened(w) \/ AuthOk(w)
        PROVE  MonitorInv'
    <2>1. ConnectionInv' /\ SendInv'
      BY <1>1, <1>4, OpenedKeeps, AuthOkKeeps, IdleKeeps DEF Opened, AuthOk
    <2>2. loop'.at \in {"authing", "serving"}
      BY <1>4, AtIs DEF Opened, AuthOk
    <2> QED
      BY <2>1, <2>2 DEF MonitorInv, ConnectionInv, EndInv
  <1>5. ASSUME NEW w \in Sockets, AuthFails(w)
        PROVE  MonitorInv'
    <2>1. stopRequested \in BOOLEAN /\ ConnectionType
      BY <1>1 DEF ConnectionInv, ConnectionType
    <2>2. ConnectionInv' /\ SendInv' /\ (stopRequested => pendingAck' = None)
      BY <1>1, <1>5, <2>1, AuthFailsKeeps, ClearPendingAckKeeps DEF AuthFails
    <2>3. stopRequested \/ loop'.at = "delay"
      BY <1>5, AtIs DEF AuthFails, EndAttempt
    <2> QED
      BY <2>2, <2>3 DEF MonitorInv, ConnectionInv, EndInv
  <1>6. ASSUME NEW w \in Sockets, PeerCloses(w)
        PROVE  MonitorInv'
    <2>1. ConnectionInv' /\ SendInv'
      BY <1>1, <1>6, PeerClosesKeeps, IdleKeeps DEF PeerCloses
    <2>2. EndInv'
      BY <1>1, <1>6 DEF PeerCloses, EndInv, sending
    <2> QED
      BY <2>1, <2>2 DEF MonitorInv, ConnectionInv
  <1>7. ASSUME NEW w \in Sockets, Closed(w)
        PROVE  MonitorInv'
    <2> DEFINE ends == loop.on = w /\ loop.at \in {"opening", "authing", "serving"}
               clear == w \in attached \/ (ends /\ stopRequested)
    <2>1. /\ clear \in BOOLEAN /\ ClearPendingAck(clear)
          /\ UNCHANGED <<chain, acked, wire, outcome, written>>
      BY <1>7 DEF Closed
    <2>2. /\ SendInv' /\ (clear => pendingAck' = None)
          /\ (pendingAck = None => pendingAck' = None)
      <3> HIDE DEF clear
      <3> QED
        BY <1>1, <2>1, ClearPendingAckKeeps
    <2>3. ConnectionInv'
      BY <1>1, <1>7, ClosedKeeps
    <2>4. \/ ends /\ stopRequested
          \/ loop'.at \in {"delay", "opening"}
          \/ loop.at = "ending"
          \/ loop' = loop
      BY <1>7, AtIs DEF Closed, EndAttempt, Open
    <2>5. EndInv'
      BY <1>1, <2>2, <2>4 DEF EndInv
    <2> QED
      BY <2>2, <2>3, <2>5 DEF MonitorInv, ConnectionInv
  <1>8. ASSUME NEW c \in Callers, Stop(c) \/ StopReturns(c)
        PROVE  MonitorInv'
    <2>1. ConnectionInv' /\ SendInv'
      BY <1>1, <1>8, StopKeeps, StopReturnsKeeps, IdleKeeps DEF Stop, StopReturns
    <2>2. EndInv'
      BY <1>1, <1>8 DEF Stop, StopReturns, EndInv, sending
    <2> QED
      BY <2>1, <2>2 DEF MonitorInv, ConnectionInv
  <1> QED
    BY <1>2, <1>3, <1>4, <1>5, <1>6, <1>7, <1>8 DEF ConnectionStep

LEMMA SendStepKeeps ==
  ASSUME MonitorInv, SendStep
  PROVE  MonitorInv'
  <1>1. ConnectionInv /\ SendInv /\ EndInv
    BY DEF MonitorInv, ConnectionInv
  <1>2. SendInv' /\ (pendingAck' \in {None, pendingAck} \/ connected)
    <2>1. CASE \E s \in Sends :
                  Send(s) \/ Write(s) \/ PassOn(s) \/ Timeout(s) \/ WriteFails(s) \/ Settle(s)
      BY <1>1, <2>1, SendKeeps, WriteKeeps, PassOnKeeps, WaitEnds, SettleKeeps
    <2>2. CASE \E w \in Sockets : AckArrives(w) \/ ErrorArrives(w)
      BY <1>1, <2>2, AckArrivesKeeps, ErrorArrivesKeeps
    <2> QED
      BY <2>1, <2>2 DEF SendStep
  <1>3. UNCHANGED connection
    BY DEF SendStep, Send, Write, PassOn, Timeout, WriteFails, Settle, AckArrives, ErrorArrives
  <1>4. ConnectionType' /\ SocketInv'
    BY <1>1, <1>3 DEF connection, ConnectionInv, ConnectionType, SocketInv, Closable
  <1>5. EndInv'
    BY <1>1, <1>2, <1>3 DEF connection, ConnectionInv, SocketInv, EndInv
  <1> QED
    BY <1>2, <1>4, <1>5 DEF MonitorInv

LEMMA Inductive == Spec => []MonitorInv
  <1>1. MonitorInv /\ [Next]_vars => MonitorInv'
    <2> SUFFICES ASSUME MonitorInv, [Next]_vars PROVE MonitorInv'
      OBVIOUS
    <2>1. CASE UNCHANGED vars
      <3>1. UNCHANGED sending /\ UNCHANGED connection
        BY <2>1 DEF vars, sending, connection
      <3>2. SendInv'
        BY <3>1, IdleKeeps DEF MonitorInv
      <3>3. ConnectionType' /\ SocketInv' /\ EndInv'
        BY <3>1 DEF connection, sending, MonitorInv, ConnectionType, SocketInv, EndInv, Closable
      <3> QED
        BY <3>2, <3>3 DEF MonitorInv
    <2> QED
      BY <2>1, ConnectionStepKeeps, SendStepKeeps DEF Next
  <1> QED
    BY <1>1, Initially, PTL DEF Spec
-----------------------------------------------------------------------------
(* Every variable keeps its type, and the send whose acknowledgement is    *)
(* awaited is one that was written and is not settled.                     *)
THEOREM TypeCorrect == Spec => []TypeOK
  <1>1. MonitorInv => TypeOK
    <2> SUFFICES ASSUME MonitorInv PROVE TypeOK
      OBVIOUS
    <2>1. SendInv /\ ConnectionType
      BY DEF MonitorInv
    <2>2. pendingAck # None => result[pendingAck] = "written"
      BY <2>1 DEF SendInv, SendType, PendingInv
    <2> QED
      BY <2>1, <2>2, FramesAreSends DEF TypeOK, ConnectionType, SendInv, SendType, Results
  <1> QED
    BY <1>1, Inductive, PTL

(* A message that sendText reports as delivered was acknowledged by the    *)
(* broker itself, although any message.ack resolves the pending promise:   *)
(* the chain has one message at a time on the wires that can be answered.  *)
THEOREM AcksMatch == Spec => []AckMatchesSend
  <1>1. MonitorInv => AckMatchesSend
    BY DEF MonitorInv, SendInv, FateInv, AckMatchesSend
  <1> QED
    BY <1>1, Inductive, PTL

(* What was written to a socket is never sent again over HTTP.             *)
THEOREM NothingSentTwice == Spec => []NeverSentTwice
  <1>1. MonitorInv => NeverSentTwice
    BY DEF MonitorInv, SendInv, SendType, FateInv, NeverSentTwice
  <1> QED
    BY <1>1, Inductive, PTL

(* However connectLoop, the close events and any number of calls of stop() *)
(* interleave, at most one socket is open or being opened.                 *)
THEOREM SocketsDoNotOverlap == Spec => []OneSocket
  <1>1. MonitorInv => OneSocket
    BY DEF MonitorInv, SocketInv, OneSocket
  <1> QED
    BY <1>1, Inductive, PTL

(* When a call of stop() has returned, the plugin holds no socket and      *)
(* nothing waits for an acknowledgement.                                   *)
THEOREM StopCloses == Spec => []StoppedIsClosed
  <1>1. MonitorInv => StoppedIsClosed
    <2> SUFFICES ASSUME MonitorInv, NEW c \in Callers, stops[c].at = "done"
                 PROVE  Closable(ws) = {} /\ ~ connected /\ pendingAck = None
      BY DEF StoppedIsClosed
    <2>1. loop.at = "ended" /\ socket = None
      BY DEF MonitorInv, SocketInv
    <2> QED
      BY <2>1, NoneIsNoSocket DEF MonitorInv, SocketInv, EndInv, Closable
  <1> QED
    BY <1>1, Inductive, PTL-----------------------------------------------------------------------------
(* The chain of sends                                                      *)

(* sendQueue (monitor.ts) is one chain of promises: once one send of it    *)
(* has failed, no frame is written by any later one, on this socket or on  *)
(* those that follow.                                                      *)
NothingAfterAFailure == [][\A s \in Sends : Rejected(s) => written' = written]_vars

(* A send behind a failed one never runs, and one before it has ended.     *)
LEMMA FailureBars ==
  ASSUME SendInv, NEW s \in Sends, Rejected(s), NEW r \in Sends
  PROVE  ~ MayRun(r)
  <1> SUFFICES ASSUME MayRun(r) PROVE FALSE
    OBVIOUS
  <1>1. result[r] = "queued" /\ result[s] # "none" /\ result[s] # "acked"
    BY DEF MayRun, Rejected, Rejections
  <1>2. PICK i \in 1..Len(chain) : chain[i] = s
    BY <1>1 DEF SendInv, ChainInv
  <1>3. PICK j \in 1..Len(chain) : chain[j] = r
    BY <1>1 DEF SendInv, ChainInv
  <1>4. i \in Nat /\ j \in Nat /\ i # j
    <2>1. chain \in Seq(Sends)
      BY DEF SendInv, SendType
    <2>2. result[s] # "queued"
      BY DEF Rejected, Rejections
    <2>3. Len(chain) \in Nat
      BY <2>1
    <2> QED
      BY <1>1, <1>2, <1>3, <2>2, <2>3
  <1>5. CASE i < j
    BY <1>1, <1>2, <1>3, <1>5, AllBeforeAcked
  <1>6. CASE j < i
    <2>1. result[r] = "acked" \/ Rejected(r)
      BY <1>2, <1>3, <1>6 DEF SendInv, ChainInv
    <2> QED
      BY <1>1, <2>1 DEF Rejected, Rejections
  <1> QED
    BY <1>4, <1>5, <1>6

THEOREM FailureStopsTheChain == Spec => NothingAfterAFailure
  <1>1. MonitorInv /\ [Next]_vars => \A s \in Sends : Rejected(s) => written' = written
    <2> SUFFICES ASSUME MonitorInv, [Next]_vars, NEW s \in Sends, Rejected(s)
                 PROVE  written' = written
      OBVIOUS
    <2>1. \A r \in Sends : ~ Write(r)
      BY FailureBars DEF MonitorInv, Write
    <2>2. CASE ConnectionStep
      BY <2>2 DEF ConnectionStep, Attempt, LeaveLoop, Opened, AuthOk, AuthFails, PeerCloses,
         Closed, Stop, StopReturns, sending
    <2>3. CASE SendStep
      BY <2>1, <2>3 DEF SendStep, Send, PassOn, Timeout, WriteFails, Settle, AckArrives, ErrorArrives
    <2> QED
      BY <2>2, <2>3 DEF Next, vars
  <1> QED
    BY <1>1, Inductive, PTL DEF Spec, NothingAfterAFailure

(* A promise settles once and sendText reports once: no late               *)
(* acknowledgement, close event, timer or failed write revises what was    *)
(* acknowledged, rejected or reported before (monitor.ts, outbound.ts).    *)
SettledForGood ==
    [][\A s \in Sends :
          /\ result[s] = "acked" \/ Rejected(s) => result'[s] = result[s] /\ acked'[s] = acked[s]
          /\ outcome[s] \in {"ws", "http", "error"} => outcome'[s] = outcome[s]]_vars

Kept(s) == result'[s] = result[s] /\ acked'[s] = acked[s]

LEMMA RejectedStay ==
  ASSUME SendInv, NEW s \in Sends, result[s] # "written", NEW clear \in BOOLEAN,
         ClearPendingAck(clear)
  PROVE  result'[s] = result[s]
  <1>1. pendingAck # s
    BY DEF SendInv, PendingInv
  <1> QED
    BY <1>1 DEF ClearPendingAck

THEOREM SettledStays == Spec => SettledForGood
  <1>1. MonitorInv /\ [Next]_vars =>
          \A s \in Sends :
            /\ result[s] = "acked" \/ Rejected(s) => Kept(s)
            /\ outcome[s] \in {"ws", "http", "error"} => outcome'[s] = outcome[s]
    <2> SUFFICES ASSUME MonitorInv, [Next]_vars, NEW s \in Sends
                 PROVE  /\ result[s] = "acked" \/ Rejected(s) => Kept(s)
                        /\ outcome[s] \in {"ws", "http", "error"} => outcome'[s] = outcome[s]
      OBVIOUS
    <2>1. /\ SendInv /\ result \in [Sends -> Results] /\ acked \in [Sends -> Sends \cup {None}]
          /\ outcome \in [Sends -> {"none", "waiting", "ws", "http", "error"}]
      BY DEF MonitorInv, SendInv, SendType
    <2>2. outcome[s] \in {"ws", "http", "error"} => outcome'[s] = outcome[s]
      <3>1. CASE ConnectionStep
        BY <3>1 DEF ConnectionStep, Attempt, LeaveLoop, Opened, AuthOk, AuthFails, PeerCloses,
           Closed, Stop, StopReturns, sending
      <3>2. CASE SendStep
        BY <2>1, <3>2 DEF SendStep, Send, Write, PassOn, Timeout, WriteFails, Settle,
           AckArrives, ErrorArrives
      <3> QED
        BY <3>1, <3>2 DEF Next, vars
    <2>3. ASSUME result[s] = "acked" \/ Rejected(s) PROVE Kept(s)
      <3>1. result[s] \notin {"none", "queued", "written"} /\ pendingAck # s /\ outcome[s] # "none"
        BY <2>1, <2>3 DEF Rejected, Rejections, SendInv, PendingInv, FateInv
      <3>2. CASE ConnectionStep
        <4>1. acked' = acked /\ (UNCHANGED sending \/ \E clear \in BOOLEAN : ClearPendingAck(clear))
          <5>1. CASE LeaveLoop
            BY <5>1 DEF LeaveLoop
          <5>2. CASE \E w \in Sockets : AuthFails(w)
            <6>1. stopRequested \in BOOLEAN
              BY DEF MonitorInv, ConnectionType
            <6> QED
              BY <5>2, <6>1 DEF AuthFails
          <5>3. CASE \E w \in Sockets : Closed(w)
            <6>1. PICK w \in Sockets : Closed(w)
              BY <5>3
            <6> DEFINE clear == \/ w \in attached
                               \/ /\ loop.on = w /\ loop.at \in {"opening", "authing", "serving"}
                                  /\ stopRequested
            <6>2. clear \in BOOLEAN /\ acked' = acked /\ ClearPendingAck(clear)
              BY <6>1 DEF Closed
            <6> QED
              BY <6>2
          <5>4. CASE \/ Attempt
                     \/ \E w \in Sockets : Opened(w) \/ AuthOk(w) \/ PeerCloses(w)
                     \/ \E c \in Callers : Stop(c) \/ StopReturns(c)
            BY <5>4 DEF Attempt, Opened, AuthOk, PeerCloses, Stop, StopReturns, sending
          <5> QED
            BY <3>2, <5>1, <5>2, <5>3, <5>4 DEF ConnectionStep
        <4> QED
          BY <2>1, <3>1, <4>1, RejectedStay DEF Kept, sending
      <3>3. CASE \E r \in Sends : Send(r) \/ Write(r) \/ PassOn(r) \/ Settle(r)
        BY <2>1, <3>1, <3>3 DEF Send, Write, MayRun, PassOn, Settle, Kept
      <3>4. CASE \E r \in Sends : Timeout(r) \/ WriteFails(r)
        BY <2>1, <3>1, <3>4 DEF Timeout, WriteFails, Kept
      <3>5. CASE \E w \in Sockets : AckArrives(w) \/ ErrorArrives(w)
        BY <2>1, <3>1, <3>5 DEF AckArrives, ErrorArrives, Kept
      <3>6. CASE UNCHANGED vars
        BY <3>6 DEF vars, Kept
      <3> QED
        BY <3>2, <3>3, <3>4, <3>5, <3>6 DEF Next, SendStep
    <2> QED
      BY <2>2, <2>3
  <1> QED
    BY <1>1, Inductive, PTL DEF Spec, SettledForGood, Kept
=============================================================================
