-------------------------- MODULE ConnectionProofs --------------------------
(***************************************************************************)
(* The keep-alive task and its socket: proofs of the safety properties of  *)
(* Connection.  The network, LDK and the app may do what they want.        *)
(***************************************************************************)
EXTENDS Connection, TLAPS

USE ConstantsAssumption DEF ConstantsAssumption

\* What is reported is one of the four states of the enum ChannelState.
LEMMA ReportTyped ==
  channel \in {"none", "pending", "ready"} /\ peer \in BOOLEAN
    => ChannelState \in ChannelStates
  BY DEF ChannelState, ChannelStates

\* A FIFO that is not full takes one event, and gives one back.
LEMMA StreamTypes ==
  ASSUME NEW S, NEW s \in Seq(S), NEW n \in Nat, Len(s) <= n
  PROVE  /\ \A e \in S : Len(s) < n =>
              Append(s, e) \in Seq(S) /\ Len(Append(s, e)) <= n
         /\ s # <<>> => /\ Head(s) \in S
                        /\ Tail(s) \in Seq(S) /\ Len(Tail(s)) <= n
  OBVIOUS

\* The task has not dialled and the stream is empty: all is well typed.
LEMMA TypeInit == Init => TypeOK
<1> SUFFICES ASSUME Init PROVE TypeOK
  OBVIOUS
<1>1. stream \in Seq(ChannelStates) /\ Len(stream) <= MaxBacklog
  BY DEF Init
<1> QED
  BY <1>1 DEF Init, TypeOK

\* Every step of the task, the network, LDK and the app keeps the types.
LEMMA TypeStep == TypeOK /\ [Next]_vars => TypeOK'
<1> SUFFICES ASSUME TypeOK, [Next]_vars PROVE TypeOK'
  OBVIOUS
<1> USE DEF TypeOK
<1>1. CASE ReportChannelState
  <2>1. stream' = Append(stream, ChannelState) /\ Len(stream) < MaxBacklog
    BY <1>1 DEF ReportChannelState
  <2>2. stream' \in Seq(ChannelStates) /\ Len(stream') <= MaxBacklog
    BY <2>1, ReportTyped, StreamTypes
  <2>3. UNCHANGED <<conn, channel, opening, shown>>
    BY <1>1 DEF ReportChannelState
  <2> QED
    BY <2>2, <2>3 DEF conn
<1>2. CASE Receive
  <2>1. /\ stream # <<>>
        /\ stream' = Tail(stream) /\ shown' = Head(stream)
    BY <1>2 DEF Receive
  <2>2. /\ stream' \in Seq(ChannelStates) /\ Len(stream') <= MaxBacklog
        /\ shown' \in ChannelStates
    BY <2>1, StreamTypes
  <2>3. UNCHANGED <<conn, channel, opening>>
    BY <1>2 DEF Receive
  <2> QED
    BY <2>2, <2>3 DEF conn
<1>3. CASE KeepAlive \/ NetworkChanges \/ Handshake \/ SocketCloses
  <2>1. /\ task' \in {"dial", "handshake", "connected", "returned"}
        /\ socket' \in {"none", "open", "closed"}
        /\ peer' \in BOOLEAN /\ reachable' \in BOOLEAN
    BY <1>3 DEF KeepAlive, Dial, SeeConnected, SeeHandshakeFailed,
                LoseConnection, NetworkChanges, Handshake, SocketCloses
  <2>2. UNCHANGED <<channel, app>>
    BY <1>3 DEF KeepAlive, Dial, SeeConnected, SeeHandshakeFailed,
                LoseConnection, NetworkChanges, Handshake, SocketCloses
  <2> QED
    BY <2>1, <2>2 DEF app
<1>4. CASE ChannelAppears \/ ChannelConfirmed \/ ChannelCloses
  <2>1. /\ channel' \in {"none", "pending", "ready"}
        /\ opening' \in {"no", "awaited", "created"}
    BY <1>4 DEF ChannelAppears, ChannelConfirmed, ChannelCloses, app
  <2>2. UNCHANGED <<conn, stream, shown>>
    BY <1>4 DEF ChannelAppears, ChannelConfirmed, ChannelCloses, app
  <2> QED
    BY <2>1, <2>2 DEF conn
<1>5. CASE OpenChannel \/ OpenReturns \/ OpenFails
  <2>1. /\ opening' \in {"no", "awaited", "created"}
        /\ shown' \in ChannelStates \cup {Unknown}
    BY <1>5 DEF OpenChannel, OpenReturns, OpenFails, ChannelStates
  <2>2. UNCHANGED <<conn, channel, stream>>
    BY <1>5 DEF OpenChannel, OpenReturns, OpenFails
  <2> QED
    BY <2>1, <2>2 DEF conn
<1>6. CASE UNCHANGED vars
  BY <1>6 DEF vars, conn, app
<1> QED
  BY <1>1, <1>2, <1>3, <1>4, <1>5, <1>6 DEF Next

\* Every behaviour of the connection and the app stays within the types.
THEOREM TypeCorrect == Spec => []TypeOK
<1> QED
  BY TypeInit, TypeStep, PTL DEF Spec

(***************************************************************************)
(* WatchesItsSocket does not say who may leave an open socket behind: that *)
(* the task returns only from a closed one has to be added.                *)
(***************************************************************************)
IInv ==
    /\ TypeOK
    /\ socket = "open" => task \in {"handshake", "connected"}
    /\ peer => socket = "open"

\* The keep-alive task never dials the maker while its socket is up, and a
\* peer LDK lists is always one whose socket the task watches.
THEOREM SocketWatched == Spec => []WatchesItsSocket
<1>1. Init => IInv
  BY TypeInit DEF Init, IInv
<1>2. IInv /\ [Next]_vars => IInv'
  <2> SUFFICES ASSUME IInv, [Next]_vars PROVE IInv'
    OBVIOUS
  <2>1. TypeOK'
    BY TypeStep DEF IInv
  <2>2. CASE KeepAlive
    BY <2>1, <2>2 DEF IInv, TypeOK, KeepAlive, Dial, SeeConnected,
                      SeeHandshakeFailed, LoseConnection
  <2>3. CASE NetworkChanges \/ Handshake \/ SocketCloses
    BY <2>1, <2>3 DEF IInv, TypeOK, NetworkChanges, Handshake, SocketCloses
  <2>4. CASE UNCHANGED conn
    BY <2>1, <2>4 DEF IInv, conn
  <2> QED
    BY <2>2, <2>3, <2>4 DEF Next, vars, ChannelAppears, ChannelConfirmed,
       ChannelCloses, ReportChannelState, Receive, OpenChannel, OpenReturns,
       OpenFails
<1>3. IInv => WatchesItsSocket
  BY DEF IInv, WatchesItsSocket
<1> QED
  BY <1>1, <1>2, <1>3, PTL DEF Spec
=============================================================================
