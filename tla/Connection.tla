----------------------------- MODULE Connection -----------------------------
(***************************************************************************)
(* What keeps the taker connected and tells the app about it: the task of  *)
(* connection::spawn that dials the maker, the task of run() that reports  *)
(* the state of the channel every five seconds, the event stream to the    *)
(* app, and ChannelChangeNotifier, which the stream and a returning        *)
(* open_channel call both write.                                           *)
(*                                                                         *)
(* The socket, the peer manager and the channel manager are LDK's.         *)
(***************************************************************************)
EXTENDS Naturals, Sequences

CONSTANTS
    Unknown,        \* the app's channel state before the first event
    MaxBacklog      \* bound: channel events on their way to the app

ASSUME ConstantsAssumption ==
    /\ MaxBacklog \in Nat \ {0}
    /\ Unknown \notin {"Unavailable", "Establishing", "Available", "Disconnected"}

ChannelStates == {"Unavailable", "Establishing", "Available", "Disconnected"}

VARIABLES
    task,           \* where the keep-alive task stands
    socket,         \* its TCP connection; "closed" completes closed_future
    peer,           \* whether the peer manager lists the maker
    reachable,      \* whether the network carries packets to the maker
    channel,        \* the first channel of the channel manager
    opening,        \* open_channel: not called, awaited, or channel created
    stream,         \* channel events sent, not yet received by the app
    shown           \* ChannelChangeNotifier.state

conn == <<task, socket, peer, reachable>>
app == <<opening, stream, shown>>
vars == <<conn, channel, app>>

Init ==
    /\ task = "dial" /\ socket = "none" /\ peer = FALSE /\ reachable = TRUE
    /\ channel \in {"none", "ready"} /\ opening = "no"
    /\ stream = <<>> /\ shown = Unknown

(***************************************************************************)
(* connection::spawn                                                       *)
(***************************************************************************)
\* Mutant: an old socket that was not cleared keeps the task from dialling.
DialFresh ==
    /\ task = "dial" /\ socket = "none"
    /\ reachable
    /\ task' = "handshake" /\ socket' = "open"
    /\ UNCHANGED <<peer, reachable, channel, app>>

\* connect_outbound: a socket, or after a pause another try.
Dial ==
    /\ task = "dial"
    /\ reachable
    /\ task' = "handshake" /\ socket' = "open"
    /\ UNCHANGED <<peer, reachable, channel, app>>

\* Mutant: the socket that is still up is not waited for.
SeeConnectedImpatient ==
    /\ task = "handshake" /\ peer
    /\ task' = "dial"
    /\ UNCHANGED <<socket, peer, reachable, channel, app>>

\* is_connected, looked at every five seconds.
SeeConnected ==
    /\ task = "handshake" /\ peer
    /\ task' = "connected"
    /\ UNCHANGED <<socket, peer, reachable, channel, app>>

\* Otherwise the socket is polled; a closed one ends the task.
SeeHandshakeFailed ==
    /\ task = "handshake" /\ ~peer /\ socket = "closed"
    /\ task' = "returned"
    /\ UNCHANGED <<socket, peer, reachable, channel, app>>

LoseConnection ==
    /\ task = "connected" /\ socket = "closed"
    /\ task' = "dial"
    /\ UNCHANGED <<socket, peer, reachable, channel, app>>

KeepAlive == Dial \/ SeeConnected \/ SeeHandshakeFailed \/ LoseConnection

(***************************************************************************)
(* The network and LDK                                                     *)
(***************************************************************************)
NetworkChanges ==
    /\ reachable' = ~reachable
    /\ UNCHANGED <<task, socket, peer, channel, app>>

Handshake ==
    /\ socket = "open" /\ reachable /\ ~peer
    /\ peer' = TRUE
    /\ UNCHANGED <<task, socket, reachable, channel, app>>

SocketCloses ==
    /\ socket = "open" /\ ~reachable
    /\ socket' = "closed" /\ peer' = FALSE
    /\ UNCHANGED <<task, reachable, channel, app>>

\* create_channel lists the channel before it returns. (One that is there
\* already stays the first.)
ChannelAppears ==
    /\ opening = "awaited" /\ peer
    /\ opening' = "created"
    /\ channel' = IF channel = "none" THEN "pending" ELSE channel
    /\ UNCHANGED <<conn, stream, shown>>

ChannelConfirmed ==
    /\ channel = "pending"
    /\ channel' = "ready"
    /\ UNCHANGED <<conn, app>>

\* Closed, or given up before it was funded.
ChannelCloses ==
    /\ channel # "none"
    /\ channel' = "none"
    /\ UNCHANGED <<conn, app>>

(***************************************************************************)
(* The app and the channel state task                                      *)
(***************************************************************************)
\* Mutant: what is neither usable nor ready is passed on unmapped.
ChannelStateRaw ==
    CASE channel = "none" -> "Unavailable"
      [] channel = "ready" -> IF peer THEN "Available" ELSE "Disconnected"
      [] OTHER -> channel

ChannelState ==
    CASE channel = "none" -> "Unavailable"
      [] channel = "ready" /\ peer -> "Available"
      [] channel = "ready" /\ ~peer -> "Disconnected"
      [] channel = "pending" -> "Establishing"

ReportChannelState ==
    /\ Len(stream) < MaxBacklog
    /\ stream' = Append(stream, ChannelState)
    /\ UNCHANGED <<conn, channel, opening, shown>>

\* Mutant: an event that contradicts an opened channel is dropped.
ReceiveUnlessOpening ==
    /\ stream # <<>>
    /\ shown' = IF shown = "Establishing" THEN shown ELSE Head(stream)
    /\ stream' = Tail(stream)
    /\ UNCHANGED <<conn, channel, opening>>

Receive ==
    /\ stream # <<>>
    /\ shown' = Head(stream)
    /\ stream' = Tail(stream)
    /\ UNCHANGED <<conn, channel, opening>>

\* The screen offers to open a channel only when there is none.
OpenChannel ==
    /\ shown = "Unavailable" /\ opening = "no"
    /\ opening' = "awaited"
    /\ UNCHANGED <<conn, channel, stream, shown>>

\* The call has created a channel; the app shows Establishing, whatever has
\* happened to the channel since.
OpenReturns ==
    /\ opening = "created"
    /\ opening' = "no" /\ shown' = "Establishing"
    /\ UNCHANGED <<conn, channel, stream>>

\* Or it gives up with an error, which is only displayed.
OpenFails ==
    /\ opening = "awaited"
    /\ opening' = "no"
    /\ UNCHANGED <<conn, channel, stream, shown>>

Next ==
    \/ KeepAlive
    \/ NetworkChanges \/ Handshake \/ SocketCloses
    \/ ChannelAppears \/ ChannelConfirmed \/ ChannelCloses
    \/ ReportChannelState \/ Receive
    \/ OpenChannel \/ OpenReturns \/ OpenFails

Spec == Init /\ [][Next]_vars

\* The tasks of run() are polled, LDK answers, notices dead sockets, and
\* every open_channel call ends (it gives up after ten minutes).
Fairness ==
    /\ WF_vars(KeepAlive) /\ WF_vars(Handshake) /\ WF_vars(SocketCloses)
    /\ WF_vars(ReportChannelState) /\ WF_vars(Receive)
    /\ WF_vars(OpenReturns) /\ WF_vars(OpenFails)

FairSpec == Spec /\ Fairness

-----------------------------------------------------------------------------
(* Properties *)

\* Every variable has its type.
TypeOK ==
    /\ task \in {"dial", "handshake", "connected", "returned"}
    /\ socket \in {"none", "open", "closed"}
    /\ peer \in BOOLEAN /\ reachable \in BOOLEAN
    /\ opening \in {"no", "awaited", "created"}
    /\ channel \in {"none", "pending", "ready"}
    /\ stream \in Seq(ChannelStates) /\ Len(stream) <= MaxBacklog
    /\ shown \in ChannelStates \cup {Unknown}

\* The task never dials the maker while a socket to it is up, and the peer is
\* listed only while the task watches that socket: a lost peer is noticed.
WatchesItsSocket ==
    /\ task = "dial" => socket # "open"
    /\ peer => task \in {"handshake", "connected"} /\ socket = "open"

\* While the task lives, it gets through to a maker that stays reachable.
Reconnects == <>[]reachable => <>[]peer \/ <>(task = "returned")

\* Whatever overtakes what on the way, the app ends up showing the state the
\* channel is in, and stays there as long as the channel does.
ChannelIsShown ==
    \A state \in ChannelStates :
        <>[](ChannelState = state) => <>[](shown = state)

\* "keep connection with maker alive!", "Retrying in 5 seconds": a maker that
\* stays reachable ends up connected.
KeptAlive == <>[]reachable => <>[]peer
=============================================================================
