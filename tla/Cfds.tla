-------------------------------- MODULE Cfds --------------------------------
(***************************************************************************)
(* CFDs on the taker: the cfd table, the calls open_cfd and settle_cfd     *)
(* that write it (one bridge thread per call), the screens and the list of *)
(* the app that start them, and the maker's event thread, which has to     *)
(* answer while a custom output is added to the channel.                   *)
(*                                                                         *)
(* Both calls first ask LDK to change the channel, which answers before    *)
(* the protocol with the maker has run, and then write the table.          *)
(*                                                                         *)
(* LDK (the fork with custom outputs) is not part of the repository.  It   *)
(* is modelled by the calls, errors and events the code handles: changes   *)
(* of the channel that were not completed are lost with the connection.    *)
(***************************************************************************)
EXTENDS Naturals, Sequences

CONSTANTS
    Output,         \* custom outputs the channel may get
    Openers,        \* bridge threads that run open_cfd
    Screens,        \* CfdOrderDetail pages, each with its settle_cfd call
    Timer,          \* the periodic refresh of CfdTradingChangeNotifier
    Null,           \* absent row, idle thread, SQL NULL, no offer
    Offers,         \* offers of the maker: prices it buys (bid) and sells at
    MaxDbErrors,    \* bound: failing SQL statements
    MaxDrops,       \* bound: lost connections
    MaxCrashes      \* bound: times the app is killed and started again

ASSUME ConstantsAssumption ==
    /\ Offers \subseteq [bid : Nat, ask : Nat]
    /\ {MaxDbErrors, MaxDrops, MaxCrashes} \subseteq Nat
    /\ Timer \notin Openers \cup Screens /\ Openers \cap Screens = {}

Positions == {"Long", "Short"}
Readers == Openers \cup Screens \cup {Timer}

\* The columns the life cycle depends on; price is close_price.
Row == [position : Positions, state : {"Open", "Closed"},
        price : Nat \cup {Null}]
List == [Output -> Row \cup {Null}]

ASSUME NullAssumption ==
    Null \notin Nat /\ Null \notin Row /\ Null \notin Offers /\ Null \notin List

VARIABLES
    cfds,           \* the cfd table, keyed by the UNIQUE custom_output_id
    opener,         \* per open_cfd call: where it stands
    screen,         \* per detail page: what it shows, where its call stands
    list,           \* the cfds of CfdTradingChangeNotifier
    reply,          \* per refreshCfdList call: the rows read, not yet shown
    offer,          \* the last offer the app was told
    output,         \* LDK: the state of each custom output
    settlement,     \* LDK: closing price of the last accepted removal
    link,           \* LDK: whether maker and taker are connected
    makerQueue,     \* events the maker's LDK has raised
    makerAlive,     \* whether the maker's event thread still runs
    agreed,         \* history: closing prices of all accepted removals
    dbErrors, drops, crashes

app == <<opener, screen, list, reply, offer>>
ldk == <<output, settlement, agreed, link>>
maker == <<makerQueue, makerAlive>>
bounds == <<dbErrors, drops, crashes>>
vars == <<cfds, app, ldk, maker, bounds>>

IdleOpener == [pc |-> "idle", output |-> Null, position |-> Null]
NoScreen == [pc |-> "closed", output |-> Null, cfd |-> Null, price |-> Null]
EmptyList == [o \in Output |-> Null]
MakerEvent == [type : {"RemoteSentAddCustomOutput",
                       "RemoteSentCustomOutputCommitmentSignature"},
               output : Output]

Init ==
    /\ cfds = EmptyList
    /\ opener = [c \in Openers |-> IdleOpener]
    /\ screen = [s \in Screens |-> NoScreen]
    /\ list = EmptyList /\ reply = [r \in Readers |-> Null] /\ offer = Null
    /\ output = [o \in Output |-> "unused"]
    /\ settlement = [o \in Output |-> Null]
    /\ agreed = [o \in Output |-> {}]
    /\ link = TRUE
    /\ makerQueue = <<>> /\ makerAlive = TRUE
    /\ dbErrors = 0 /\ drops = 0 /\ crashes = 0

DbWorks == UNCHANGED dbErrors
DbFails == dbErrors < MaxDbErrors /\ dbErrors' = dbErrors + 1

Raise(type, o) == makerQueue' = Append(makerQueue, [type |-> type, output |-> o])

(***************************************************************************)
(* open_cfd                                                                *)
(***************************************************************************)
\* Mutant: two columns bound in the wrong order.
NewCfdSwapped(position) ==
    [position |-> "Open", state |-> position, price |-> Null]

NewCfd(position) == [position |-> position, state |-> "Open", price |-> Null]

\* add_custom_output is accepted. (Without a channel, or when LDK refuses,
\* the call returns an error and nothing has changed.)
AddOutput(c, o, position) ==
    /\ opener[c].pc = "idle"
    /\ link /\ output[o] = "unused"
    /\ output' = [output EXCEPT ![o] = "requested"]
    /\ Raise("RemoteSentAddCustomOutput", o)
    /\ opener' = [opener EXCEPT ![c] =
                    [pc |-> "insert", output |-> o, position |-> position]]
    /\ UNCHANGED <<cfds, screen, list, reply, offer, settlement, agreed, link,
                   makerAlive, bounds>>

\* Mutant: the row is only written while the maker is connected.
InsertCfdOnline(c) ==
    /\ opener[c].pc = "insert"
    /\ DbWorks
    /\ IF link
       THEN /\ cfds' = [cfds EXCEPT ![opener[c].output] = NewCfd(opener[c].position)]
            /\ opener' = [opener EXCEPT ![c].pc = "refresh"]
       ELSE /\ opener' = [opener EXCEPT ![c] = IdleOpener]
            /\ UNCHANGED cfds
    /\ UNCHANGED <<screen, list, reply, offer, ldk, maker, drops, crashes>>

\* insert_cfd. The pool or the statement may fail; the error is shown and the
\* list is not refreshed.
InsertCfd(c) ==
    /\ opener[c].pc = "insert"
    /\ \/ /\ DbWorks
          /\ cfds' = [cfds EXCEPT ![opener[c].output] = NewCfd(opener[c].position)]
          /\ opener' = [opener EXCEPT ![c].pc = "refresh"]
       \/ /\ DbFails
          /\ opener' = [opener EXCEPT ![c] = IdleOpener]
          /\ UNCHANGED cfds
    /\ UNCHANGED <<screen, list, reply, offer, ldk, maker, drops, crashes>>

(***************************************************************************)
(* settle_cfd                                                              *)
(***************************************************************************)
\* The user opens the details of a listed cfd; the page keeps that copy.
ShowDetail(s, o) ==
    /\ screen[s].pc = "closed" /\ list[o] # Null
    /\ screen' = [screen EXCEPT ![s] =
                    [pc |-> "shown", output |-> o, cfd |-> list[o], price |-> Null]]
    /\ UNCHANGED <<cfds, opener, list, reply, offer, ldk, maker, bounds>>

CloseDetail(s) ==
    /\ screen[s].pc = "shown"
    /\ screen' = [screen EXCEPT ![s] = NoScreen]
    /\ UNCHANGED <<cfds, opener, list, reply, offer, ldk, maker, bounds>>

\* A missing offer counts as one at price 0.
ClosingPrice(position) ==
    IF offer = Null THEN 0 ELSE IF position = "Long" THEN offer.bid ELSE offer.ask

\* Settle, then Confirm: the call gets the copy of the cfd and the offer shown.
\* (The channel state the button also looks at is a copy of the same age.)
Confirm(s) ==
    /\ screen[s].pc = "shown" /\ screen[s].cfd.state = "Open"
    /\ screen' = [screen EXCEPT ![s].pc = "remove",
                                ![s].price = ClosingPrice(screen[s].cfd.position)]
    /\ UNCHANGED <<cfds, opener, list, reply, offer, ldk, maker, bounds>>

\* remove_custom_output is accepted.
RemovalAccepted(s) ==
    LET o == screen[s].output IN
    /\ link /\ output[o] = "locked"
    /\ output' = [output EXCEPT ![o] = "removing"]
    /\ settlement' = [settlement EXCEPT ![o] = screen[s].price]
    /\ agreed' = [agreed EXCEPT ![o] = @ \cup {screen[s].price}]
    /\ screen' = [screen EXCEPT ![s].pc = "update"]

\* Mutant: the error of remove_custom_output is logged, not returned.
RemoveOutputUnchecked(s) ==
    /\ screen[s].pc = "remove"
    /\ \/ RemovalAccepted(s)
       \/ /\ screen' = [screen EXCEPT ![s].pc = "update"]
          /\ UNCHANGED <<output, settlement, agreed>>
    /\ UNCHANGED <<cfds, opener, list, reply, offer, link, maker, bounds>>

\* Mutant: the call waits until LDK accepts.
RemoveOutputPatient(s) ==
    /\ screen[s].pc = "remove"
    /\ RemovalAccepted(s)
    /\ UNCHANGED <<cfds, opener, list, reply, offer, link, maker, bounds>>

RemoveOutput(s) ==
    /\ screen[s].pc = "remove"
    /\ \/ RemovalAccepted(s)
       \/ /\ screen' = [screen EXCEPT ![s].pc = "shown"]
          /\ UNCHANGED <<output, settlement, agreed>>
    /\ UNCHANGED <<cfds, opener, list, reply, offer, link, maker, bounds>>

\* Mutant: the offer of the moment is written, not the one settled at.
UpdateCfdLate(s) ==
    /\ screen[s].pc = "update"
    /\ LET o == screen[s].output IN
         /\ cfds' = [cfds EXCEPT ![o].state = "Closed",
                                 ![o].price = ClosingPrice(cfds[o].position)]
         /\ screen' = [screen EXCEPT ![s].pc = "refresh"]
         /\ DbWorks
    /\ UNCHANGED <<opener, list, reply, offer, ldk, maker, drops, crashes>>

\* update_cfd; a failure shows the page again, with the cfd still Open.
UpdateCfd(s) ==
    /\ screen[s].pc = "update"
    /\ LET o == screen[s].output IN
         \/ /\ DbWorks
            /\ cfds' = [cfds EXCEPT ![o].state = "Closed",
                                    ![o].price = screen[s].price]
            /\ screen' = [screen EXCEPT ![s].pc = "refresh"]
         \/ /\ DbFails
            /\ screen' = [screen EXCEPT ![s].pc = "shown"]
            /\ UNCHANGED cfds
    /\ UNCHANGED <<opener, list, reply, offer, ldk, maker, drops, crashes>>

(***************************************************************************)
(* refreshCfdList: the rows are read, then shown                           *)
(***************************************************************************)
\* Mutant: the periodic refresh stops once there is something to show.
ReadsNowOnce(r) ==
    /\ reply[r] = Null
    /\ r = Timer => list = EmptyList
    /\ r \in Openers => opener[r].pc = "refresh"
    /\ r \in Screens => screen[r].pc = "refresh"

ReadsNow(r) ==
    /\ reply[r] = Null
    /\ r \in Openers => opener[r].pc = "refresh"
    /\ r \in Screens => screen[r].pc = "refresh"

ReadList(r) ==
    /\ ReadsNow(r)
    /\ \/ /\ DbWorks
          /\ reply' = [reply EXCEPT ![r] = cfds]
          /\ UNCHANGED <<opener, screen>>
       \/ /\ DbFails
          /\ opener' = [c \in Openers |-> IF c = r THEN IdleOpener ELSE opener[c]]
          /\ screen' = [s \in Screens |->
                          IF s = r THEN [screen[s] EXCEPT !.pc = "shown"]
                                   ELSE screen[s]]
          /\ UNCHANGED reply
    /\ UNCHANGED <<cfds, list, offer, ldk, maker, drops, crashes>>

\* After an opened or settled cfd the app also leaves the page.
ShowList(r) ==
    /\ reply[r] # Null
    /\ list' = reply[r]
    /\ reply' = [reply EXCEPT ![r] = Null]
    /\ opener' = [c \in Openers |-> IF c = r THEN IdleOpener ELSE opener[c]]
    /\ screen' = [s \in Screens |-> IF s = r THEN NoScreen ELSE screen[s]]
    /\ UNCHANGED <<cfds, offer, ldk, maker, bounds>>

\* Every five seconds: the maker's offer, or none if it could not be fetched.
ReceiveOffer ==
    /\ offer' \in Offers \cup {Null}
    /\ UNCHANGED <<cfds, opener, screen, list, reply, ldk, maker, bounds>>

(***************************************************************************)
(* The maker's event thread                                                *)
(***************************************************************************)
\* Mutant: the event stays in the queue.
HandledByMakerAgain(type, o) ==
    /\ makerAlive /\ makerQueue # <<>>
    /\ Head(makerQueue) = [type |-> type, output |-> o]
    /\ UNCHANGED makerQueue

HandledByMaker(type, o) ==
    /\ makerAlive /\ makerQueue # <<>>
    /\ Head(makerQueue) = [type |-> type, output |-> o]
    /\ makerQueue' = Tail(makerQueue)

\* continue_remote_add_custom_output(..).unwrap(): an output that is gone
\* ends the thread.
HandleRemoteSentAdd(o) ==
    /\ HandledByMaker("RemoteSentAddCustomOutput", o)
    /\ IF output[o] = "requested"
       THEN output' = [output EXCEPT ![o] = "continued"] /\ UNCHANGED makerAlive
       ELSE makerAlive' = FALSE /\ UNCHANGED output
    /\ UNCHANGED <<cfds, app, settlement, agreed, link, bounds>>

\* manual_send_commitment_signed; an error is only logged.
HandleCommitmentSignature(o) ==
    /\ HandledByMaker("RemoteSentCustomOutputCommitmentSignature", o)
    /\ output' = IF output[o] = "signed" THEN [output EXCEPT ![o] = "locked"]
                                         ELSE output
    /\ UNCHANGED <<cfds, app, settlement, agreed, link, makerAlive, bounds>>

(***************************************************************************)
(* LDK: the protocol between the two nodes                                 *)
(***************************************************************************)
SignCommitment(o) ==
    /\ link /\ output[o] = "continued"
    /\ output' = [output EXCEPT ![o] = "signed"]
    /\ Raise("RemoteSentCustomOutputCommitmentSignature", o)
    /\ UNCHANGED <<cfds, app, settlement, agreed, link, makerAlive, bounds>>

CompleteRemoval(o) ==
    /\ link /\ output[o] = "removing"
    /\ output' = [output EXCEPT ![o] = "removed"]
    /\ UNCHANGED <<cfds, app, settlement, agreed, link, maker, bounds>>

\* Changes that are not committed on both sides are forgotten.
Forgotten(state) ==
    CASE state \in {"requested", "continued", "signed"} -> "dropped"
      [] state = "removing" -> "locked"
      [] OTHER -> state
ForgetChanges == output' = [o \in Output |-> Forgotten(output[o])]

Disconnect ==
    /\ link /\ drops < MaxDrops
    /\ link' = FALSE /\ drops' = drops + 1
    /\ ForgetChanges
    /\ UNCHANGED <<cfds, app, settlement, agreed, maker, dbErrors, crashes>>

Reconnect ==
    /\ ~link
    /\ link' = TRUE
    /\ UNCHANGED <<cfds, app, output, settlement, agreed, maker, bounds>>

\* The app is killed and started again; the table and the channel survive.
Crash ==
    /\ crashes < MaxCrashes
    /\ crashes' = crashes + 1
    /\ opener' = [c \in Openers |-> IdleOpener]
    /\ screen' = [s \in Screens |-> NoScreen]
    /\ list' = EmptyList /\ reply' = [r \in Readers |-> Null] /\ offer' = Null
    /\ link' = FALSE
    /\ ForgetChanges
    /\ UNCHANGED <<cfds, settlement, agreed, maker, dbErrors, drops>>

Next ==
    \/ \E c \in Openers :
         \/ \E o \in Output, position \in Positions : AddOutput(c, o, position)
         \/ InsertCfd(c)
    \/ \E s \in Screens :
         \/ \E o \in Output : ShowDetail(s, o)
         \/ CloseDetail(s) \/ Confirm(s) \/ RemoveOutput(s) \/ UpdateCfd(s)
    \/ \E r \in Readers : ReadList(r) \/ ShowList(r)
    \/ ReceiveOffer
    \/ \E o \in Output :
         \/ HandleRemoteSentAdd(o) \/ HandleCommitmentSignature(o)
         \/ SignCommitment(o) \/ CompleteRemoval(o)
    \/ Disconnect \/ Reconnect \/ Crash

Spec == Init /\ [][Next]_vars

\* Calls that have begun go on, and the list is refreshed every 20 seconds.
\* The user and the other node need do nothing.
Fairness ==
    /\ \A c \in Openers : WF_vars(InsertCfd(c))
    /\ \A s \in Screens : WF_vars(RemoveOutput(s)) /\ WF_vars(UpdateCfd(s))
    /\ \A r \in Readers : WF_vars(ReadList(r)) /\ WF_vars(ShowList(r))

FairSpec == Spec /\ Fairness

-----------------------------------------------------------------------------
(* Properties *)

\* Every variable has its type.
TypeOK ==
    /\ cfds \in List /\ list \in List
    /\ opener \in [Openers -> [pc : {"idle", "insert", "refresh"},
                               output : Output \cup {Null},
                               position : Positions \cup {Null}]]
    /\ screen \in [Screens -> [pc : {"closed", "shown", "remove", "update", "refresh"},
                               output : Output \cup {Null},
                               cfd : Row \cup {Null},
                               price : Nat \cup {Null}]]
    /\ reply \in [Readers -> List \cup {Null}]
    /\ offer \in Offers \cup {Null}
    /\ output \in [Output -> {"unused", "requested", "continued", "signed",
                              "locked", "removing", "removed", "dropped"}]
    /\ settlement \in [Output -> Nat \cup {Null}]
    /\ agreed \in [Output -> SUBSET Nat]
    /\ link \in BOOLEAN /\ makerAlive \in BOOLEAN
    /\ makerQueue \in Seq(MakerEvent)
    /\ dbErrors \in Nat /\ drops \in Nat /\ crashes \in Nat

\* Margin locked in the channel is known to the taker: the output has a row,
\* or the call that asked for it is about to write one. Only a failing
\* statement or a killed app between the two leaves it without.
InsertUnderWay(o) == \E c \in Openers : opener[c].pc = "insert"
                                        /\ opener[c].output = o
NoOrphanedMargin ==
    \A o \in Output :
        output[o] \in {"locked", "removing", "removed"} /\ cfds[o] = Null
            => InsertUnderWay(o) \/ dbErrors + crashes > 0

\* continue_remote_add_custom_output "TODO: Remove unwrap": the maker's event
\* thread outlives every event but that of an output that was dropped.
MakerDiesOnlyOfDroppedOutput ==
    makerAlive \/ \E o \in Output : output[o] = "dropped"

\* A closed cfd was closed at the price its margin was paid out at, however
\* many pages and calls settle it, unless a removal was lost on the way.
ClosedAtSettlementPrice ==
    \A o \in Output :
        cfds[o] # Null /\ cfds[o].state = "Closed" /\ drops + crashes = 0
            => cfds[o].price = settlement[o]

\* The table, with every call that writes it, keeps the promises of CfdBook.
Book == INSTANCE CfdBook WITH
            added <- {o \in Output : output[o] # "unused"}
KeepsBook == Book!BookSpec

\* A settled cfd ends up in the list as closed and stays so, although replies
\* of several refreshes may overtake each other.
ClosedIsShown ==
    \A o \in Output :
        cfds[o] # Null /\ cfds[o].state = "Closed"
            ~> [](list[o] # Null /\ list[o].state = "Closed")

\* Whoever presses Confirm gets an answer.
SettleEnds == \A s \in Screens : screen[s].pc = "remove"
                                  ~> screen[s].pc \in {"shown", "closed"}

\* "We shouldn't just assume that removing the custom output has succeeded as
\* soon as the previous call returns Ok. The rest of the protocol might still
\* fail!": the margin of a cfd that is Closed in the table is not locked.
ClosedFreesMargin ==
    \A o \in Output : cfds[o] # Null /\ cfds[o].state = "Closed"
                        => output[o] # "locked"
=============================================================================
