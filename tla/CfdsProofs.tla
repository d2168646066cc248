----------------------------- MODULE CfdsProofs -----------------------------
(***************************************************************************)
(* CFDs on the taker: proofs of the safety properties of Cfds, and that    *)
(* the table implements CfdBook, for any number of outputs, calls, pages   *)
(* and faults, and any offers.                                             *)
(***************************************************************************)
EXTENDS Cfds, TLAPS

OpenerRec == [pc : {"idle", "insert", "refresh"}, output : Output \cup {Null},
              position : Positions \cup {Null}]
ScreenRec == [pc : {"closed", "shown", "remove", "update", "refresh"},
              output : Output \cup {Null}, cfd : Row \cup {Null},
              price : Nat \cup {Null}]
OutputStates == {"unused", "requested", "continued", "signed", "locked",
                 "removing", "removed", "dropped"}

(***************************************************************************)
(* What the calls and copies of rows know of the table and the channel.    *)
(* TypeOK needs it: update_cfd writes the row of the page's copy, which is *)
(* only a row because rows are never deleted.                              *)
(***************************************************************************)
OpenersKnow ==
    \A c \in Openers : opener[c].pc # "idle" =>
        /\ opener[c].output \in Output /\ opener[c].position \in Positions
        /\ output[opener[c].output] # "unused"
        /\ opener[c].pc = "insert" => cfds[opener[c].output] = Null
OpenersDiffer ==
    \A c, d \in Openers :
        opener[c].pc = "insert" /\ opener[d].pc = "insert"
            /\ opener[c].output = opener[d].output => c = d
ScreensKnow ==
    \A s \in Screens : screen[s].pc # "closed" =>
        /\ screen[s].output \in Output /\ cfds[screen[s].output] # Null
        /\ screen[s].cfd \in Row
        /\ screen[s].pc \in {"remove", "update"} => screen[s].price \in Nat
        /\ screen[s].pc = "update" =>
             screen[s].price \in agreed[screen[s].output]
ListsKnow ==
    \A o \in Output :
        /\ list[o] # Null => cfds[o] # Null
        /\ \A r \in Readers : reply[r] # Null =>
             (reply[r][o] # Null => cfds[o] # Null)
RowsKnow == \A o \in Output : cfds[o] # Null => output[o] # "unused"

Known == TypeOK /\ OpenersKnow /\ OpenersDiffer /\ ScreensKnow /\ ListsKnow
         /\ RowsKnow

\* A row as settle leaves it.
SettledRow(cfd, price) ==
    [position |-> cfd.position, state |-> "Closed", price |-> price]

\* The rows the two calls write are rows.
LEMMA RowTypes ==
  /\ Null \notin Row
  /\ \A p \in Positions : NewCfd(p) \in Row
  /\ \A cfd \in Row, n \in Nat : SettledRow(cfd, n) \in Row
  BY NullAssumption DEF NewCfd, SettledRow, Row

\* update_cfd either settles the row of its page or changes nothing.
LEMMA UpdateCfdWrites ==
  ASSUME Known, NEW s \in Screens, UpdateCfd(s)
  PROVE  /\ screen[s].output \in Output /\ screen[s].price \in Nat
         /\ cfds[screen[s].output] \in Row
         /\ \/ UNCHANGED cfds
            \/ cfds' = [cfds EXCEPT ![screen[s].output] =
                          SettledRow(cfds[screen[s].output], screen[s].price)]
<1>1. /\ screen[s].output \in Output /\ screen[s].price \in Nat
      /\ cfds[screen[s].output] \in Row
  BY DEF UpdateCfd, ScreensKnow, List, Known, TypeOK
<1>2. CASE UNCHANGED cfds
  BY <1>1, <1>2
<1>3. CASE cfds' = [cfds EXCEPT ![screen[s].output].state = "Closed",
                                ![screen[s].output].price = screen[s].price]
  <2> DEFINE o == screen[s].output
             n == screen[s].price
  <2>1. /\ cfds' = [cfds EXCEPT ![o].state = "Closed", ![o].price = n]
        /\ cfds \in [Output -> Row \cup {Null}]
        /\ o \in Output /\ cfds[o] \in Row
    BY <1>1, <1>3 DEF Known, TypeOK, List
  <2> HIDE DEF o, n
  <2>2. /\ cfds' = [cfds EXCEPT ![o] = cfds'[o]]
        /\ cfds'[o] = [[cfds[o] EXCEPT !.state = "Closed"] EXCEPT !.price = n]
    BY <2>1
  <2>3. cfds'[o] = SettledRow(cfds[o], n)
    BY <2>1, <2>2 DEF SettledRow, Row
  <2> QED
    BY <1>1, <2>2, <2>3 DEF o, n
<1> QED
  BY <1>2, <1>3 DEF UpdateCfd

\* A page closes at a natural price.
LEMMA ClosingPriceType ==
  ASSUME offer \in Offers \cup {Null}, NEW p PROVE ClosingPrice(p) \in Nat
<1>1. CASE offer = Null
  BY <1>1 DEF ClosingPrice
<1>2. CASE offer # Null
  <2>1. offer \in [bid : Nat, ask : Nat]
    BY <1>2, ConstantsAssumption DEF ConstantsAssumption
  <2> QED
    BY <1>2, <2>1 DEF ClosingPrice
<1> QED
  BY <1>1, <1>2

\* A lost connection leaves every output in a known state, used if it was.
LEMMA ForgottenStates ==
  ASSUME NEW x \in OutputStates
  PROVE  /\ Forgotten(x) \in OutputStates
         /\ x # "unused" => Forgotten(x) # "unused"
         /\ x = "requested" \/ x = "dropped" => Forgotten(x) = "dropped"
         /\ Forgotten(x) \in {"locked", "removed"} => x \in {"locked", "removing", "removed"}
  BY DEF Forgotten, OutputStates

-----------------------------------------------------------------------------
(* Types                                                                   *)

\* Bounds are counted.
LEMMA BoundsStep ==
  ASSUME TypeOK, [Next]_vars
  PROVE  dbErrors' \in Nat /\ drops' \in Nat /\ crashes' \in Nat
<1>1. dbErrors' \in {dbErrors, dbErrors + 1} /\ drops' \in {drops, drops + 1}
      /\ crashes' \in {crashes, crashes + 1}
  BY DEF Next, vars, bounds, AddOutput, InsertCfd, ShowDetail, CloseDetail,
     Confirm, RemoveOutput, UpdateCfd, ReadList, ShowList, ReceiveOffer,
     HandleRemoteSentAdd, HandleCommitmentSignature, SignCommitment,
     CompleteRemoval, Disconnect, Reconnect, Crash, DbWorks, DbFails
<1> QED
  BY <1>1 DEF TypeOK

\* The table and what is read from it.
LEMMA TableTypeStep ==
  ASSUME Known, [Next]_vars
  PROVE  /\ cfds' \in List /\ list' \in List
         /\ reply' \in [Readers -> List \cup {Null}]
         /\ \A o \in Output : cfds[o] # Null => cfds'[o] # Null
<1>0. /\ cfds \in [Output -> Row \cup {Null}] /\ list \in List
      /\ reply \in [Readers -> List \cup {Null}]
      /\ OpenersKnow /\ ScreensKnow
  BY DEF Known, TypeOK, List
<1>e. EmptyList \in List
  BY DEF EmptyList, List
<1>1. ASSUME NEW c \in Openers, InsertCfd(c)
      PROVE  cfds' \in List /\ \A o \in Output : cfds[o] # Null => cfds'[o] # Null
  <2>1. opener[c].output \in Output /\ opener[c].position \in Positions
    BY <1>0, <1>1 DEF InsertCfd, OpenersKnow
  <2> DEFINE row == NewCfd(opener[c].position)
  <2>2. row \in Row /\ row # Null
    BY <2>1, RowTypes
  <2>3. UNCHANGED cfds \/ cfds' = [cfds EXCEPT ![opener[c].output] = row]
    BY <1>1 DEF InsertCfd
  <2> HIDE DEF row
  <2> QED
    BY <1>0, <2>1, <2>2, <2>3 DEF List
<1>2. ASSUME NEW s \in Screens, UpdateCfd(s)
      PROVE  cfds' \in List /\ \A o \in Output : cfds[o] # Null => cfds'[o] # Null
  <2> DEFINE row == SettledRow(cfds[screen[s].output], screen[s].price)
  <2>1. /\ screen[s].output \in Output
        /\ UNCHANGED cfds \/ cfds' = [cfds EXCEPT ![screen[s].output] = row]
    BY <1>2, UpdateCfdWrites
  <2>2. row \in Row /\ row # Null
    BY <1>2, UpdateCfdWrites, RowTypes
  <2> HIDE DEF row
  <2> QED
    BY <1>0, <2>1, <2>2 DEF List
<1>3. ASSUME NEW r \in Readers, ReadList(r) \/ ShowList(r)
      PROVE  /\ UNCHANGED cfds /\ list' \in List
             /\ reply' \in [Readers -> List \cup {Null}]
  BY <1>0, <1>3 DEF List, ReadList, ShowList
<1>4. ASSUME Crash
      PROVE  /\ UNCHANGED cfds /\ list' \in List
             /\ reply' \in [Readers -> List \cup {Null}]
  BY <1>e, <1>4 DEF Crash
<1>5. \/ \E c \in Openers : InsertCfd(c)
      \/ \E s \in Screens : UpdateCfd(s)
      \/ \E r \in Readers : ReadList(r) \/ ShowList(r)
      \/ Crash
      \/ UNCHANGED <<cfds, list, reply>>
  BY DEF Next, vars, app, AddOutput, ShowDetail, CloseDetail, Confirm,
     RemoveOutput, ReceiveOffer, HandleRemoteSentAdd,
     HandleCommitmentSignature, SignCommitment, CompleteRemoval, Disconnect,
     Reconnect
<1>6. ASSUME (\E c \in Openers : InsertCfd(c)) \/ \E s \in Screens : UpdateCfd(s)
      PROVE  UNCHANGED <<list, reply>>
  BY <1>6 DEF InsertCfd, UpdateCfd
<1> QED
  BY <1>0, <1>1, <1>2, <1>3, <1>4, <1>5, <1>6 DEF List

\* The calls and the pages.
LEMMA AppTypeStep ==
  ASSUME Known, [Next]_vars
  PROVE  opener' \in [Openers -> OpenerRec] /\ screen' \in [Screens -> ScreenRec]
<1>0. /\ opener \in [Openers -> OpenerRec] /\ screen \in [Screens -> ScreenRec]
      /\ list \in [Output -> Row \cup {Null}]
  BY DEF Known, TypeOK, OpenerRec, ScreenRec, List
<1>1. ASSUME NEW c \in Openers, NEW o \in Output, NEW p \in Positions,
             AddOutput(c, o, p)
      PROVE  opener' \in [Openers -> OpenerRec] /\ UNCHANGED screen
  BY <1>0, <1>1 DEF AddOutput, OpenerRec
<1>2. ASSUME NEW c \in Openers, InsertCfd(c)
      PROVE  opener' \in [Openers -> OpenerRec] /\ UNCHANGED screen
  BY <1>0, <1>2 DEF InsertCfd, OpenerRec, IdleOpener
<1>3. ASSUME NEW s \in Screens, NEW o \in Output, ShowDetail(s, o)
      PROVE  screen' \in [Screens -> ScreenRec] /\ UNCHANGED opener
  BY <1>0, <1>3 DEF ShowDetail, ScreenRec
<1>4. ASSUME NEW s \in Screens, CloseDetail(s)
      PROVE  screen' \in [Screens -> ScreenRec] /\ UNCHANGED opener
  BY <1>0, <1>4 DEF CloseDetail, ScreenRec, NoScreen
<1>5. ASSUME NEW s \in Screens, Confirm(s)
      PROVE  screen' \in [Screens -> ScreenRec] /\ UNCHANGED opener
  <2> DEFINE n == ClosingPrice(screen[s].cfd.position)
  <2>1. n \in Nat
    BY ClosingPriceType DEF Known, TypeOK
  <2>2. screen' = [screen EXCEPT ![s].pc = "remove", ![s].price = n]
        /\ UNCHANGED opener
    BY <1>5 DEF Confirm
  <2> HIDE DEF n
  <2>3. /\ [screen EXCEPT ![s].pc = "remove"] \in [Screens -> ScreenRec]
        /\ screen' = [[screen EXCEPT ![s].pc = "remove"] EXCEPT ![s].price = n]
    BY <1>0, <2>2 DEF ScreenRec
  <2>4. \A t \in Screens : screen'[t] \in ScreenRec
    <3>1. [screen[s] EXCEPT !.pc = "remove"] \in ScreenRec
      BY <1>0 DEF ScreenRec
    <3>2. [[screen[s] EXCEPT !.pc = "remove"] EXCEPT !.price = n] \in ScreenRec
      BY <2>1, <3>1 DEF ScreenRec
    <3>3. /\ screen'[s] = [[screen[s] EXCEPT !.pc = "remove"] EXCEPT !.price = n]
          /\ \A t \in Screens \ {s} : screen'[t] = screen[t]
      BY <1>0, <2>3
    <3> QED
      BY <1>0, <3>2, <3>3
  <2>5. screen' = [t \in Screens |-> screen'[t]]
    BY <2>3
  <2> QED
    BY <2>2, <2>4, <2>5
<1>6. ASSUME NEW s \in Screens, RemoveOutput(s)
      PROVE  screen' \in [Screens -> ScreenRec] /\ UNCHANGED opener
  BY <1>0, <1>6 DEF RemoveOutput, RemovalAccepted, ScreenRec
<1>7. ASSUME NEW s \in Screens, UpdateCfd(s)
      PROVE  screen' \in [Screens -> ScreenRec] /\ UNCHANGED opener
  BY <1>0, <1>7 DEF UpdateCfd, ScreenRec
<1>8. ASSUME NEW r \in Readers, ReadList(r)
      PROVE  opener' \in [Openers -> OpenerRec] /\ screen' \in [Screens -> ScreenRec]
  BY <1>0, <1>8 DEF ReadList, OpenerRec, ScreenRec, IdleOpener
<1>9. ASSUME NEW r \in Readers, ShowList(r)
      PROVE  opener' \in [Openers -> OpenerRec] /\ screen' \in [Screens -> ScreenRec]
  BY <1>0, <1>9 DEF ShowList, OpenerRec, ScreenRec, IdleOpener, NoScreen
<1>10. CASE Crash
  BY <1>0, <1>10 DEF Crash, OpenerRec, ScreenRec, IdleOpener, NoScreen
<1>11. CASE UNCHANGED <<opener, screen>>
  BY <1>0, <1>11
<1>12. \/ \E c \in Openers : \/ \E o \in Output, p \in Positions : AddOutput(c, o, p)
                             \/ InsertCfd(c)
       \/ \E s \in Screens : \/ \E o \in Output : ShowDetail(s, o)
                             \/ CloseDetail(s) \/ Confirm(s) \/ RemoveOutput(s)
                             \/ UpdateCfd(s)
       \/ \E r \in Readers : ReadList(r) \/ ShowList(r)
       \/ Crash
       \/ UNCHANGED <<opener, screen>>
  BY DEF Next, vars, app, ReceiveOffer, HandleRemoteSentAdd,
     HandleCommitmentSignature, SignCommitment, CompleteRemoval, Disconnect,
     Reconnect
<1> QED
  BY <1>0, <1>1, <1>2, <1>3, <1>4, <1>5, <1>6, <1>7, <1>8, <1>9, <1>10, <1>11,
     <1>12

\* The offer, the channel and the maker.
LEMMA ChannelTypeStep ==
  ASSUME Known, [Next]_vars
  PROVE  /\ offer' \in Offers \cup {Null}
         /\ output' \in [Output -> OutputStates]
         /\ settlement' \in [Output -> Nat \cup {Null}]
         /\ agreed' \in [Output -> SUBSET Nat]
         /\ link' \in BOOLEAN /\ makerAlive' \in BOOLEAN
         /\ makerQueue' \in Seq(MakerEvent)
<1>0. /\ output \in [Output -> OutputStates]
      /\ settlement \in [Output -> Nat \cup {Null}]
      /\ agreed \in [Output -> SUBSET Nat]
      /\ makerQueue \in Seq(MakerEvent)
      /\ offer \in Offers \cup {Null} /\ link \in BOOLEAN /\ makerAlive \in BOOLEAN
  BY DEF Known, TypeOK, OutputStates
<1>1. offer' \in {offer} \cup Offers \cup {Null} /\ link' \in {link, TRUE, FALSE}
      /\ makerAlive' \in {makerAlive, FALSE}
  BY DEF Next, vars, app, ldk, maker, AddOutput, InsertCfd, ShowDetail,
     CloseDetail, Confirm, RemoveOutput, UpdateCfd, ReadList, ShowList,
     ReceiveOffer, HandleRemoteSentAdd, HandleCommitmentSignature,
     SignCommitment, CompleteRemoval, Disconnect, Reconnect, Crash
<1>2. ASSUME NEW c \in Openers, NEW o \in Output, NEW p \in Positions,
             AddOutput(c, o, p)
      PROVE  /\ output' \in [Output -> OutputStates] /\ makerQueue' \in Seq(MakerEvent)
             /\ UNCHANGED <<settlement, agreed>>
  BY <1>0, <1>2 DEF AddOutput, Raise, MakerEvent, OutputStates
<1>3. ASSUME NEW o \in Output, SignCommitment(o)
      PROVE  /\ output' \in [Output -> OutputStates] /\ makerQueue' \in Seq(MakerEvent)
             /\ UNCHANGED <<settlement, agreed>>
  BY <1>0, <1>3 DEF SignCommitment, Raise, MakerEvent, OutputStates
<1>4. ASSUME NEW s \in Screens, RemoveOutput(s)
      PROVE  /\ output' \in [Output -> OutputStates]
             /\ settlement' \in [Output -> Nat \cup {Null}]
             /\ agreed' \in [Output -> SUBSET Nat]
             /\ UNCHANGED makerQueue
  <2>1. screen[s].price \in Nat /\ screen[s].output \in Output
    BY <1>4 DEF RemoveOutput, ScreensKnow, Known
  <2>2. UNCHANGED makerQueue
    BY <1>4 DEF RemoveOutput, maker
  <2>3. CASE UNCHANGED <<output, settlement, agreed>>
    BY <1>0, <2>2, <2>3
  <2>4. CASE RemovalAccepted(s)
    BY <1>0, <2>1, <2>2, <2>4 DEF RemovalAccepted, OutputStates
  <2> QED
    BY <1>4, <2>3, <2>4 DEF RemoveOutput
<1>5. ASSUME NEW o \in Output, HandleRemoteSentAdd(o) \/ HandleCommitmentSignature(o)
      PROVE  /\ output' \in [Output -> OutputStates]
             /\ makerQueue' \in Seq(MakerEvent)
             /\ UNCHANGED <<settlement, agreed>>
  <2>1. makerQueue # <<>> /\ makerQueue' = Tail(makerQueue)
    BY <1>5 DEF HandleRemoteSentAdd, HandleCommitmentSignature, HandledByMaker
  <2>2. makerQueue' \in Seq(MakerEvent)
    BY <1>0, <2>1
  <2>3. output' \in [Output -> OutputStates] /\ UNCHANGED <<settlement, agreed>>
    BY <1>0, <1>5 DEF HandleRemoteSentAdd, HandleCommitmentSignature, OutputStates
  <2> QED
    BY <2>2, <2>3
<1>6. ASSUME NEW o \in Output, CompleteRemoval(o)
      PROVE  /\ output' \in [Output -> OutputStates]
             /\ UNCHANGED <<settlement, agreed, makerQueue>>
  BY <1>0, <1>6 DEF CompleteRemoval, OutputStates, maker
<1>7. ASSUME Disconnect \/ Crash
      PROVE  /\ output' \in [Output -> OutputStates]
             /\ UNCHANGED <<settlement, agreed, makerQueue>>
  BY <1>0, <1>7, ForgottenStates DEF Disconnect, Crash, ForgetChanges, maker
<1>8. \/ \E c \in Openers, o \in Output, p \in Positions : AddOutput(c, o, p)
      \/ \E s \in Screens : RemoveOutput(s)
      \/ \E o \in Output : \/ HandleRemoteSentAdd(o) \/ HandleCommitmentSignature(o)
                           \/ SignCommitment(o) \/ CompleteRemoval(o)
      \/ Disconnect \/ Crash
      \/ UNCHANGED <<output, settlement, agreed, makerQueue>>
  BY DEF Next, vars, app, ldk, maker, InsertCfd, ShowDetail, CloseDetail,
     Confirm, UpdateCfd, ReadList, ShowList, ReceiveOffer, Reconnect
<1> QED
  BY <1>0, <1>1, <1>2, <1>3, <1>4, <1>5, <1>6, <1>7, <1>8

\* Every step keeps the types.
LEMMA TypeStep == ASSUME Known, [Next]_vars PROVE TypeOK'
  BY BoundsStep, TableTypeStep, AppTypeStep, ChannelTypeStep
     DEF TypeOK, Known, OpenerRec, ScreenRec, OutputStates

-----------------------------------------------------------------------------
(* What the calls know                                                     *)

\* An output that was asked for is never unused again.
LEMMA UsedStays ==
  ASSUME Known, [Next]_vars
  PROVE  \A o \in Output : output[o] # "unused" => output'[o] # "unused"
<1>0. output \in [Output -> OutputStates]
  BY DEF Known, TypeOK, OutputStates
<1>1. ASSUME Disconnect \/ Crash, NEW o \in Output, output[o] # "unused"
      PROVE  output'[o] # "unused"
  <2>1. output'[o] = Forgotten(output[o])
    BY <1>1 DEF Disconnect, Crash, ForgetChanges
  <2> QED
    BY <1>0, <1>1, <2>1, ForgottenStates
<1>2. ASSUME ~(Disconnect \/ Crash), NEW o \in Output, output[o] # "unused"
      PROVE  output'[o] # "unused"
  BY <1>0, <1>2 DEF Next, vars, ldk, AddOutput, InsertCfd, ShowDetail,
     CloseDetail, Confirm, RemoveOutput, RemovalAccepted, UpdateCfd, ReadList,
     ShowList, ReceiveOffer, HandleRemoteSentAdd, HandleCommitmentSignature,
     SignCommitment, CompleteRemoval, Reconnect
<1> QED
  BY <1>1, <1>2

\* Prices once agreed to stay agreed to.
LEMMA AgreedStays ==
  ASSUME Known, [Next]_vars
  PROVE  \A o \in Output : agreed[o] \subseteq agreed'[o]
<1>0. agreed \in [Output -> SUBSET Nat]
  BY DEF Known, TypeOK
<1>1. CASE \E s \in Screens : RemovalAccepted(s)
  BY <1>0, <1>1 DEF RemovalAccepted
<1>2. (\E s \in Screens : RemovalAccepted(s)) \/ UNCHANGED agreed
  BY DEF Next, vars, ldk, AddOutput, InsertCfd, ShowDetail, CloseDetail,
     Confirm, RemoveOutput, UpdateCfd, ReadList, ShowList, ReceiveOffer,
     HandleRemoteSentAdd, HandleCommitmentSignature, SignCommitment,
     CompleteRemoval, Disconnect, Reconnect, Crash
<1> QED
  BY <1>1, <1>2

\* A call that is to write a row either begins now, for an unused output, or
\* was to write that row before.
LEMMA OpenersGo ==
  ASSUME Known, [Next]_vars
  PROVE  \/ UNCHANGED opener
         \/ /\ \A c \in Openers : opener'[c] = opener[c] \/ opener'[c].pc # "insert"
            /\ \A c \in Openers : opener'[c].pc # "idle" =>
                 /\ opener[c].pc # "idle"
                 /\ opener'[c].output = opener[c].output
                 /\ opener'[c].position = opener[c].position
         \/ \E c \in Openers, o \in Output, p \in Positions :
              AddOutput(c, o, p)
<1>0. opener \in [Openers -> OpenerRec]
  BY DEF Known, TypeOK, OpenerRec
<1>1. ASSUME NEW c \in Openers, InsertCfd(c)
      PROVE  \A d \in Openers :
               /\ opener'[d] = opener[d] \/ opener'[d].pc # "insert"
               /\ opener'[d].pc # "idle" => /\ opener[d].pc # "idle"
                                            /\ opener'[d].output = opener[d].output
                                            /\ opener'[d].position = opener[d].position
  BY <1>0, <1>1 DEF InsertCfd, IdleOpener, OpenerRec
<1>2. ASSUME (\E r \in Readers : ReadList(r) \/ ShowList(r)) \/ Crash
      PROVE  \A d \in Openers :
               /\ opener'[d] = opener[d] \/ opener'[d].pc # "insert"
               /\ opener'[d].pc # "idle" => /\ opener[d].pc # "idle"
                                            /\ opener'[d].output = opener[d].output
                                            /\ opener'[d].position = opener[d].position
  <2>1. UNCHANGED opener \/ \A d \in Openers : opener'[d] \in {opener[d], IdleOpener}
    BY <1>2 DEF ReadList, ShowList, Crash
  <2> QED
    BY <1>0, <2>1 DEF IdleOpener, OpenerRec
<1>3. \/ \E c \in Openers : \/ \E o \in Output, p \in Positions : AddOutput(c, o, p)
                            \/ InsertCfd(c)
      \/ (\E r \in Readers : ReadList(r) \/ ShowList(r)) \/ Crash
      \/ UNCHANGED opener
  BY DEF Next, vars, app, ShowDetail, CloseDetail, Confirm, RemoveOutput,
     UpdateCfd, ReceiveOffer, HandleRemoteSentAdd, HandleCommitmentSignature,
     SignCommitment, CompleteRemoval, Disconnect, Reconnect
<1> QED
  BY <1>1, <1>2, <1>3

\* No call waits to write a row that is there, or that of another call.
LEMMA OpenersStep ==
  ASSUME Known, [Next]_vars
  PROVE  OpenersKnow' /\ OpenersDiffer' /\ RowsKnow'
<1>0. /\ opener \in [Openers -> OpenerRec] /\ output \in [Output -> OutputStates]
      /\ cfds \in [Output -> Row \cup {Null}]
      /\ OpenersKnow /\ OpenersDiffer /\ RowsKnow
  BY DEF Known, TypeOK, OpenerRec, OutputStates, List
<1>u. \A o \in Output : output[o] # "unused" => output'[o] # "unused"
  BY UsedStays
<1>1. ASSUME NEW c \in Openers, NEW o \in Output, NEW p \in Positions,
             AddOutput(c, o, p)
      PROVE  OpenersKnow' /\ OpenersDiffer' /\ RowsKnow'
  <2>1. /\ opener' = [opener EXCEPT ![c] =
                        [pc |-> "insert", output |-> o, position |-> p]]
        /\ UNCHANGED cfds /\ output[o] = "unused" /\ output'[o] = "requested"
        /\ cfds[o] = Null
    BY <1>0, <1>1 DEF AddOutput, RowsKnow
  <2>2. \A d \in Openers : opener[d].pc # "idle" => opener[d].output # o
    BY <1>0, <2>1 DEF OpenersKnow
  <2>3. OpenersKnow'
    BY <1>0, <1>u, <2>1 DEF OpenersKnow
  <2>4. OpenersDiffer'
    BY <1>0, <2>1, <2>2 DEF OpenersDiffer
  <2>5. RowsKnow'
    BY <1>0, <1>u, <2>1 DEF RowsKnow
  <2> QED
    BY <2>3, <2>4, <2>5
<1>2. ASSUME NEW c \in Openers, InsertCfd(c)
      PROVE  OpenersKnow' /\ OpenersDiffer' /\ RowsKnow'
  <2>1. /\ opener[c].pc = "insert" /\ opener[c].output \in Output
        /\ output[opener[c].output] # "unused" /\ UNCHANGED output
    BY <1>0, <1>2 DEF InsertCfd, OpenersKnow, ldk
  <2>2. \A d \in Openers : d # c /\ opener[d].pc = "insert"
                               => opener[d].output # opener[c].output
    BY <1>0, <2>1 DEF OpenersDiffer
  <2>3. /\ \A d \in Openers : d # c => opener'[d] = opener[d]
        /\ opener'[c].pc # "insert"
        /\ opener'[c].pc # "idle" => /\ opener'[c].output = opener[c].output
                                     /\ opener'[c].position = opener[c].position
        /\ \A o \in Output : o # opener[c].output => cfds'[o] = cfds[o]
    BY <1>0, <1>2, <2>1 DEF InsertCfd, IdleOpener, OpenerRec
  <2>4. OpenersKnow'
    BY <1>0, <2>1, <2>2, <2>3 DEF OpenersKnow
  <2>5. OpenersDiffer'
    BY <1>0, <2>3 DEF OpenersDiffer
  <2>6. RowsKnow'
    BY <1>0, <2>1, <2>3 DEF RowsKnow
  <2> QED
    BY <2>4, <2>5, <2>6
<1>3. ASSUME NEW s \in Screens, UpdateCfd(s)
      PROVE  OpenersKnow' /\ OpenersDiffer' /\ RowsKnow'
  <2>1. UNCHANGED <<opener, output>>
    BY <1>3 DEF UpdateCfd, ldk
  <2>2. \A o \in Output : cfds'[o] # Null => cfds[o] # Null
    BY <1>0, <1>3, UpdateCfdWrites, RowTypes
  <2> QED
    BY <1>0, <2>1, <2>2 DEF OpenersKnow, OpenersDiffer, RowsKnow
<1>4. ASSUME UNCHANGED cfds,
             ~\E c \in Openers, o \in Output, p \in Positions : AddOutput(c, o, p)
      PROVE  OpenersKnow' /\ OpenersDiffer' /\ RowsKnow'
  <2>1. \A c \in Openers :
          /\ opener'[c] = opener[c] \/ opener'[c].pc # "insert"
          /\ opener'[c].pc # "idle" => /\ opener[c].pc # "idle"
                                       /\ opener'[c].output = opener[c].output
                                       /\ opener'[c].position = opener[c].position
    BY <1>4, OpenersGo
  <2> QED
    BY <1>0, <1>4, <1>u, <2>1 DEF OpenersKnow, OpenersDiffer, RowsKnow
<1>5. \/ \E c \in Openers : \/ \E o \in Output, p \in Positions : AddOutput(c, o, p)
                            \/ InsertCfd(c)
      \/ \E s \in Screens : UpdateCfd(s)
      \/ UNCHANGED cfds
  BY DEF Next, vars, app, ShowDetail, CloseDetail, Confirm, RemoveOutput,
     ReadList, ShowList, ReceiveOffer, HandleRemoteSentAdd,
     HandleCommitmentSignature, SignCommitment, CompleteRemoval, Disconnect,
     Reconnect, Crash
<1> QED
  BY <1>1, <1>2, <1>3, <1>4, <1>5

\* A page goes on with its copy of an existing row, or is opened for a row of
\* the list, or closed.
LEMMA ScreensGo ==
  ASSUME Known, [Next]_vars, NEW s \in Screens, screen'[s].pc # "closed"
  PROVE  \/ /\ screen[s].pc # "closed"
            /\ screen'[s].output = screen[s].output
            /\ screen'[s].cfd = screen[s].cfd
            /\ \/ screen'[s].pc \notin {"remove", "update"}
               \/ screen'[s] = screen[s]
               \/ screen'[s].pc = "remove" /\ screen'[s].price \in Nat
               \/ /\ screen[s].pc = "remove" /\ screen'[s].pc = "update"
                  /\ screen'[s].price = screen[s].price
                  /\ RemovalAccepted(s) /\ RemoveOutput(s)
         \/ /\ screen'[s].pc = "shown"
            /\ screen'[s].output \in Output
            /\ list[screen'[s].output] # Null
            /\ screen'[s].cfd = list[screen'[s].output]
<1> DEFINE Stays ==
             /\ screen[s].pc # "closed"
             /\ screen'[s].output = screen[s].output
             /\ screen'[s].cfd = screen[s].cfd
<1>0. /\ screen \in [Screens -> ScreenRec] /\ screen' \in [Screens -> ScreenRec]
  BY AppTypeStep DEF Known, TypeOK, ScreenRec
<1>1. ASSUME NEW t \in Screens, NEW o \in Output, ShowDetail(t, o)
      PROVE  \/ screen'[s] = screen[s]
             \/ /\ screen'[s].pc = "shown" /\ screen'[s].output \in Output
                /\ list[screen'[s].output] # Null
                /\ screen'[s].cfd = list[screen'[s].output]
  BY <1>0, <1>1 DEF ShowDetail
<1>2. ASSUME NEW t \in Screens, CloseDetail(t)
      PROVE  screen'[s] = screen[s]
  BY <1>0, <1>2 DEF CloseDetail, NoScreen
<1>3. ASSUME NEW t \in Screens, Confirm(t)
      PROVE  \/ screen'[s] = screen[s]
             \/ Stays /\ screen'[s].pc = "remove" /\ screen'[s].price \in Nat
  <2> DEFINE n == ClosingPrice(screen[t].cfd.position)
  <2>1. n \in Nat
    BY ClosingPriceType DEF Known, TypeOK
  <2>2. screen' = [screen EXCEPT ![t].pc = "remove", ![t].price = n]
        /\ screen[t].pc = "shown"
    BY <1>3 DEF Confirm
  <2> HIDE DEF n
  <2> QED
    BY <1>0, <2>1, <2>2 DEF ScreenRec
<1>4. ASSUME NEW t \in Screens, RemoveOutput(t)
      PROVE  \/ screen'[s] = screen[s]
             \/ Stays /\ screen'[s].pc = "shown"
             \/ /\ Stays /\ screen[s].pc = "remove" /\ screen'[s].pc = "update"
                /\ screen'[s].price = screen[s].price
                /\ RemovalAccepted(s) /\ RemoveOutput(s)
  <2>1. CASE RemovalAccepted(t)
    <3>1. screen' = [screen EXCEPT ![t].pc = "update"] /\ screen[t].pc = "remove"
      BY <1>4, <2>1 DEF RemoveOutput, RemovalAccepted
    <3> QED
      BY <1>0, <1>4, <2>1, <3>1 DEF ScreenRec
  <2>2. CASE screen' = [screen EXCEPT ![t].pc = "shown"]
    BY <1>0, <1>4, <2>2 DEF RemoveOutput, ScreenRec
  <2> QED
    BY <1>4, <2>1, <2>2 DEF RemoveOutput
<1>5. ASSUME NEW t \in Screens, UpdateCfd(t)
      PROVE  \/ screen'[s] = screen[s]
             \/ Stays /\ screen'[s].pc \in {"refresh", "shown"}
  BY <1>0, <1>5 DEF UpdateCfd, ScreenRec
<1>6. ASSUME NEW r \in Readers, ReadList(r)
      PROVE  \/ screen'[s] = screen[s]
             \/ Stays /\ screen'[s].pc = "shown"
  BY <1>0, <1>6 DEF ReadList, ReadsNow, ScreenRec
<1>7. ASSUME NEW r \in Readers, ShowList(r)
      PROVE  screen'[s] = screen[s]
  BY <1>0, <1>7 DEF ShowList, NoScreen
<1>8. ~Crash
  BY <1>0 DEF Crash, NoScreen
<1>9. \/ \E t \in Screens : \/ \E o \in Output : ShowDetail(t, o)
                            \/ CloseDetail(t) \/ Confirm(t) \/ RemoveOutput(t)
                            \/ UpdateCfd(t)
      \/ \E r \in Readers : ReadList(r) \/ ShowList(r)
      \/ Crash
      \/ UNCHANGED screen
  BY DEF Next, vars, app, AddOutput, InsertCfd, ReceiveOffer,
     HandleRemoteSentAdd, HandleCommitmentSignature, SignCommitment,
     CompleteRemoval, Disconnect, Reconnect
<1> HIDE DEF Stays
<1>10. \/ screen'[s] = screen[s]
       \/ /\ screen'[s].pc = "shown" /\ screen'[s].output \in Output
          /\ list[screen'[s].output] # Null
          /\ screen'[s].cfd = list[screen'[s].output]
       \/ Stays /\ screen'[s].pc = "remove" /\ screen'[s].price \in Nat
       \/ Stays /\ screen'[s].pc \in {"shown", "refresh"}
       \/ /\ Stays /\ screen[s].pc = "remove" /\ screen'[s].pc = "update"
          /\ screen'[s].price = screen[s].price
          /\ RemovalAccepted(s) /\ RemoveOutput(s)
  BY <1>1, <1>2, <1>3, <1>4, <1>5, <1>6, <1>7, <1>8, <1>9
<1> QED
  BY <1>10 DEF Stays

\* A page holds a row of the table, at a price that LDK agreed to when it is
\* about to be written.
LEMMA ScreensStep == ASSUME Known, [Next]_vars PROVE ScreensKnow'
<1> SUFFICES ASSUME NEW s \in Screens, screen'[s].pc # "closed"
             PROVE  /\ screen'[s].output \in Output
                    /\ cfds'[screen'[s].output] # Null /\ screen'[s].cfd \in Row
                    /\ screen'[s].pc \in {"remove", "update"} => screen'[s].price \in Nat
                    /\ screen'[s].pc = "update" =>
                         screen'[s].price \in agreed'[screen'[s].output]
  BY DEF ScreensKnow
<1>0. /\ ScreensKnow /\ ListsKnow /\ list \in [Output -> Row \cup {Null}]
      /\ agreed \in [Output -> SUBSET Nat]
      /\ \A o \in Output : cfds[o] # Null => cfds'[o] # Null
      /\ \A o \in Output : agreed[o] \subseteq agreed'[o]
  BY TableTypeStep, AgreedStays DEF Known, TypeOK, List
<1>1. CASE /\ screen[s].pc # "closed"
           /\ screen'[s].output = screen[s].output
           /\ screen'[s].cfd = screen[s].cfd
  <2>1. /\ screen[s].output \in Output /\ cfds[screen[s].output] # Null
        /\ screen[s].cfd \in Row
        /\ screen[s].pc \in {"remove", "update"} => screen[s].price \in Nat
        /\ screen[s].pc = "update" => screen[s].price \in agreed[screen[s].output]
    BY <1>0, <1>1 DEF ScreensKnow
  <2>2. CASE RemovalAccepted(s) /\ screen[s].pc = "remove"
             /\ screen'[s].price = screen[s].price
    <3>1. agreed'[screen[s].output] = agreed[screen[s].output] \cup {screen[s].price}
      BY <1>0, <2>1, <2>2 DEF RemovalAccepted
    <3> QED
      BY <1>0, <1>1, <2>1, <2>2, <3>1
  <2>3. CASE \/ screen'[s].pc \notin {"remove", "update"}
             \/ screen'[s] = screen[s]
             \/ screen'[s].pc = "remove" /\ screen'[s].price \in Nat
    BY <1>0, <1>1, <2>1, <2>3
  <2>4. \/ screen'[s].pc \notin {"remove", "update"}
        \/ screen'[s] = screen[s]
        \/ screen'[s].pc = "remove" /\ screen'[s].price \in Nat
        \/ screen[s].pc = "remove" /\ RemovalAccepted(s)
           /\ screen'[s].price = screen[s].price
        \/ screen'[s].pc = "shown"
    BY ScreensGo
  <2> QED
    BY <2>2, <2>3, <2>4
<1>2. CASE /\ screen'[s].pc = "shown"
           /\ screen'[s].output \in Output
           /\ list[screen'[s].output] # Null
           /\ screen'[s].cfd = list[screen'[s].output]
  BY <1>0, <1>2 DEF ListsKnow
<1> QED
  BY <1>1, <1>2, ScreensGo

\* Lists are read from the table, which keeps its rows.
LEMMA ListsStep == ASSUME Known, [Next]_vars PROVE ListsKnow'
<1>0. /\ ListsKnow /\ reply \in [Readers -> List \cup {Null}]
      /\ list \in [Output -> Row \cup {Null}]
      /\ \A o \in Output : cfds[o] # Null => cfds'[o] # Null
  BY TableTypeStep DEF Known, TypeOK, List
<1>1. ASSUME NEW r \in Readers, ReadList(r) PROVE ListsKnow'
  <2>1. UNCHANGED <<list, cfds>> /\ \A q \in Readers : reply'[q] \in {reply[q], cfds}
    BY <1>0, <1>1 DEF ReadList
  <2> QED
    BY <1>0, <2>1 DEF ListsKnow
<1>2. ASSUME NEW r \in Readers, ShowList(r) PROVE ListsKnow'
  <2>1. /\ UNCHANGED cfds /\ reply[r] # Null /\ list' = reply[r]
        /\ \A q \in Readers : reply'[q] \in {reply[q], Null}
    BY <1>0, <1>2 DEF ShowList
  <2> QED
    BY <1>0, <2>1 DEF ListsKnow
<1>3. ASSUME Crash PROVE ListsKnow'
  BY <1>0, <1>3 DEF Crash, ListsKnow, EmptyList
<1>4. ASSUME UNCHANGED <<list, reply>> PROVE ListsKnow'
  BY <1>0, <1>4 DEF ListsKnow
<1>5. \/ \E r \in Readers : ReadList(r) \/ ShowList(r)
      \/ Crash
      \/ UNCHANGED <<list, reply>>
  BY DEF Next, vars, app, AddOutput, InsertCfd, ShowDetail, CloseDetail,
     Confirm, RemoveOutput, UpdateCfd, ReceiveOffer, HandleRemoteSentAdd,
     HandleCommitmentSignature, SignCommitment, CompleteRemoval, Disconnect,
     Reconnect
<1> QED
  BY <1>1, <1>2, <1>3, <1>4, <1>5

\* Known is inductive.
LEMMA KnownInit == Init => Known
<1> SUFFICES ASSUME Init PROVE Known
  OBVIOUS
<1>1. TypeOK
  <2>1. EmptyList \in List
    BY DEF EmptyList, List
  <2>2. <<>> \in Seq(MakerEvent)
    OBVIOUS
  <2> QED
    BY <2>1, <2>2 DEF Init, TypeOK, IdleOpener, NoScreen
<1>2. OpenersKnow /\ OpenersDiffer /\ ScreensKnow
  BY DEF Init, OpenersKnow, OpenersDiffer, ScreensKnow, IdleOpener, NoScreen
<1>3. ListsKnow /\ RowsKnow
  BY DEF Init, ListsKnow, RowsKnow, EmptyList
<1> QED
  BY <1>1, <1>2, <1>3 DEF Known

\* The calls, the pages and the lists only ever know true things.
THEOREM Knowledge == Spec => []Known
<1>1. Known /\ [Next]_vars => Known'
  BY TypeStep, OpenersStep, ScreensStep, ListsStep DEF Known
<1> QED
  BY KnownInit, <1>1, PTL DEF Spec

\* Every variable has its type, whatever calls, pages and faults there are.
THEOREM TypeCorrect == Spec => []TypeOK
<1>1. Known => TypeOK
  BY DEF Known
<1> QED
  BY <1>1, Knowledge, PTL

-----------------------------------------------------------------------------
(* Margin                                                                  *)

\* Inductive: already the request, long before the margin is locked, is
\* accounted for.
Accounted ==
    \A o \in Output : output[o] # "unused" /\ cfds[o] = Null
        => InsertUnderWay(o) \/ dbErrors + crashes > 0

\* A call that has read the list has written its row.
CallersRead == \A c \in Openers : reply[c] # Null => opener[c].pc = "refresh"

\* Every step keeps it so.
LEMMA CallersReadStep == ASSUME Known, CallersRead, [Next]_vars PROVE CallersRead'
<1>0. /\ opener \in [Openers -> OpenerRec] /\ reply \in [Readers -> List \cup {Null}]
      /\ Openers \subseteq Readers
  BY DEF Known, TypeOK, OpenerRec, Readers
<1>1. ASSUME NEW c \in Openers, NEW o \in Output, NEW p \in Positions,
             AddOutput(c, o, p)
      PROVE  CallersRead'
  BY <1>0, <1>1 DEF AddOutput, CallersRead
<1>2. ASSUME NEW c \in Openers, InsertCfd(c) PROVE CallersRead'
  BY <1>0, <1>2 DEF InsertCfd, CallersRead
<1>3. ASSUME NEW r \in Readers, ReadList(r) PROVE CallersRead'
  BY <1>0, <1>3 DEF ReadList, ReadsNow, CallersRead
<1>4. ASSUME NEW r \in Readers, ShowList(r) PROVE CallersRead'
  BY <1>0, <1>4 DEF ShowList, CallersRead
<1>5. ASSUME Crash PROVE CallersRead'
  BY <1>0, <1>5 DEF Crash, CallersRead
<1>6. ASSUME UNCHANGED <<opener, reply>> PROVE CallersRead'
  BY <1>6 DEF CallersRead
<1>7. \/ \E c \in Openers : \/ \E o \in Output, p \in Positions : AddOutput(c, o, p)
                            \/ InsertCfd(c)
      \/ \E r \in Readers : ReadList(r) \/ ShowList(r)
      \/ Crash
      \/ UNCHANGED <<opener, reply>>
  BY DEF Next, vars, app, ShowDetail, CloseDetail, Confirm, RemoveOutput,
     UpdateCfd, ReceiveOffer, HandleRemoteSentAdd, HandleCommitmentSignature,
     SignCommitment, CompleteRemoval, Disconnect, Reconnect
<1> QED
  BY <1>1, <1>2, <1>3, <1>4, <1>5, <1>6, <1>7

\* A count that grew is positive if it was.
LEMMA StillCounted ==
  ASSUME NEW m \in Nat, NEW n \in Nat, NEW k \in {m, m + 1}, m + n > 0
  PROVE  k + n > 0
  OBVIOUS

\* Only a failing statement or a kill parts an output from its row.
LEMMA AccountedStep ==
  ASSUME Known, CallersRead, Accounted, [Next]_vars PROVE Accounted'
<1>0. /\ opener \in [Openers -> OpenerRec] /\ output \in [Output -> OutputStates]
      /\ cfds \in [Output -> Row \cup {Null}]
      /\ dbErrors \in Nat /\ crashes \in Nat
      /\ \A o \in Output : cfds[o] # Null => cfds'[o] # Null
      /\ OpenersKnow
  BY TableTypeStep DEF Known, TypeOK, OpenerRec, OutputStates, List
<1>n. dbErrors \in Nat /\ crashes \in Nat
  BY <1>0
<1>1. ASSUME NEW c \in Openers, NEW o \in Output, NEW p \in Positions,
             AddOutput(c, o, p)
      PROVE  Accounted'
  <2>1. /\ UNCHANGED <<cfds, dbErrors, crashes>>
        /\ opener[c].pc = "idle" /\ output' = [output EXCEPT ![o] = "requested"]
        /\ opener' = [opener EXCEPT ![c] =
                        [pc |-> "insert", output |-> o, position |-> p]]
    BY <1>1 DEF AddOutput, bounds
  <2>2. \A q \in Output : InsertUnderWay(q) \/ q = o => InsertUnderWay(q)'
    BY <1>0, <2>1 DEF InsertUnderWay
  <2> QED
    BY <1>0, <2>1, <2>2 DEF Accounted
<1>2. ASSUME NEW c \in Openers, InsertCfd(c) PROVE Accounted'
  <2>1. opener[c].pc = "insert" /\ opener[c].output \in Output
        /\ UNCHANGED <<output, crashes>>
    BY <1>0, <1>2 DEF InsertCfd, OpenersKnow, ldk
  <2>2. CASE DbFails
    <3>1. dbErrors' + crashes' > 0
      BY <1>0, <2>1, <2>2 DEF DbFails
    <3> QED
      BY <3>1 DEF Accounted
  <2>3. CASE DbWorks /\ opener' = [opener EXCEPT ![c].pc = "refresh"]
             /\ cfds' = [cfds EXCEPT ![opener[c].output] =
                           NewCfd(opener[c].position)]
    <3>1. cfds'[opener[c].output] # Null
      <4>1. opener[c].position \in Positions
        BY <1>0, <2>1 DEF OpenersKnow
      <4> QED
        BY <1>0, <2>1, <2>3, <4>1, RowTypes
    <3>2. \A q \in Output : InsertUnderWay(q) => InsertUnderWay(q)' \/ q = opener[c].output
      BY <1>0, <2>1, <2>3 DEF InsertUnderWay
    <3>3. \A q \in Output : cfds'[q] = Null => cfds[q] = Null
      BY <1>0, <3>1
    <3>4. UNCHANGED <<output, dbErrors, crashes>>
      BY <2>1, <2>3 DEF DbWorks
    <3> QED
      BY <3>1, <3>2, <3>3, <3>4 DEF Accounted
  <2> QED
    BY <1>2, <2>2, <2>3 DEF InsertCfd
<1>3. ASSUME NEW r \in Readers, ReadList(r) \/ ShowList(r) PROVE Accounted'
  <2>1. /\ UNCHANGED <<cfds, output, crashes>> /\ dbErrors' \in {dbErrors, dbErrors + 1}
        /\ \A c \in Openers : opener[c].pc = "insert" /\ c # r => opener'[c] = opener[c]
    BY <1>0, <1>3 DEF ReadList, ShowList, DbWorks, DbFails, ldk, bounds
  <2>2. r \in Openers => opener[r].pc # "insert"
    BY <1>0, <1>3 DEF ReadList, ReadsNow, ShowList, CallersRead
  <2>3. \A q \in Output : InsertUnderWay(q) => InsertUnderWay(q)'
    BY <2>1, <2>2 DEF InsertUnderWay
  <2>4. dbErrors + crashes > 0 => dbErrors' + crashes' > 0
    BY <1>n, <2>1, StillCounted
  <2> QED
    BY <2>1, <2>3, <2>4 DEF Accounted
<1>4. ASSUME Crash PROVE Accounted'
  <2>1. dbErrors' + crashes' > 0
    BY <1>0, <1>4 DEF Crash
  <2> QED
    BY <2>1 DEF Accounted
<1>5. ASSUME NEW s \in Screens, UpdateCfd(s) PROVE Accounted'
  <2>1. UNCHANGED <<opener, output, crashes>> /\ dbErrors' \in {dbErrors, dbErrors + 1}
    BY <1>5 DEF UpdateCfd, ldk, DbWorks, DbFails
  <2>2. \A q \in Output : InsertUnderWay(q) => InsertUnderWay(q)'
    BY <2>1 DEF InsertUnderWay
  <2>3. \A q \in Output : cfds'[q] = Null => cfds[q] = Null
    BY <1>0
  <2>4. dbErrors + crashes > 0 => dbErrors' + crashes' > 0
    BY <1>n, <2>1, StillCounted
  <2> QED
    BY <2>1, <2>2, <2>3, <2>4 DEF Accounted
<1>6. ASSUME UNCHANGED <<cfds, opener, dbErrors, crashes>>,
             \A o \in Output : output'[o] # "unused" => output[o] # "unused"
      PROVE  Accounted'
  BY <1>6 DEF Accounted, InsertUnderWay
<1>7. ASSUME \/ \E o \in Output : \/ HandleRemoteSentAdd(o)
                                 \/ HandleCommitmentSignature(o)
                                 \/ SignCommitment(o) \/ CompleteRemoval(o)
             \/ \E s \in Screens : RemoveOutput(s)
      PROVE  \A o \in Output : output'[o] # "unused" => output[o] # "unused"
  BY <1>0, <1>7 DEF HandleRemoteSentAdd, HandleCommitmentSignature,
     SignCommitment, CompleteRemoval, RemoveOutput, RemovalAccepted
<1>8. ASSUME Disconnect
      PROVE  \A o \in Output : output'[o] # "unused" => output[o] # "unused"
  BY <1>0, <1>8 DEF Disconnect, ForgetChanges, Forgotten
<1>9. \/ \E c \in Openers : \/ \E o \in Output, p \in Positions : AddOutput(c, o, p)
                            \/ InsertCfd(c)
      \/ \E r \in Readers : ReadList(r) \/ ShowList(r)
      \/ Crash
      \/ \E s \in Screens : UpdateCfd(s)
      \/ /\ UNCHANGED <<cfds, opener, dbErrors, crashes>>
         /\ \/ \E o \in Output : \/ HandleRemoteSentAdd(o)
                                 \/ HandleCommitmentSignature(o)
                                 \/ SignCommitment(o) \/ CompleteRemoval(o)
            \/ \E s \in Screens : RemoveOutput(s)
            \/ Disconnect
            \/ UNCHANGED output
  BY DEF Next, vars, app, ldk, bounds, ShowDetail, CloseDetail, Confirm,
     RemoveOutput, ReceiveOffer, HandleRemoteSentAdd,
     HandleCommitmentSignature, SignCommitment, CompleteRemoval, Disconnect,
     Reconnect
<1> QED
  BY <1>1, <1>2, <1>3, <1>4, <1>5, <1>6, <1>7, <1>8, <1>9

\* Margin locked in the channel is known to the taker, or a call is about to
\* write it down; only a failing statement or a kill leaves it orphaned.
THEOREM MarginAccounted == Spec => []NoOrphanedMargin
<1>1. Init => CallersRead /\ Accounted
  BY DEF Init, CallersRead, Accounted, Readers
<1>2. Known /\ CallersRead /\ Accounted /\ [Next]_vars => (CallersRead /\ Accounted)'
  BY CallersReadStep, AccountedStep
<1>3. Accounted => NoOrphanedMargin
  BY DEF Accounted, NoOrphanedMargin
<1> QED
  BY <1>1, <1>2, <1>3, Knowledge, PTL DEF Spec

-----------------------------------------------------------------------------
(* The maker's event thread                                                *)

Fresh == {"requested", "dropped"}
IsAdd(i) == makerQueue[i].type = "RemoteSentAddCustomOutput"

\* Inductive: each added output is announced once, and nothing has happened to
\* it by then but that it was dropped.
Announced ==
    /\ \A i \in 1 .. Len(makerQueue) : IsAdd(i) => output[makerQueue[i].output] \in Fresh
    /\ \A i, j \in 1 .. Len(makerQueue) :
         IsAdd(i) /\ IsAdd(j) /\ makerQueue[i].output = makerQueue[j].output => i = j

\* An event that is raised comes last.
LEMMA RaiseLast ==
  ASSUME makerQueue \in Seq(MakerEvent), NEW type, NEW o \in Output,
         [type |-> type, output |-> o] \in MakerEvent, Raise(type, o)
  PROVE  /\ Len(makerQueue') = Len(makerQueue) + 1
         /\ \A i \in 1 .. Len(makerQueue) : makerQueue'[i] = makerQueue[i]
         /\ makerQueue'[Len(makerQueue) + 1] = [type |-> type, output |-> o]
  BY DEF Raise

\* An event that is handled was the first; the others move up.
LEMMA HandledFirst ==
  ASSUME makerQueue \in Seq(MakerEvent), NEW type, NEW o \in Output,
         HandledByMaker(type, o)
  PROVE  /\ Len(makerQueue) \in Nat /\ Len(makerQueue) > 0
         /\ makerQueue[1] = [type |-> type, output |-> o]
         /\ Len(makerQueue') = Len(makerQueue) - 1
         /\ \A i \in 1 .. Len(makerQueue') : makerQueue'[i] = makerQueue[i + 1]
  BY DEF HandledByMaker

\* Only the maker's handler takes an output further than its announcement.
LEMMA AnnouncedStep == ASSUME Known, Announced, [Next]_vars PROVE Announced'
<1>0. /\ makerQueue \in Seq(MakerEvent) /\ Len(makerQueue) \in Nat
      /\ output \in [Output -> OutputStates]
      /\ \A i \in 1 .. Len(makerQueue) : makerQueue[i] \in MakerEvent
  BY DEF Known, TypeOK, OutputStates
<1>1. ASSUME NEW c \in Openers, NEW o \in Output, NEW p \in Positions,
             AddOutput(c, o, p)
      PROVE  Announced'
  <2>1. /\ output[o] = "unused" /\ output' = [output EXCEPT ![o] = "requested"]
        /\ Raise("RemoteSentAddCustomOutput", o)
    BY <1>1 DEF AddOutput
  <2>2. [type |-> "RemoteSentAddCustomOutput", output |-> o] \in MakerEvent
    BY DEF MakerEvent
  <2>3. /\ Len(makerQueue') = Len(makerQueue) + 1
        /\ \A i \in 1 .. Len(makerQueue) : makerQueue'[i] = makerQueue[i]
        /\ makerQueue'[Len(makerQueue) + 1].output = o
    BY <1>0, <2>1, <2>2, RaiseLast
  <2>4. \A i \in 1 .. Len(makerQueue) : IsAdd(i) => makerQueue[i].output # o
    BY <1>0, <2>1 DEF Announced, Fresh
  <2>5. \A i \in 1 .. Len(makerQueue') : i \in 1 .. Len(makerQueue) \/ i = Len(makerQueue) + 1
    BY <1>0, <2>3
  <2>6. \A i \in 1 .. Len(makerQueue') : IsAdd(i)' => output'[makerQueue'[i].output] \in Fresh
    BY <1>0, <2>1, <2>3, <2>4, <2>5 DEF Announced, Fresh, IsAdd, MakerEvent
  <2>7. \A i, j \in 1 .. Len(makerQueue') :
          IsAdd(i)' /\ IsAdd(j)' /\ makerQueue'[i].output = makerQueue'[j].output => i = j
    BY <1>0, <2>3, <2>4, <2>5 DEF Announced, IsAdd
  <2> QED
    BY <2>6, <2>7 DEF Announced
<1>2. ASSUME NEW o \in Output, SignCommitment(o) PROVE Announced'
  <2>1. /\ output[o] = "continued" /\ output' = [output EXCEPT ![o] = "signed"]
        /\ Raise("RemoteSentCustomOutputCommitmentSignature", o)
    BY <1>2 DEF SignCommitment
  <2>2. [type |-> "RemoteSentCustomOutputCommitmentSignature", output |-> o] \in MakerEvent
    BY DEF MakerEvent
  <2>3. /\ Len(makerQueue') = Len(makerQueue) + 1
        /\ \A i \in 1 .. Len(makerQueue) : makerQueue'[i] = makerQueue[i]
        /\ makerQueue'[Len(makerQueue) + 1].type = "RemoteSentCustomOutputCommitmentSignature"
    BY <1>0, <2>1, <2>2, RaiseLast
  <2>4. \A i \in 1 .. Len(makerQueue') : IsAdd(i)' => i \in 1 .. Len(makerQueue)
    BY <1>0, <2>3 DEF IsAdd
  <2>5. \A q \in Output : output[q] \in Fresh => output'[q] = output[q]
    BY <1>0, <2>1 DEF Fresh
  <2>6. \A i \in 1 .. Len(makerQueue') : IsAdd(i)' => IsAdd(i)
    BY <2>3, <2>4 DEF IsAdd
  <2>7. \A i \in 1 .. Len(makerQueue') : IsAdd(i)' => output'[makerQueue'[i].output] \in Fresh
    BY <1>0, <2>3, <2>4, <2>5, <2>6 DEF Announced, MakerEvent
  <2>8. \A i, j \in 1 .. Len(makerQueue') :
          IsAdd(i)' /\ IsAdd(j)' /\ makerQueue'[i].output = makerQueue'[j].output => i = j
    BY <2>3, <2>4, <2>6 DEF Announced
  <2> QED
    BY <2>7, <2>8 DEF Announced
<1>3. ASSUME NEW o \in Output,
             HandleRemoteSentAdd(o) \/ HandleCommitmentSignature(o)
      PROVE  Announced'
  <2>1. PICK type \in {"RemoteSentAddCustomOutput",
                       "RemoteSentCustomOutputCommitmentSignature"} :
          /\ HandledByMaker(type, o)
          /\ type # "RemoteSentAddCustomOutput" => HandleCommitmentSignature(o)
    BY <1>3 DEF HandleRemoteSentAdd, HandleCommitmentSignature
  <2>2. /\ Len(makerQueue) > 0 /\ makerQueue[1] = [type |-> type, output |-> o]
        /\ Len(makerQueue') = Len(makerQueue) - 1
        /\ \A i \in 1 .. Len(makerQueue') : makerQueue'[i] = makerQueue[i + 1]
    BY <1>0, <2>1, HandledFirst
  <2>3. \A i \in 1 .. Len(makerQueue') : i + 1 \in 1 .. Len(makerQueue) /\ i + 1 # 1
    BY <1>0, <2>2
  <2>4. \A i \in 1 .. Len(makerQueue') : IsAdd(i)' =>
          /\ output[makerQueue[i + 1].output] \in Fresh
          /\ type = "RemoteSentAddCustomOutput" => makerQueue[i + 1].output # o
    BY <1>0, <2>2, <2>3 DEF Announced, IsAdd
  <2>5. \A q \in Output : output'[q] = output[q]
                          \/ (q = o /\ (type = "RemoteSentAddCustomOutput"
                                         \/ output[q] = "signed"))
    <3>1. CASE type = "RemoteSentAddCustomOutput"
      BY <1>0, <1>3, <3>1 DEF HandleRemoteSentAdd, HandleCommitmentSignature
    <3>2. CASE HandleCommitmentSignature(o)
      BY <1>0, <3>2 DEF HandleCommitmentSignature
    <3> QED
      BY <2>1, <3>1, <3>2
  <2>6. \A i \in 1 .. Len(makerQueue') : IsAdd(i)' => output'[makerQueue'[i].output] \in Fresh
    <3> SUFFICES ASSUME NEW i \in 1 .. Len(makerQueue'), IsAdd(i)'
                 PROVE  output'[makerQueue[i + 1].output] \in Fresh
      BY <2>2
    <3>1. /\ output[makerQueue[i + 1].output] \in Fresh
          /\ type = "RemoteSentAddCustomOutput" => makerQueue[i + 1].output # o
      BY <2>4
    <3>2. makerQueue[i + 1].output \in Output
      BY <1>0, <2>3 DEF MakerEvent
    <3> QED
      BY <2>5, <3>1, <3>2 DEF Fresh
  <2>7. \A i, j \in 1 .. Len(makerQueue') :
          IsAdd(i)' /\ IsAdd(j)' /\ makerQueue'[i].output = makerQueue'[j].output => i = j
    BY <1>0, <2>2, <2>3 DEF Announced, IsAdd
  <2> QED
    BY <2>6, <2>7 DEF Announced
<1>4. ASSUME UNCHANGED makerQueue,
             \A q \in Output : output[q] \in Fresh => output'[q] \in Fresh
      PROVE  Announced'
  BY <1>0, <1>4 DEF Announced, IsAdd, MakerEvent
<1>5. ASSUME (\E s \in Screens : RemoveOutput(s)) \/ \E o \in Output : CompleteRemoval(o)
      PROVE  \A q \in Output : output[q] \in Fresh => output'[q] \in Fresh
  BY <1>0, <1>5 DEF RemoveOutput, RemovalAccepted, CompleteRemoval, Fresh
<1>6. ASSUME Disconnect \/ Crash
      PROVE  \A q \in Output : output[q] \in Fresh => output'[q] \in Fresh
  BY <1>0, <1>6, ForgottenStates DEF Disconnect, Crash, ForgetChanges, Fresh
<1>7. \/ \E c \in Openers, o \in Output, p \in Positions : AddOutput(c, o, p)
      \/ \E o \in Output : \/ HandleRemoteSentAdd(o) \/ HandleCommitmentSignature(o)
                           \/ SignCommitment(o)
      \/ /\ UNCHANGED makerQueue
         /\ \/ (\E s \in Screens : RemoveOutput(s)) \/ \E o \in Output : CompleteRemoval(o)
            \/ Disconnect \/ Crash
            \/ UNCHANGED output
  BY DEF Next, vars, app, ldk, maker, InsertCfd, ShowDetail, CloseDetail,
     Confirm, RemoveOutput, UpdateCfd, ReadList, ShowList, ReceiveOffer,
     CompleteRemoval, Disconnect, Reconnect, Crash
<1> QED
  BY <1>1, <1>2, <1>3, <1>4, <1>5, <1>6, <1>7

\* continue_remote_add_custom_output fails only for an output that is gone.
LEMMA ThreadStep ==
  ASSUME Known, Announced, MakerDiesOnlyOfDroppedOutput, [Next]_vars
  PROVE  MakerDiesOnlyOfDroppedOutput'
<1>0. output \in [Output -> OutputStates] /\ makerQueue \in Seq(MakerEvent)
  BY DEF Known, TypeOK, OutputStates
<1>1. \A o \in Output : output[o] = "dropped" => output'[o] = "dropped"
  <2>1. ASSUME Disconnect \/ Crash, NEW o \in Output, output[o] = "dropped"
        PROVE  output'[o] = "dropped"
    BY <1>0, <2>1, ForgottenStates DEF Disconnect, Crash, ForgetChanges
  <2>2. ASSUME ~(Disconnect \/ Crash), NEW o \in Output, output[o] = "dropped"
        PROVE  output'[o] = "dropped"
    BY <1>0, <2>2 DEF Next, vars, ldk, AddOutput, InsertCfd, ShowDetail,
       CloseDetail, Confirm, RemoveOutput, RemovalAccepted, UpdateCfd,
       ReadList, ShowList, ReceiveOffer, HandleRemoteSentAdd,
       HandleCommitmentSignature, SignCommitment, CompleteRemoval, Reconnect
  <2> QED
    BY <2>1, <2>2
<1>2. ASSUME NEW o \in Output, HandleRemoteSentAdd(o)
      PROVE  makerAlive' = makerAlive \/ output'[o] = "dropped"
  <2>1. Len(makerQueue) > 0 /\ Len(makerQueue) \in Nat
        /\ makerQueue[1] = [type |-> "RemoteSentAddCustomOutput", output |-> o]
    BY <1>0, <1>2, HandledFirst DEF HandleRemoteSentAdd
  <2>2. output[o] \in Fresh
    BY <2>1 DEF Announced, IsAdd
  <2> QED
    BY <1>2, <2>2 DEF HandleRemoteSentAdd, Fresh
<1>3. (\E o \in Output : HandleRemoteSentAdd(o)) \/ UNCHANGED makerAlive
  BY DEF Next, vars, app, ldk, maker, AddOutput, InsertCfd, ShowDetail,
     CloseDetail, Confirm, RemoveOutput, UpdateCfd, ReadList, ShowList,
     ReceiveOffer, HandleCommitmentSignature, SignCommitment, CompleteRemoval,
     Disconnect, Reconnect, Crash
<1> QED
  BY <1>1, <1>2, <1>3 DEF MakerDiesOnlyOfDroppedOutput

\* The maker's event thread dies only of the unwrap() the TODO names, after a
\* lost connection, however many outputs are added at once.
THEOREM MakerSurvives == Spec => []MakerDiesOnlyOfDroppedOutput
<1>1. Init => Announced /\ MakerDiesOnlyOfDroppedOutput
  BY DEF Init, Announced, MakerDiesOnlyOfDroppedOutput
<1>2. Known /\ Announced /\ MakerDiesOnlyOfDroppedOutput /\ [Next]_vars
        => (Announced /\ MakerDiesOnlyOfDroppedOutput)'
  BY AnnouncedStep, ThreadStep
<1> QED
  BY <1>1, <1>2, Knowledge, PTL DEF Spec

-----------------------------------------------------------------------------
(* The closing price                                                       *)

Undisturbed == drops + crashes = 0

\* Inductive: without a lost connection or a kill, an output is taken out for
\* one call only, and its row is written from that call.
Settled ==
    Undisturbed =>
        /\ \A s \in Screens : screen[s].pc = "update" =>
             /\ output[screen[s].output] \in {"removing", "removed"}
             /\ screen[s].price = settlement[screen[s].output]
        /\ \A o \in Output : cfds[o] # Null /\ cfds[o].state = "Closed" =>
             /\ output[o] \in {"removing", "removed"}
             /\ cfds[o].price = settlement[o]

\* A removal is accepted once; the row is closed at its price.
LEMMA SettledStep == ASSUME Known, Settled, [Next]_vars PROVE Settled'
<1>0. /\ output \in [Output -> OutputStates]
      /\ settlement \in [Output -> Nat \cup {Null}]
      /\ cfds \in [Output -> Row \cup {Null}]
      /\ screen \in [Screens -> ScreenRec]
      /\ ScreensKnow
  BY DEF Known, TypeOK, OutputStates, List, ScreenRec
<1>1. Undisturbed' => Undisturbed /\ ~Disconnect /\ ~Crash
  <2>1. drops \in Nat /\ crashes \in Nat
    BY DEF Known, TypeOK
  <2>2. CASE Disconnect
    BY <2>1, <2>2 DEF Disconnect, Undisturbed
  <2>3. CASE Crash
    BY <2>1, <2>3 DEF Crash, Undisturbed
  <2>4. CASE UNCHANGED <<drops, crashes>> /\ ~Disconnect /\ ~Crash
    BY <2>4 DEF Undisturbed
  <2>5. Disconnect \/ Crash \/ UNCHANGED <<drops, crashes>>
    BY DEF Next, vars, bounds, AddOutput, InsertCfd, ShowDetail, CloseDetail,
       Confirm, RemoveOutput, UpdateCfd, ReadList, ShowList, ReceiveOffer,
       HandleRemoteSentAdd, HandleCommitmentSignature, SignCommitment,
       CompleteRemoval, Reconnect
  <2> QED
    BY <2>2, <2>3, <2>4, <2>5
<1> SUFFICES ASSUME Undisturbed, ~Disconnect, ~Crash PROVE Settled'
  BY <1>1 DEF Settled
<1>2. /\ \A s \in Screens : screen[s].pc = "update" =>
           /\ output[screen[s].output] \in {"removing", "removed"}
           /\ screen[s].price = settlement[screen[s].output]
      /\ \A o \in Output : cfds[o] # Null /\ cfds[o].state = "Closed" =>
           /\ output[o] \in {"removing", "removed"}
           /\ cfds[o].price = settlement[o]
  BY DEF Settled
<1>3. ASSUME NEW s \in Screens, RemovalAccepted(s), RemoveOutput(s)
      PROVE  Settled'
  <2> DEFINE o == screen[s].output
  <2>1. /\ o \in Output /\ output[o] = "locked" /\ UNCHANGED cfds
        /\ output' = [output EXCEPT ![o] = "removing"]
        /\ settlement' = [settlement EXCEPT ![o] = screen[s].price]
        /\ screen' = [screen EXCEPT ![s].pc = "update"]
    BY <1>3 DEF RemovalAccepted, RemoveOutput, ScreensKnow, Known
  <2>2. \A t \in Screens : screen'[t].pc = "update" =>
           /\ output'[screen'[t].output] \in {"removing", "removed"}
           /\ screen'[t].price = settlement'[screen'[t].output]
    <3>1. \A t \in Screens : screen[t].pc = "update" =>
            screen[t].output \in Output /\ screen[t].output # o
      BY <1>0, <1>2, <2>1 DEF ScreensKnow
    <3> QED
      BY <1>0, <1>2, <2>1, <3>1 DEF ScreenRec
  <2>3. \A q \in Output : cfds'[q] # Null /\ cfds'[q].state = "Closed" =>
           /\ output'[q] \in {"removing", "removed"}
           /\ cfds'[q].price = settlement'[q]
    BY <1>0, <1>2, <2>1
  <2> QED
    BY <2>2, <2>3 DEF Settled
<1>4. ASSUME NEW s \in Screens, UpdateCfd(s) PROVE Settled'
  <2> DEFINE o == screen[s].output
             row == SettledRow(cfds[o], screen[s].price)
  <2>1. /\ screen[s].pc = "update" /\ o \in Output /\ screen[s].price = settlement[o]
        /\ output[o] \in {"removing", "removed"}
        /\ UNCHANGED <<output, settlement>>
        /\ \A t \in Screens : screen'[t].pc = "update" => screen'[t] = screen[t]
    <3>1. screen[s].pc = "update" /\ UNCHANGED <<output, settlement>>
      BY <1>4 DEF UpdateCfd, ldk
    <3>2. \A t \in Screens : screen'[t].pc = "update" => screen'[t] = screen[t]
      BY <1>0, <1>4 DEF UpdateCfd, ScreenRec
    <3> QED
      BY <1>0, <1>2, <3>1, <3>2 DEF ScreensKnow
  <2>2. UNCHANGED cfds \/ cfds' = [cfds EXCEPT ![o] = row]
    BY <1>4, UpdateCfdWrites
  <2>3. row.price = screen[s].price
    BY DEF SettledRow
  <2> HIDE DEF row
  <2>4. \A q \in Output : cfds'[q] = cfds[q] \/ (q = o /\ cfds'[q] = row)
    BY <1>0, <2>1, <2>2
  <2> QED
    BY <1>2, <2>1, <2>3, <2>4 DEF Settled
<1>5. ASSUME NEW c \in Openers, InsertCfd(c) PROVE Settled'
  <2>1. /\ UNCHANGED <<screen, output, settlement>>
        /\ \A q \in Output : cfds'[q] = cfds[q]
                             \/ cfds'[q] = NewCfd(opener[c].position)
    BY <1>0, <1>5 DEF InsertCfd, ldk
  <2> QED
    BY <1>2, <2>1 DEF Settled, NewCfd
<1>6. ASSUME UNCHANGED <<cfds, settlement>>,
             \A o \in Output : output[o] \in {"removing", "removed"}
                                 => output'[o] \in {"removing", "removed"},
             \A s \in Screens : screen'[s].pc = "update" => screen'[s] = screen[s]
      PROVE  Settled'
  BY <1>0, <1>2, <1>6 DEF Settled, ScreensKnow
<1>7. ASSUME ~\E s \in Screens : RemovalAccepted(s) /\ RemoveOutput(s)
      PROVE  \A s \in Screens : screen'[s].pc = "update" => screen'[s] = screen[s]
  BY <1>7, ScreensGo
<1>8. ASSUME \/ \E c \in Openers, o \in Output, p \in Positions : AddOutput(c, o, p)
             \/ \E o \in Output : \/ HandleRemoteSentAdd(o)
                                  \/ HandleCommitmentSignature(o)
                                  \/ SignCommitment(o) \/ CompleteRemoval(o)
             \/ UNCHANGED output
      PROVE  \A o \in Output : output[o] \in {"removing", "removed"}
                                 => output'[o] \in {"removing", "removed"}
  BY <1>0, <1>8 DEF AddOutput, HandleRemoteSentAdd, HandleCommitmentSignature,
     SignCommitment, CompleteRemoval
<1>9. \/ \E s \in Screens : RemovalAccepted(s) /\ RemoveOutput(s)
      \/ \E s \in Screens : UpdateCfd(s)
      \/ \E c \in Openers : InsertCfd(c)
      \/ /\ UNCHANGED <<cfds, settlement>>
         /\ \/ \E c \in Openers, o \in Output, p \in Positions : AddOutput(c, o, p)
            \/ \E o \in Output : \/ HandleRemoteSentAdd(o)
                                 \/ HandleCommitmentSignature(o)
                                 \/ SignCommitment(o) \/ CompleteRemoval(o)
            \/ UNCHANGED output
  BY DEF Next, vars, app, ldk, AddOutput, ShowDetail, CloseDetail, Confirm,
     RemoveOutput, ReadList, ShowList, ReceiveOffer, HandleRemoteSentAdd,
     HandleCommitmentSignature, SignCommitment, CompleteRemoval, Reconnect
<1> QED
  BY <1>3, <1>4, <1>5, <1>6, <1>7, <1>8, <1>9

\* Without a lost connection or a kill a cfd is closed at the price its margin
\* was paid out at, however many pages settle it.
THEOREM ClosedAsSettled == Spec => []ClosedAtSettlementPrice
<1>1. Init => Settled
  BY DEF Init, Settled, NoScreen, EmptyList
<1>2. Known /\ Settled /\ [Next]_vars => Settled'
  BY SettledStep
<1>3. Settled => ClosedAtSettlementPrice
  BY DEF Settled, ClosedAtSettlementPrice, Undisturbed
<1> QED
  BY <1>1, <1>2, <1>3, Knowledge, PTL DEF Spec

-----------------------------------------------------------------------------
(* Refinement                                                              *)

\* The outputs LDK was asked for.
added == {o \in Output : output[o] # "unused"}

\* Both books start empty.
LEMMA BookInitially == Init => Book!BookInit
  BY DEF Init, Book!BookInit, EmptyList

\* Every step is one of the book's or leaves the book alone.
LEMMA BookStep == ASSUME Known, [Next]_vars PROVE [Book!BookNext]_(Book!bookVars)
<1>0. /\ output \in [Output -> OutputStates] /\ agreed \in [Output -> SUBSET Nat]
      /\ cfds \in [Output -> Row \cup {Null}]
      /\ RowsKnow /\ OpenersKnow /\ ScreensKnow
  BY DEF Known, TypeOK, OutputStates, List
<1>s. added' = added /\ UNCHANGED <<cfds, agreed>> => UNCHANGED Book!bookVars
  BY DEF added, Book!bookVars
<1>1. ASSUME NEW c \in Openers, NEW o \in Output, NEW p \in Positions,
             AddOutput(c, o, p)
      PROVE  Book!AgreeToAdd(o)
  <2>1. /\ output[o] = "unused" /\ output' = [output EXCEPT ![o] = "requested"]
        /\ UNCHANGED <<cfds, agreed>>
    BY <1>1 DEF AddOutput
  <2>2. o \notin added /\ added' = added \cup {o}
    BY <1>0, <2>1 DEF added
  <2> QED
    BY <2>1, <2>2 DEF added, Book!AgreeToAdd
<1>2. ASSUME NEW c \in Openers, InsertCfd(c)
      PROVE  UNCHANGED Book!bookVars \/ \E o \in Output : Book!WriteOpen(o)
  <2>1. /\ opener[c].output \in Output /\ opener[c].position \in Positions
        /\ output[opener[c].output] # "unused" /\ cfds[opener[c].output] = Null
        /\ UNCHANGED <<output, agreed>>
    BY <1>0, <1>2 DEF InsertCfd, OpenersKnow, ldk
  <2>2. added' = added /\ opener[c].output \in added
    BY <2>1 DEF added
  <2>3. CASE UNCHANGED cfds
    BY <1>s, <2>1, <2>2, <2>3
  <2>4. CASE cfds' = [cfds EXCEPT ![opener[c].output] = NewCfd(opener[c].position)]
    <3>1. NewCfd(opener[c].position) = Book!OpenRow(opener[c].position)
      BY DEF NewCfd, Book!OpenRow
    <3>2. Book!WriteOpen(opener[c].output)
      BY <2>1, <2>2, <2>4, <3>1 DEF Book!WriteOpen, Book!Positions, Positions, added
    <3> QED
      BY <2>1, <3>2
  <2> QED
    BY <1>2, <2>3, <2>4 DEF InsertCfd
<1>3. ASSUME NEW s \in Screens, UpdateCfd(s)
      PROVE  UNCHANGED Book!bookVars \/ \E o \in Output : Book!WriteClosed(o)
  <2> DEFINE o == screen[s].output
  <2>1. /\ screen[s].price \in agreed[o] /\ o \in Output /\ cfds[o] # Null
        /\ UNCHANGED <<output, agreed>>
    BY <1>0, <1>3 DEF UpdateCfd, ScreensKnow, ldk
  <2>2. added' = added
    BY <2>1 DEF added
  <2>3. CASE UNCHANGED cfds
    BY <1>s, <2>1, <2>2, <2>3
  <2>4. CASE cfds' = [cfds EXCEPT ![o] = SettledRow(cfds[o], screen[s].price)]
    <3>1. SettledRow(cfds[o], screen[s].price)
            = Book!ClosedRow(cfds[o].position, screen[s].price)
      BY DEF SettledRow, Book!ClosedRow
    <3>2. Book!WriteClosed(o)
      BY <2>1, <2>2, <2>4, <3>1 DEF Book!WriteClosed, added
    <3> QED
      BY <2>1, <3>2
  <2> QED
    BY <1>3, <2>3, <2>4, UpdateCfdWrites
<1>4. ASSUME NEW s \in Screens, RemoveOutput(s)
      PROVE  UNCHANGED Book!bookVars \/ \E o \in Output : Book!AgreeToRemove(o)
  <2> DEFINE o == screen[s].output
  <2>1. o \in Output /\ screen[s].price \in Nat /\ UNCHANGED cfds
    BY <1>0, <1>4 DEF RemoveOutput, ScreensKnow
  <2>2. CASE UNCHANGED <<output, agreed>>
    BY <1>s, <2>1, <2>2 DEF added
  <2>3. CASE RemovalAccepted(s)
    <3>1. /\ output[o] = "locked" /\ output' = [output EXCEPT ![o] = "removing"]
          /\ agreed' = [agreed EXCEPT ![o] = agreed[o] \cup {screen[s].price}]
      BY <2>3 DEF RemovalAccepted
    <3>2. added' = added /\ o \in added
      BY <1>0, <2>1, <3>1 DEF added
    <3>3. agreed'[o] = agreed[o] \cup {screen[s].price}
      BY <1>0, <2>1, <3>1
    <3>4. Book!AgreeToRemove(o)
      BY <1>0, <2>1, <3>1, <3>2, <3>3 DEF Book!AgreeToRemove, added
    <3> QED
      BY <2>1, <3>4
  <2> QED
    BY <1>4, <2>2, <2>3 DEF RemoveOutput
<1>5. ASSUME \/ \E o \in Output : \/ HandleRemoteSentAdd(o)
                                  \/ HandleCommitmentSignature(o)
                                  \/ SignCommitment(o) \/ CompleteRemoval(o)
             \/ Disconnect \/ Crash
      PROVE  added' = added
  <2>1. CASE \E o \in Output : \/ HandleRemoteSentAdd(o)
                               \/ HandleCommitmentSignature(o)
                               \/ SignCommitment(o) \/ CompleteRemoval(o)
    BY <1>0, <2>1 DEF added, HandleRemoteSentAdd, HandleCommitmentSignature,
       SignCommitment, CompleteRemoval
  <2>2. CASE Disconnect \/ Crash
    <3>1. \A o \in Output : output'[o] = Forgotten(output[o])
      BY <1>0, <2>2 DEF Disconnect, Crash, ForgetChanges
    <3>2. \A o \in Output : output'[o] # "unused" <=> output[o] # "unused"
      BY <1>0, <3>1 DEF Forgotten, OutputStates
    <3> QED
      BY <3>2 DEF added
  <2> QED
    BY <1>5, <2>1, <2>2
<1>6. \/ \E c \in Openers : \/ \E o \in Output, p \in Positions : AddOutput(c, o, p)
                            \/ InsertCfd(c)
      \/ \E s \in Screens : RemoveOutput(s) \/ UpdateCfd(s)
      \/ /\ UNCHANGED <<cfds, agreed>>
         /\ \/ \E o \in Output : \/ HandleRemoteSentAdd(o)
                                 \/ HandleCommitmentSignature(o)
                                 \/ SignCommitment(o) \/ CompleteRemoval(o)
            \/ Disconnect \/ Crash \/ UNCHANGED output
  BY DEF Next, vars, app, ldk, ShowDetail, CloseDetail, Confirm, ReadList,
     ShowList, ReceiveOffer, HandleRemoteSentAdd, HandleCommitmentSignature,
     SignCommitment, CompleteRemoval, Disconnect, Reconnect, Crash
<1>7. UNCHANGED output => added' = added
  BY DEF added
<1>8. UNCHANGED Book!bookVars
      \/ \E o \in Output : \/ Book!AgreeToAdd(o) \/ Book!AgreeToRemove(o)
                           \/ Book!WriteOpen(o) \/ Book!WriteClosed(o)
  BY <1>1, <1>2, <1>3, <1>4, <1>5, <1>6, <1>7, <1>s, Zenon
<1> QED
  BY <1>8 DEF Book!BookNext

\* The table keeps the promises of CfdBook in every interleaving of calls,
\* whatever fails.
THEOREM TableImplementsBook == Spec => KeepsBook
<1>1. Known /\ [Next]_vars => [Book!BookNext]_(Book!bookVars)
  BY BookStep
<1> QED
  BY BookInitially, <1>1, Knowledge, PTL DEF Spec, KeepsBook, Book!BookSpec
=============================================================================
