------------------------------ MODULE CfdBook ------------------------------
(***************************************************************************)
(* What the cfd table promises about the custom outputs of the channel: a  *)
(* row is written for an output only after LDK agreed to add it, it starts *)
(* Open, it becomes Closed at a price LDK agreed to remove the output at,  *)
(* and from then on it stays Closed.  No row is deleted, and none changes  *)
(* its position.                                                           *)
(***************************************************************************)
EXTENDS Naturals

CONSTANTS Output, Null

VARIABLES
    cfds,       \* the row of each custom output, Null if there is none
    added,      \* outputs LDK agreed to add
    agreed      \* per output: the closing prices LDK agreed to remove it at

bookVars == <<cfds, added, agreed>>

Positions == {"Long", "Short"}
OpenRow(position) == [position |-> position, state |-> "Open", price |-> Null]
ClosedRow(position, price) ==
    [position |-> position, state |-> "Closed", price |-> price]

BookInit ==
    /\ cfds = [o \in Output |-> Null]
    /\ added = {}
    /\ agreed = [o \in Output |-> {}]

AgreeToAdd(o) ==
    /\ o \notin added
    /\ added' = added \cup {o}
    /\ UNCHANGED <<cfds, agreed>>

AgreeToRemove(o) ==
    /\ o \in added
    /\ agreed'[o] \subseteq Nat /\ agreed[o] \subseteq agreed'[o]
    /\ agreed' = [agreed EXCEPT ![o] = agreed'[o]]
    /\ UNCHANGED <<cfds, added>>

WriteOpen(o) ==
    /\ o \in added /\ cfds[o] = Null
    /\ \E position \in Positions :
          cfds' = [cfds EXCEPT ![o] = OpenRow(position)]
    /\ UNCHANGED <<added, agreed>>

WriteClosed(o) ==
    /\ cfds[o] # Null
    /\ \E price \in agreed[o] :
          cfds' = [cfds EXCEPT ![o] = ClosedRow(cfds[o].position, price)]
    /\ UNCHANGED <<added, agreed>>

BookNext == \E o \in Output : \/ AgreeToAdd(o) \/ AgreeToRemove(o)
                              \/ WriteOpen(o) \/ WriteClosed(o)

BookSpec == BookInit /\ [][BookNext]_bookVars
=============================================================================
