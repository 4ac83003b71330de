-------------------------------- MODULE Gate --------------------------------
(***************************************************************************)
(* What a limit is worth when it is checked in one statement and consumed  *)
(* in a later one: a client that has seen the count below the limit adds   *)
(* one to it whatever the others have done in between.                     *)
(***************************************************************************)
EXTENDS Naturals, FiniteSets

CONSTANTS Client, Limit

VARIABLES count, through

GateInit == count = 0 /\ through = {}

Enter(c) == count < Limit /\ through' = through \cup {c} /\ UNCHANGED count

Take(c) == c \in through /\ through' = through \ {c} /\ count' = count + 1

\* The client gives up or dies, or what was taken is forgotten with time.
Leave(c) == c \in through /\ through' = through \ {c} /\ UNCHANGED count
Forget == count' \in 0..count /\ UNCHANGED through

GateNext == (\E c \in Client : Enter(c) \/ Take(c) \/ Leave(c)) \/ Forget

\* One step of the gate, or none.
GateStep == UNCHANGED <<count, through>> \/ GateNext

GateSpec == GateInit /\ [][GateNext]_<<count, through>>

\* The limit is overrun by the clients that were through when it was reached,
\* less the one that reached it, and by no more.
GateHolds == through \subseteq Client /\ count < Limit + Cardinality(Client)
=============================================================================
