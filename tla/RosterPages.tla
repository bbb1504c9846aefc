----------------------------- MODULE RosterPages -----------------------------
(***************************************************************************)
(* The roster before the event and at the gate: imports and edits of the   *)
(* roster in detail (RosterImport), and the page on which people are       *)
(* checked in as they arrive (Gate).  The one abstracts the arrivals and   *)
(* the other the statements of an import, so a behaviour is one of either  *)
(* and the other stays as it is at first.                                  *)
(***************************************************************************)
EXTENDS RosterImport, Gate

VARIABLE atGate

rosterVars == <<atGate, vars, gateVars>>

RosterPagesInit == atGate \in BOOLEAN /\ Init /\ GateInit

RosterPagesNext ==
    \/ ~atGate /\ Next /\ UNCHANGED <<atGate, gateVars>>
    \/ atGate /\ GateNext /\ UNCHANGED <<atGate, vars>>

RosterPagesSpec == RosterPagesInit /\ [][RosterPagesNext]_rosterVars

\* The attendee rows, the copies requests hold of them, and what the page at
\* the gate shows and waits for are of their types.
RosterPagesTypeOK == IF atGate THEN GateTypeOK ELSE TypeOK

=============================================================================
