----------------------------- MODULE BookedFacts -----------------------------
(***************************************************************************)
(* What the reports see of a projection, of the sales or of the returns:   *)
(* which facts are accepted, which have their rows in the derived tables,  *)
(* and which are blocked.  A fact is booked or blocked once, and stays so  *)
(* until an operator has it tried again or rebuilds the tables.  A rebuild *)
(* takes the rows away first and reopens the processing rows later; what   *)
(* was booked in between is tried again, and may then be blocked although  *)
(* its rows are there.                                                     *)
(***************************************************************************)
CONSTANT Facts

VARIABLES inboxed, booked, refused, rebuilt

vars == <<inboxed, booked, refused, rebuilt>>

Init == inboxed = {} /\ booked = {} /\ refused = {} /\ rebuilt = FALSE

Accept(f) ==
    /\ f \notin inboxed
    /\ inboxed' = inboxed \cup {f}
    /\ UNCHANGED <<booked, refused, rebuilt>>

Book(f) ==
    /\ f \in inboxed \ (booked \cup refused)
    /\ booked' = booked \cup {f}
    /\ UNCHANGED <<inboxed, refused, rebuilt>>

Block(f) ==
    /\ f \in inboxed \ refused
    /\ f \notin booked \/ rebuilt
    /\ refused' = refused \cup {f}
    /\ UNCHANGED <<inboxed, booked, rebuilt>>

Reopen(f) ==
    /\ f \in refused
    /\ refused' = refused \ {f}
    /\ UNCHANGED <<inboxed, booked, rebuilt>>

Clear ==
    /\ booked' = {} /\ rebuilt' = TRUE
    /\ UNCHANGED <<inboxed, refused>>

Reset ==
    /\ rebuilt /\ refused' = {}
    /\ UNCHANGED <<inboxed, booked, rebuilt>>

Projects == \E f \in Facts : Accept(f) \/ Book(f) \/ Block(f)
Operates == (\E f \in Facts : Reopen(f)) \/ Clear \/ Reset

Safe == Init /\ [][Projects \/ Operates]_vars
=============================================================================
