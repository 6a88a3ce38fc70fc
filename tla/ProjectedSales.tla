--------------------------- MODULE ProjectedSales ---------------------------
(***************************************************************************)
(* What the return projection sees of the sale projection: which sales     *)
(* have an accepted event to project, for which the winner's processing    *)
(* row says so, and which have a row in sales_projection to lock.  A sale  *)
(* appears and is processed in one step; a rebuild takes the rows away     *)
(* first and reopens the processing rows later, and a projector that is    *)
(* at work meanwhile may bring a sale back in between.                     *)
(***************************************************************************)
CONSTANTS Sales

VARIABLES saleIn, saleDone, saleUp, rebuild

vars == <<saleIn, saleDone, saleUp, rebuild>>

Init ==
    /\ saleIn = {} /\ saleDone = {} /\ saleUp = {}
    /\ rebuild = "idle"

Accept(s) ==
    /\ s \notin saleIn
    /\ saleIn' = saleIn \cup {s}
    /\ UNCHANGED <<saleDone, saleUp, rebuild>>

Appear(s) ==
    /\ s \in saleIn \ saleDone
    /\ saleDone' = saleDone \cup {s}
    /\ saleUp' = saleUp \cup {s}
    /\ UNCHANGED <<saleIn, rebuild>>

Clear ==
    /\ rebuild = "idle"
    /\ saleUp' = {}
    /\ rebuild' = "cleared"
    /\ UNCHANGED <<saleIn, saleDone>>

Reset ==
    /\ rebuild = "cleared"
    /\ saleDone' = {}
    /\ rebuild' = "idle"
    /\ UNCHANGED <<saleIn, saleUp>>

Next ==
    \/ \E s \in Sales : Accept(s) \/ Appear(s)
    \/ Clear
    \/ Reset

Safe == Init /\ [][Next]_vars
=============================================================================
