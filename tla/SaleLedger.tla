----------------------------- MODULE SaleLedger -----------------------------
(***************************************************************************)
(* What the sale projection promises to the reports that read it, without  *)
(* workers, processing rows, retries or crashes: of the accepted events    *)
(* that claim a sale one becomes its permanent winner, and the book (the   *)
(* rows of sales_projection) only ever shows a sale as its winner wrote    *)
(* it.  The book may be discarded and is then written again.               *)
(***************************************************************************)
CONSTANTS Events, Sales, SaleOf, Invalid, NoEvent

VARIABLES inbox,    \* the accepted events
          winner,   \* sale -> the event that owns it, for ever
          book      \* sale -> the event its projected rows come from

vars == <<inbox, winner, book>>

Init ==
    /\ inbox = {}
    /\ winner = [s \in Sales |-> NoEvent]
    /\ book = [s \in Sales |-> NoEvent]

Accept(e) ==
    /\ e \notin inbox
    /\ inbox' = inbox \cup {e}
    /\ UNCHANGED <<winner, book>>

\* The first valid claimant wins; nothing ever replaces it.
Decide(s, e) ==
    /\ winner[s] = NoEvent
    /\ e \in inbox \ Invalid
    /\ SaleOf[e] = s
    /\ winner' = [winner EXCEPT ![s] = e]
    /\ UNCHANGED <<inbox, book>>

Post(s) ==
    /\ winner[s] # NoEvent
    /\ book' = [book EXCEPT ![s] = winner[s]]
    /\ UNCHANGED <<inbox, winner>>

\* A rebuild clears the derived rows and keeps the winners.
Discard ==
    /\ book' = [s \in Sales |-> NoEvent]
    /\ UNCHANGED <<inbox, winner>>

Next ==
    \/ \E e \in Events : Accept(e)
    \/ \E s \in Sales, e \in Events : Decide(s, e)
    \/ \E s \in Sales : Post(s)
    \/ Discard

Safe == Init /\ [][Next]_vars

Decided(s) == \E e \in Events : Decide(s, e)

Spec ==
    /\ Safe
    /\ \A s \in Sales : WF_vars(Decided(s)) /\ WF_vars(Post(s))
=============================================================================
