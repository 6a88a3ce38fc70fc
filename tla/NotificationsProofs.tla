------------------------- MODULE NotificationsProofs -------------------------
(***************************************************************************)
(* What Notifications guarantees for every number of dispatchers, messages *)
(* and callbacks, and for any bound on lapses and postponements, and what  *)
(* ReportRuns and Operations, which enqueue into it, do over it, each with *)
(* the dispatchers and both at once (Messaging).                           *)
(***************************************************************************)
EXTENDS Messaging, FiniteSetTheorems, TLAPS

Busy(d) == courier[d].at # "idle"
On(d, k) == Busy(d) /\ courier[d].key = k
Current(d) == Busy(d) /\ courier[d].gen = outbox[courier[d].key].gen

\* A claim has a generation of its own, and while no other came after it the
\* row is its own too.
ClaimsAreTheirOwn ==
    /\ \A d \in Dispatchers : Busy(d) =>
        /\ courier[d].gen >= 1 /\ courier[d].gen <= outbox[courier[d].key].gen
        /\ Current(d) => Holds(d)
    /\ \A d, e \in Dispatchers :
        Busy(d) /\ On(e, courier[d].key) /\ courier[d].gen = courier[e].gen => d = e

\* Every claim after the first was paid for by a lapse or a postponement, and
\* one more is possible only when that has been paid for too.
Paid(k) ==
    /\ outbox[k].gen <= lapses + postponed + 1
    /\ outbox[k].st \in Waiting \cup {"none"} /\ ~outbox[k].live =>
        outbox[k].gen <= lapses + postponed
    /\ outbox[k].live /\ ~UnderWay(k) => outbox[k].gen <= lapses + postponed
    /\ \A d \in Dispatchers :
        On(d, k) /\ Current(d) /\ courier[d].at = "answered" /\ courier[d].answer = "retry" =>
            outbox[k].gen <= lapses + postponed
ClaimsArePaid == \A k \in Keys : Paid(k)

\* What is not enqueued has no past.
NothingBefore ==
    \A k \in Keys : outbox[k].st = "none" => outbox[k] = NoMessage /\ reached[k] = 0

\* Who is sending is the only one, has left its mark, and whoever claimed
\* after it knows no more than that.
SendersAreMarked ==
    \A d \in Dispatchers : courier[d].at = "sending" =>
        /\ reached[courier[d].key] = 0
        /\ outbox[courier[d].key].started
        /\ outbox[courier[d].key].st \in Waiting \cup {"ambiguous"}
        /\ \A e \in Dispatchers :
            On(e, courier[d].key) /\ courier[e].gen > courier[d].gen =>
                courier[e].at = "answered" /\ courier[e].answer = "ambiguous"

\* A message that went out leaves its mark for good, and nobody who could
\* write its row would send it, postpone it or block it.
Marked(k) ==
    /\ reached[k] \in {0, 1}
    /\ reached[k] = 1 =>
        /\ outbox[k].started /\ outbox[k].st \in Waiting \cup {"accepted", "ambiguous"}
        /\ \A d \in Dispatchers : On(d, k) /\ Current(d) =>
            courier[d].at = "answered" /\ courier[d].answer \in {"accepted", "ambiguous"}
ReachedIsMarked == \A k \in Keys : Marked(k)

\* Accepted is only said of what went out, and only an unmarked row is sent.
AcceptedReached ==
    /\ \A k \in Keys : outbox[k].st = "accepted" => reached[k] = 1
    /\ \A d \in Dispatchers : Current(d) =>
        /\ courier[d].at = "claimed" => ~outbox[courier[d].key].started
        /\ courier[d].at = "answered" /\ courier[d].answer = "accepted" =>
            reached[courier[d].key] = 1

NoEarlyCallbacks == \A k \in Keys : outbox[k].st # "accepted" => history[k] = {}

Inv ==
    /\ NoteTypeOK /\ ClaimsAreTheirOwn /\ ClaimsArePaid /\ NothingBefore
    /\ SendersAreMarked /\ ReachedIsMarked /\ AcceptedReached
    /\ NoEarlyCallbacks /\ DeliveryIsLatest
-----------------------------------------------------------------------------
LEMMA CourierParts ==
  ASSUME NoteTypeOK, NEW d \in Dispatchers
  PROVE  \/ courier[d] = AtRest /\ courier[d].at = "idle"
         \/ /\ courier[d].at \in {"claimed", "sending"}
            /\ courier[d] \in [at : {"claimed", "sending"}, key : Keys, gen : Generations]
            /\ courier[d].key \in Keys /\ courier[d].gen \in Generations
         \/ /\ courier[d].at = "answered"
            /\ courier[d] \in [at : {"answered"}, key : Keys, gen : Generations, answer : Answers]
            /\ courier[d].key \in Keys /\ courier[d].gen \in Generations
            /\ courier[d].answer \in Answers
<1>1. courier[d] \in CourierStates
  BY DEF NoteTypeOK
<1>2. CASE courier[d] = AtRest
  BY <1>2 DEF AtRest
<1>3. CASE courier[d] \in [at : {"claimed", "sending"}, key : Keys, gen : Generations]
  BY <1>3
<1>4. CASE courier[d] \in [at : {"answered"}, key : Keys, gen : Generations, answer : Answers]
  BY <1>4
<1>5. QED BY <1>1, <1>2, <1>3, <1>4 DEF CourierStates

LEMMA RowParts ==
  ASSUME NoteTypeOK, NEW k \in Keys
  PROVE  /\ outbox[k] \in Messages
         /\ outbox[k].st \in Waiting \cup Settled \cup {"none"}
         /\ outbox[k].gen \in Generations /\ outbox[k].gen \in Nat
         /\ outbox[k].live \in BOOLEAN /\ outbox[k].started \in BOOLEAN
         /\ outbox[k].owner \in Dispatchers \cup {Nobody}
         /\ reached[k] \in Nat /\ lapses \in Nat /\ postponed \in Nat
  BY NotificationAssumption DEF NoteTypeOK, Messages, Generations
-----------------------------------------------------------------------------
(* The delivery status of one row.                                         *)

Known(h) == {e \in h : e[1] # "UNKNOWN"}
Newer(e, f) == e[2] > f[2] \/ (e[2] = f[2] /\ Precedence(e[1]) > Precedence(f[1]))
Latest(row, h) ==
    row.st = "accepted" =>
        IF Known(h) = {} THEN row.delivery = <<"ACCEPTED", 0>>
        ELSE row.delivery \in Known(h) /\ \A e \in Known(h) : ~Newer(e, row.delivery)

LEMMA DeliveryByRow == DeliveryIsLatest <=> \A k \in Keys : Latest(outbox[k], history[k])
  BY DEF DeliveryIsLatest, Latest, Known, Newer

LEMMA DeliveryByRowThen == DeliveryIsLatest' <=> \A k \in Keys : Latest(outbox'[k], history'[k])
  BY DEF DeliveryIsLatest, Latest, Known, Newer

LEMMA LatestOfOpen ==
  ASSUME NEW row, NEW h, row.st # "accepted"
  PROVE  Latest(row, h)
  BY DEF Latest

LEMMA LatestOfSame ==
  ASSUME NEW row, NEW new, NEW h, Latest(row, h), new.st = row.st, new.delivery = row.delivery
  PROVE  Latest(new, h)
  BY DEF Latest
-----------------------------------------------------------------------------
LEMMA NewMessageParts ==
  ASSUME NEW c \in Contents
  PROVE  /\ NewMessage(c) \in Messages
         /\ NewMessage(c).st = "pending" /\ NewMessage(c).owner = Nobody
         /\ NewMessage(c).gen = 0 /\ NewMessage(c).live = FALSE
         /\ NewMessage(c).started = FALSE /\ NewMessage(c).delivery = Nothing
<1>1. NoMessage \in Messages
  BY NotificationAssumption DEF NoMessage, Messages, Generations
<1>2. QED BY <1>1 DEF NewMessage, Messages, NoMessage, Waiting

LEMMA EnqueueKeeps ==
  ASSUME Inv, NEW k \in Keys, NEW c \in Contents, EnqueueNotification(k, c)
  PROVE  Inv'
<1> DEFINE new == NewMessage(c)
<1>1. /\ new \in Messages /\ new.st = "pending" /\ new.owner = Nobody /\ new.gen = 0
      /\ new.live = FALSE /\ new.started = FALSE /\ new.delivery = Nothing
  BY NewMessageParts
<1> HIDE DEF new
<1>2. /\ outbox[k].st = "none" /\ outbox' = [outbox EXCEPT ![k] = new]
      /\ UNCHANGED <<history, courier, reached, lapses, postponed>>
  BY DEF EnqueueNotification, AfterEnqueue, new
<1>3. /\ outbox'[k] = new /\ \A j \in Keys : j # k => outbox'[j] = outbox[j]
      /\ outbox[k].gen = 0 /\ reached[k] = 0
  BY <1>2 DEF Inv, NoteTypeOK, NothingBefore, NoMessage
<1>4. \A d \in Dispatchers : ~On(d, k)
  BY <1>2, <1>3, CourierParts, NotificationAssumption
     DEF Inv, ClaimsAreTheirOwn, On, Busy, Generations
<1>5. NoteTypeOK'
  BY <1>1, <1>2, <1>3 DEF Inv, NoteTypeOK, Waiting
<1>6. ClaimsAreTheirOwn'
  BY <1>2, <1>3, <1>4, CourierParts DEF Inv, ClaimsAreTheirOwn, On, Busy, Current, Holds
<1>7. ClaimsArePaid'
  <2> SUFFICES ASSUME NEW j \in Keys PROVE Paid(j)'
    BY DEF ClaimsArePaid
  <2>1. CASE j = k
    BY <1>1, <1>2, <1>3, <1>4, <2>1, RowParts DEF Paid, On, Busy, Inv
  <2>2. CASE j # k
    BY <1>2, <1>3, <2>2, CourierParts DEF Inv, ClaimsArePaid, Paid, On, Busy, Current, UnderWay
  <2>3. QED BY <2>1, <2>2
<1>8. NothingBefore'
  BY <1>1, <1>2, <1>3 DEF Inv, NothingBefore
<1>9. SendersAreMarked'
  BY <1>2, <1>3, <1>4, CourierParts DEF Inv, SendersAreMarked, On, Busy
<1>10. ReachedIsMarked'
  BY <1>2, <1>3, <1>4, CourierParts DEF Inv, ReachedIsMarked, Marked, On, Busy, Current
<1>11. AcceptedReached'
  BY <1>1, <1>2, <1>3, <1>4, CourierParts DEF Inv, AcceptedReached, On, Busy, Current
<1>12. NoEarlyCallbacks' /\ DeliveryIsLatest'
  <2>1. NoEarlyCallbacks'
    BY <1>1, <1>2, <1>3 DEF Inv, NoEarlyCallbacks
  <2>2. DeliveryIsLatest'
    BY <1>1, <1>2, <1>3, DeliveryByRow, DeliveryByRowThen, LatestOfOpen DEF Inv
  <2>3. QED BY <2>1, <2>2
<1>13. QED
  BY <1>5, <1>6, <1>7, <1>8, <1>9, <1>10, <1>11, <1>12 DEF Inv
-----------------------------------------------------------------------------
LEMMA ClaimKeeps ==
  ASSUME Inv, NEW d \in Dispatchers, NEW k \in Keys, ClaimNotification(d, k)
  PROVE  Inv'
<1> DEFINE old == outbox[k]
           new == [old EXCEPT !.owner = d, !.gen = @ + 1, !.live = TRUE]
           job == IF old.started
                  THEN [at |-> "answered", key |-> k, gen |-> old.gen + 1, answer |-> "ambiguous"]
                  ELSE [at |-> "claimed", key |-> k, gen |-> old.gen + 1]
<1>1. /\ courier[d].at = "idle" /\ old.st \in Waiting /\ old.live = FALSE
      /\ outbox' = [outbox EXCEPT ![k] = new] /\ courier' = [courier EXCEPT ![d] = job]
      /\ UNCHANGED <<history, reached, lapses, postponed>>
  BY RowParts DEF ClaimNotification, Claimable, SendStarted, Inv
<1>2. /\ lapses \in Nat /\ postponed \in Nat
      /\ old.gen \in Nat /\ old.gen <= lapses + postponed /\ old.gen + 1 \in Generations
  BY <1>1, RowParts, NotificationAssumption
     DEF Inv, ClaimsArePaid, Paid, NoteTypeOK, Generations
<1>3. /\ new \in Messages /\ new.st = old.st /\ new.owner = d /\ new.gen = old.gen + 1
      /\ new.live = TRUE /\ new.started = old.started /\ new.delivery = old.delivery
  BY <1>2, RowParts DEF Messages, Inv
<1>4. /\ job \in CourierStates /\ job.key = k /\ job.gen = old.gen + 1 /\ job.at # "idle"
      /\ job.at # "sending" /\ (job.at = "claimed" => ~old.started)
      /\ job.at = "answered" => job.answer = "ambiguous"
      /\ old.started => job.at = "answered"
  BY <1>2 DEF CourierStates, Answers
<1> HIDE DEF new, job
<1>5. /\ outbox'[k] = new /\ \A j \in Keys : j # k => outbox'[j] = outbox[j]
      /\ courier'[d] = job /\ \A e \in Dispatchers : e # d => courier'[e] = courier[e]
  BY <1>1 DEF Inv, NoteTypeOK
<1>6. NoteTypeOK'
  BY <1>1, <1>3, <1>4, <1>5, NotificationAssumption DEF Inv, NoteTypeOK
<1>7. ClaimsAreTheirOwn'
  <2>1. \A e \in Dispatchers : On(e, k) => courier[e].gen < new.gen /\ courier[e].gen \in Nat
    BY <1>2, <1>3, CourierParts, RowParts, NotificationAssumption
       DEF Inv, ClaimsAreTheirOwn, On, Busy, Generations
  <2>2. ASSUME NEW e \in Dispatchers, Busy(e)'
        PROVE  /\ courier'[e].gen >= 1 /\ courier'[e].gen <= outbox'[courier'[e].key].gen
               /\ Current(e)' => Holds(e)'
    <3>1. CASE e = d
      BY <1>1, <1>2, <1>3, <1>4, <1>5, <3>1 DEF Holds
    <3>2. CASE e # d /\ courier[e].key = k
      BY <1>2, <1>3, <1>5, <2>1, <2>2, <3>2 DEF Inv, ClaimsAreTheirOwn, Busy, Current, Holds, On
    <3>3. CASE e # d /\ courier[e].key # k
      BY <1>5, <2>2, <3>3, CourierParts DEF Inv, ClaimsAreTheirOwn, Busy, Current, Holds
    <3>4. QED BY <3>1, <3>2, <3>3
  <2>3. ASSUME NEW e \in Dispatchers, NEW f \in Dispatchers,
               Busy(e)', On(f, courier[e].key)', courier'[e].gen = courier'[f].gen
        PROVE  e = f
    BY <1>2, <1>3, <1>4, <1>5, <2>1, <2>3 DEF Inv, ClaimsAreTheirOwn, Busy, On
  <2>4. QED BY <2>2, <2>3 DEF ClaimsAreTheirOwn
<1>8. ClaimsArePaid'
  <2> SUFFICES ASSUME NEW j \in Keys PROVE Paid(j)'
    BY DEF ClaimsArePaid
  <2>1. CASE j = k
    <3>1. UnderWay(k)'
      BY <1>3, <1>4, <1>5 DEF UnderWay
    <3>2. \A e \in Dispatchers : On(e, k)' /\ Current(e)' => e = d
      BY <1>3, <1>4, <1>5, <1>7 DEF ClaimsAreTheirOwn, On, Current, Busy
    <3>3. \A e \in Dispatchers : ~(On(e, k)' /\ Current(e)' /\ courier'[e].at = "answered"
                                    /\ courier'[e].answer = "retry")
      BY <1>4, <1>5, <3>2
    <3>4. new.gen <= lapses' + postponed' + 1
      BY <1>1, <1>2, <1>3
    <3>5. QED BY <1>3, <1>5, <2>1, <3>1, <3>3, <3>4 DEF Paid
  <2>2. CASE j # k
    BY <1>1, <1>4, <1>5, <2>2, CourierParts
       DEF Inv, ClaimsArePaid, Paid, On, Busy, Current, UnderWay
  <2>3. QED BY <2>1, <2>2
<1>9. NothingBefore'
  BY <1>1, <1>3, <1>5 DEF Inv, NothingBefore, Waiting
<1>10. SendersAreMarked'
  <2> SUFFICES ASSUME NEW s \in Dispatchers, courier'[s].at = "sending"
               PROVE  /\ reached'[courier'[s].key] = 0
                      /\ outbox'[courier'[s].key].started
                      /\ outbox'[courier'[s].key].st \in Waiting \cup {"ambiguous"}
                      /\ \A e \in Dispatchers :
                            On(e, courier[s].key)' /\ courier'[e].gen > courier'[s].gen =>
                                courier'[e].at = "answered" /\ courier'[e].answer = "ambiguous"
    BY DEF SendersAreMarked
  <2>1. s # d /\ courier'[s] = courier[s] /\ courier[s].at = "sending"
    BY <1>4, <1>5
  <2>0. courier[s].key \in Keys
    BY <2>1, CourierParts DEF Inv
  <2>2. /\ reached[courier[s].key] = 0 /\ outbox[courier[s].key].started
        /\ outbox[courier[s].key].st \in Waiting \cup {"ambiguous"}
        /\ \A e \in Dispatchers :
            On(e, courier[s].key) /\ courier[e].gen > courier[s].gen =>
                courier[e].at = "answered" /\ courier[e].answer = "ambiguous"
    BY <2>1 DEF Inv, SendersAreMarked
  <2>3. ASSUME NEW e \in Dispatchers,
               On(e, courier[s].key)' /\ courier'[e].gen > courier'[s].gen
        PROVE  courier'[e].at = "answered" /\ courier'[e].answer = "ambiguous"
    <3>1. CASE e = d
      BY <1>4, <1>5, <2>1, <2>2, <2>3, <3>1 DEF On
    <3>2. CASE e # d
      BY <1>5, <2>1, <2>2, <2>3, <3>2 DEF On, Busy
    <3>3. QED BY <3>1, <3>2
  <2>4. reached'[courier'[s].key] = 0 /\ outbox'[courier'[s].key].started
        /\ outbox'[courier'[s].key].st \in Waiting \cup {"ambiguous"}
    BY <1>1, <1>3, <1>5, <2>0, <2>1, <2>2
  <2>5. QED BY <2>3, <2>4
<1>11. ReachedIsMarked'
  <2> SUFFICES ASSUME NEW j \in Keys PROVE Marked(j)'
    BY DEF ReachedIsMarked
  <2>1. CASE j = k
    <3>1. \A e \in Dispatchers : On(e, k)' /\ Current(e)' => e = d
      BY <1>3, <1>4, <1>5, <1>7 DEF ClaimsAreTheirOwn, On, Current, Busy
    <3>2. QED BY <1>1, <1>3, <1>4, <1>5, <2>1, <3>1 DEF Inv, ReachedIsMarked, Marked
  <2>2. CASE j # k
    BY <1>1, <1>4, <1>5, <2>2, CourierParts DEF Inv, ReachedIsMarked, Marked, On, Busy, Current
  <2>3. QED BY <2>1, <2>2
<1>12. AcceptedReached'
  <2>1. \A j \in Keys : outbox'[j].st = "accepted" => reached'[j] = 1
    BY <1>1, <1>3, <1>5 DEF Inv, AcceptedReached
  <2>2. ASSUME NEW e \in Dispatchers, Current(e)'
        PROVE  /\ courier'[e].at = "claimed" => ~outbox'[courier'[e].key].started
               /\ courier'[e].at = "answered" /\ courier'[e].answer = "accepted" =>
                    reached'[courier'[e].key] = 1
    <3>1. CASE e = d
      BY <1>3, <1>4, <1>5, <3>1
    <3>2. CASE e # d
      <4>1. courier[e].key # k
        BY <1>3, <1>4, <1>5, <1>7, <2>2, <3>2 DEF ClaimsAreTheirOwn, On, Current, Busy
      <4>2. QED
        BY <1>1, <1>5, <2>2, <3>2, <4>1, CourierParts DEF Inv, AcceptedReached, Current, Busy
    <3>3. QED BY <3>1, <3>2
  <2>3. QED BY <2>1, <2>2 DEF AcceptedReached
<1>13. NoEarlyCallbacks'
  BY <1>1, <1>3, <1>5 DEF Inv, NoEarlyCallbacks
<1>14. DeliveryIsLatest'
  BY <1>1, <1>3, <1>5, DeliveryByRow, DeliveryByRowThen, LatestOfSame DEF Inv
<1>15. QED
  BY <1>6, <1>7, <1>8, <1>9, <1>10, <1>11, <1>12, <1>13, <1>14 DEF Inv
-----------------------------------------------------------------------------
(* A dispatcher that lets its message go: it dies, or its row is no longer *)
(* its own.                                                                *)

LEMMA StopKeeps ==
  ASSUME Inv, NEW d \in Dispatchers, courier' = [courier EXCEPT ![d] = AtRest],
         UNCHANGED <<outbox, history, reached, postponed>>,
         \/ lapses < MaxLapses /\ lapses' = lapses + 1
         \/ lapses' = lapses /\ ~Current(d)
  PROVE  Inv'
<1>1. /\ courier'[d] = AtRest /\ courier'[d].at = "idle"
      /\ \A e \in Dispatchers : e # d => courier'[e] = courier[e]
  BY DEF Inv, NoteTypeOK, AtRest
<1>2. NoteTypeOK'
  BY <1>1, NotificationAssumption DEF Inv, NoteTypeOK, CourierStates
<1>3. ClaimsAreTheirOwn'
  BY <1>1 DEF Inv, ClaimsAreTheirOwn, On, Busy, Current, Holds
<1>4. ClaimsArePaid'
  <2> SUFFICES ASSUME NEW j \in Keys PROVE Paid(j)'
    BY DEF ClaimsArePaid
  <2>1. lapses \in Nat /\ postponed \in Nat /\ outbox[j].gen \in Nat /\ lapses' \in Nat
        /\ lapses' >= lapses
    BY RowParts DEF Inv
  <2>2. Paid(j)
    BY DEF Inv, ClaimsArePaid
  <2>3. outbox[j].live /\ ~UnderWay(j)' => outbox[j].gen <= lapses' + postponed
    <3>1. CASE lapses' = lapses + 1
      BY <2>1, <2>2, <3>1 DEF Paid
    <3>2. CASE lapses' = lapses /\ ~Current(d)
      <4>1. UnderWay(j) => UnderWay(j)'
        BY <1>1, <3>2 DEF UnderWay, Current, Busy
      <4>2. QED BY <2>1, <2>2, <3>2, <4>1 DEF Paid
    <3>3. QED BY <3>1, <3>2
  <2>4. \A e \in Dispatchers :
            (On(e, j) /\ Current(e) /\ courier[e].at = "answered" /\ courier[e].answer = "retry")'
                => outbox[j].gen <= lapses' + postponed
    BY <1>1, <2>1, <2>2 DEF Paid, On, Current, Busy
  <2>5. outbox[j].gen <= lapses' + postponed + 1
        /\ (outbox[j].st \in Waiting \cup {"none"} /\ ~outbox[j].live =>
                outbox[j].gen <= lapses' + postponed)
    BY <2>1, <2>2 DEF Paid
  <2>6. QED BY <2>3, <2>4, <2>5 DEF Paid
<1>5. NothingBefore'
  BY DEF Inv, NothingBefore
<1>6. SendersAreMarked'
  BY <1>1 DEF Inv, SendersAreMarked, On, Busy
<1>7. ReachedIsMarked'
  BY <1>1 DEF Inv, ReachedIsMarked, Marked, On, Busy, Current
<1>8. AcceptedReached'
  BY <1>1 DEF Inv, AcceptedReached, Busy, Current
<1>9. NoEarlyCallbacks' /\ DeliveryIsLatest'
  BY DeliveryByRow, DeliveryByRowThen DEF Inv, NoEarlyCallbacks
<1>10. QED
  BY <1>2, <1>3, <1>4, <1>5, <1>6, <1>7, <1>8, <1>9 DEF Inv

LEMMA FailKeeps ==
  ASSUME Inv, NEW d \in Dispatchers, DispatcherFails(d)
  PROVE  Inv'
  BY StopKeeps DEF DispatcherFails

\* The row of a claim that is not held has gone to another.
LEMMA HeldIsCurrent ==
  ASSUME Inv, NEW d \in Dispatchers, Busy(d)
  PROVE  Holds(d) <=> Current(d)
<1>1. Current(d) => Holds(d)
  BY DEF Inv, ClaimsAreTheirOwn
<1>2. Holds(d) => Current(d)
  BY DEF Holds, Current
<1>3. QED BY <1>1, <1>2
-----------------------------------------------------------------------------
LEMMA MarkKeeps ==
  ASSUME Inv, NEW d \in Dispatchers, MarkNotificationSendStarted(d)
  PROVE  Inv'
<1> DEFINE k == courier[d].key
           old == outbox[k]
           new == [old EXCEPT !.started = TRUE]
           job == [courier[d] EXCEPT !.at = "sending"]
<1>1. Busy(d) /\ courier[d].at = "claimed" /\ k \in Keys
      /\ courier[d] \in [at : {"claimed", "sending"}, key : Keys, gen : Generations]
  BY CourierParts DEF MarkNotificationSendStarted, Busy, Inv
<1>2. CASE ~Holds(d)
  <2>1. courier' = [courier EXCEPT ![d] = AtRest]
        /\ UNCHANGED <<outbox, history, reached, lapses, postponed>>
    BY <1>2 DEF MarkNotificationSendStarted
  <2>2. QED BY <1>1, <1>2, <2>1, HeldIsCurrent, StopKeeps
<1>3. CASE Holds(d)
  <2>1. /\ outbox' = [outbox EXCEPT ![k] = new] /\ courier' = [courier EXCEPT ![d] = job]
        /\ UNCHANGED <<history, reached, lapses, postponed>>
    <3>1. outbox' = [outbox EXCEPT ![courier[d].key].started = TRUE]
          /\ courier' = [courier EXCEPT ![d].at = "sending"]
          /\ UNCHANGED <<history, reached, lapses, postponed>>
      BY <1>3 DEF MarkNotificationSendStarted
    <3>2. QED BY <3>1
  <2>2. Current(d) /\ old.st \in Waiting /\ old.gen = courier[d].gen
    BY <1>1, <1>3, HeldIsCurrent DEF Holds
  <2>3. /\ new \in Messages /\ new.st = old.st /\ new.owner = old.owner /\ new.gen = old.gen
        /\ new.live = old.live /\ new.started = TRUE /\ new.delivery = old.delivery
        /\ old.gen \in Nat
    <3>1. old \in Messages /\ old.gen \in Nat
      BY <1>1, RowParts DEF Inv
    <3>2. \A row \in Messages : LET m == [row EXCEPT !.started = TRUE] IN
            /\ m \in Messages /\ m.st = row.st /\ m.owner = row.owner /\ m.gen = row.gen
            /\ m.live = row.live /\ m.started = TRUE /\ m.delivery = row.delivery
      BY DEF Messages
    <3>3. QED BY <3>1, <3>2
  <2>4. job \in CourierStates /\ job.key = k /\ job.gen = old.gen /\ job.at = "sending"
    BY <1>1, <2>2 DEF CourierStates
  <2>5. ~old.started /\ reached[k] = 0
    BY <1>1, <2>2 DEF Inv, AcceptedReached, ReachedIsMarked, Marked
  <2> HIDE DEF new, job
  <2>6. /\ outbox'[k] = new /\ \A j \in Keys : j # k => outbox'[j] = outbox[j]
        /\ courier'[d] = job /\ \A e \in Dispatchers : e # d => courier'[e] = courier[e]
    BY <1>1, <2>1 DEF Inv, NoteTypeOK
  <2>7. \A j \in Keys : /\ outbox'[j].st = outbox[j].st /\ outbox'[j].gen = outbox[j].gen
                        /\ outbox'[j].live = outbox[j].live
                        /\ outbox'[j].owner = outbox[j].owner
                        /\ outbox'[j].delivery = outbox[j].delivery
                        /\ outbox[j].started => outbox'[j].started
    BY <2>3, <2>6
  <2>8. \A e \in Dispatchers : /\ courier'[e].key = courier[e].key
                               /\ courier'[e].gen = courier[e].gen
                               /\ Busy(e)' <=> Busy(e)
                               /\ Current(e)' <=> Current(e)
    <3>1. courier'[d].key = courier[d].key /\ courier'[d].gen = courier[d].gen
          /\ Busy(d)'
      BY <2>2, <2>4, <2>6 DEF Busy
    <3>2. \A e \in Dispatchers : /\ courier'[e].key = courier[e].key
                                 /\ courier'[e].gen = courier[e].gen
                                 /\ Busy(e)' <=> Busy(e)
      BY <1>1, <2>6, <3>1 DEF Busy
    <3>3. QED BY <2>7, <3>2, CourierParts DEF Current, Busy, Inv
  <2>9. NoteTypeOK'
    BY <1>1, <2>1, <2>3, <2>4, <2>6 DEF Inv, NoteTypeOK
  <2>10. ClaimsAreTheirOwn'
    BY <2>7, <2>8, CourierParts DEF Inv, ClaimsAreTheirOwn, On, Holds, Busy
  <2>11. ClaimsArePaid'
    <3> SUFFICES ASSUME NEW j \in Keys PROVE Paid(j)'
      BY DEF ClaimsArePaid
    <3>1. UnderWay(j)' <=> UnderWay(j)
      BY <2>7, <2>8 DEF UnderWay, Busy
    <3>2. Paid(j)
      BY DEF Inv, ClaimsArePaid
    <3>3. \A e \in Dispatchers :
            (On(e, j) /\ Current(e) /\ courier[e].at = "answered" /\ courier[e].answer = "retry")'
                => outbox[j].gen <= lapses + postponed
      BY <2>4, <2>6, <2>8, <3>2 DEF Paid, On
    <3>4. QED BY <2>1, <2>7, <3>1, <3>2, <3>3 DEF Paid
  <2>12. NothingBefore'
    BY <2>1, <2>2, <2>3, <2>6 DEF Inv, NothingBefore, Waiting
  <2>13. SendersAreMarked'
    <3> SUFFICES ASSUME NEW s \in Dispatchers, courier'[s].at = "sending"
                 PROVE  /\ reached'[courier'[s].key] = 0
                        /\ outbox'[courier'[s].key].started
                        /\ outbox'[courier'[s].key].st \in Waiting \cup {"ambiguous"}
                        /\ \A e \in Dispatchers :
                            On(e, courier[s].key)' /\ courier'[e].gen > courier'[s].gen =>
                                courier'[e].at = "answered" /\ courier'[e].answer = "ambiguous"
      BY DEF SendersAreMarked
    <3>1. CASE s = d
      <4>1. \A e \in Dispatchers : On(e, k) => ~(courier[e].gen > old.gen)
        BY <2>3, CourierParts, NotificationAssumption
           DEF Inv, ClaimsAreTheirOwn, On, Busy, Generations
      <4>2. QED BY <2>1, <2>2, <2>3, <2>4, <2>5, <2>6, <2>8, <3>1, <4>1 DEF On
    <3>2. CASE s # d
      <4>1. courier[s].at = "sending" /\ courier[s].key \in Keys /\ courier'[s] = courier[s]
        BY <2>6, <3>2, CourierParts DEF Inv
      <4>2. courier[s].key # k
        BY <2>5, <4>1 DEF Inv, SendersAreMarked
      <4>3. \A e \in Dispatchers :
                On(e, courier[s].key)' => courier'[e] = courier[e] /\ On(e, courier[s].key)
        BY <2>4, <2>6, <2>8, <4>1, <4>2 DEF On
      <4>4. QED BY <2>1, <2>6, <4>1, <4>2, <4>3 DEF Inv, SendersAreMarked
    <3>3. QED BY <3>1, <3>2
  <2>14. ReachedIsMarked'
    <3> SUFFICES ASSUME NEW j \in Keys PROVE Marked(j)'
      BY DEF ReachedIsMarked
    <3>1. CASE j = k
      BY <1>1, <2>1, <2>5, <3>1 DEF Marked
    <3>2. CASE j # k
      <4>1. \A e \in Dispatchers : On(e, j)' => courier'[e] = courier[e] /\ On(e, j)
        BY <2>4, <2>6, <2>8, <3>2 DEF On
      <4>2. QED BY <2>1, <2>6, <2>8, <3>2, <4>1 DEF Inv, ReachedIsMarked, Marked
    <3>3. QED BY <3>1, <3>2
  <2>15. AcceptedReached'
    <3>1. \A j \in Keys : outbox'[j].st = "accepted" => reached'[j] = 1
      BY <2>1, <2>7 DEF Inv, AcceptedReached
    <3>2. ASSUME NEW e \in Dispatchers, Current(e)'
          PROVE  /\ courier'[e].at = "claimed" => ~outbox'[courier'[e].key].started
                 /\ courier'[e].at = "answered" /\ courier'[e].answer = "accepted" =>
                        reached'[courier'[e].key] = 1
      <4>1. CASE e = d
        BY <2>4, <2>6, <4>1
      <4>2. CASE e # d
        <5>1. Current(e) /\ courier[e].key \in Keys /\ courier'[e] = courier[e]
          BY <2>6, <2>8, <3>2, <4>2, CourierParts DEF Inv, Current, Busy
        <5>2. courier[e].key # k
          BY <1>1, <2>2, <4>2, <5>1 DEF Inv, ClaimsAreTheirOwn, On, Current
        <5>3. QED BY <2>1, <2>6, <5>1, <5>2 DEF Inv, AcceptedReached
      <4>3. QED BY <4>1, <4>2
    <3>3. QED BY <3>1, <3>2 DEF AcceptedReached
  <2>16. NoEarlyCallbacks'
    BY <2>1, <2>7 DEF Inv, NoEarlyCallbacks
  <2>17. DeliveryIsLatest'
    BY <2>1, <2>7, DeliveryByRow, DeliveryByRowThen, LatestOfSame DEF Inv
  <2>18. QED
    BY <2>9, <2>10, <2>11, <2>12, <2>13, <2>14, <2>15, <2>16, <2>17 DEF Inv
<1>4. QED BY <1>2, <1>3
-----------------------------------------------------------------------------
(* A dispatcher that has its answer; sent: whether the message went out.   *)

LEMMA AnswerKeeps ==
  ASSUME Inv, NEW d \in Dispatchers, NEW a \in Answers, NEW sent \in {0, 1},
         courier' = [courier EXCEPT ![d] =
            [at |-> "answered", key |-> courier[d].key, gen |-> courier[d].gen, answer |-> a]],
         reached' \in [Keys -> Nat],
         \A j \in Keys :
            reached'[j] = IF j = courier[d].key THEN reached[j] + sent ELSE reached[j],
         UNCHANGED <<outbox, history, lapses>>,
         postponed' = IF a = "retry" THEN postponed + 1 ELSE postponed,
         postponed' <= MaxPostponed,
         \/ courier[d].at = "claimed" /\ sent = 0 /\ a = "blocked"
         \/ /\ courier[d].at = "sending"
            /\ a = "accepted" => sent = 1
            /\ a \in {"retry", "blocked"} => sent = 0
  PROVE  Inv'
<1> DEFINE k == courier[d].key
           job == [at |-> "answered", key |-> k, gen |-> courier[d].gen, answer |-> a]
<1>1. Busy(d) /\ k \in Keys /\ courier[d].gen \in Generations /\ courier[d].at # "answered"
  BY CourierParts DEF Busy, Inv
<1>2. /\ job \in CourierStates /\ job.at = "answered" /\ job.answer = a
      /\ job.key = k /\ job.gen = courier[d].gen
  BY <1>1 DEF CourierStates
<1> HIDE DEF job
<1>3. courier'[d] = job /\ \A e \in Dispatchers : e # d => courier'[e] = courier[e]
  BY DEF Inv, NoteTypeOK, job
<1>4. \A e \in Dispatchers : /\ courier'[e].key = courier[e].key
                             /\ courier'[e].gen = courier[e].gen
                             /\ Busy(e)' <=> Busy(e)
                             /\ Current(e)' <=> Current(e)
  BY <1>1, <1>2, <1>3 DEF Busy, Current
<1>5. /\ lapses \in Nat /\ postponed \in Nat /\ postponed' \in Nat /\ postponed' >= postponed
      /\ a = "retry" => postponed' = postponed + 1
  BY <1>1, RowParts DEF Inv
<1>6. NoteTypeOK'
  BY <1>2, <1>5 DEF Inv, NoteTypeOK, job
<1>7. ClaimsAreTheirOwn'
  BY <1>4 DEF Inv, ClaimsAreTheirOwn, On, Holds
<1>8. ClaimsArePaid'
  <2> SUFFICES ASSUME NEW j \in Keys PROVE Paid(j)'
    BY DEF ClaimsArePaid
  <2>1. UnderWay(j)' <=> UnderWay(j)
    BY <1>4 DEF UnderWay, Busy
  <2>2. Paid(j) /\ outbox[j].gen \in Nat
    BY RowParts DEF Inv, ClaimsArePaid
  <2>3. ASSUME NEW e \in Dispatchers, On(e, j)', Current(e)',
               courier'[e].at = "answered", courier'[e].answer = "retry"
        PROVE  outbox[j].gen <= lapses + postponed'
    <3>1. CASE e = d
      BY <1>2, <1>3, <1>5, <2>2, <2>3, <3>1 DEF Paid
    <3>2. CASE e # d
      BY <1>3, <1>4, <1>5, <2>2, <2>3, <3>2 DEF Paid, On
    <3>3. QED BY <3>1, <3>2
  <2>4. /\ outbox[j].gen <= lapses + postponed' + 1
        /\ (outbox[j].st \in Waiting \cup {"none"} /\ ~outbox[j].live =>
                outbox[j].gen <= lapses + postponed')
        /\ (outbox[j].live /\ ~UnderWay(j) => outbox[j].gen <= lapses + postponed')
    BY <1>5, <2>2 DEF Paid
  <2>5. QED BY <2>1, <2>3, <2>4 DEF Paid
<1>9. courier[d].at = "sending" =>
        /\ reached[k] = 0 /\ outbox[k].started /\ outbox[k].st \in Waiting \cup {"ambiguous"}
        /\ \A e \in Dispatchers : On(e, k) /\ courier[e].gen > courier[d].gen =>
                courier[e].at = "answered" /\ courier[e].answer = "ambiguous"
  BY DEF Inv, SendersAreMarked
<1>10. sent = 1 => courier[d].at = "sending" /\ a \in {"accepted", "ambiguous"}
  BY DEF Answers
<1>11. NothingBefore'
  BY <1>9, <1>10 DEF Inv, NothingBefore, Waiting
<1>12. SendersAreMarked'
  <2> SUFFICES ASSUME NEW s \in Dispatchers, courier'[s].at = "sending"
               PROVE  /\ reached'[courier'[s].key] = 0
                      /\ outbox'[courier'[s].key].started
                      /\ outbox'[courier'[s].key].st \in Waiting \cup {"ambiguous"}
                      /\ \A e \in Dispatchers :
                            On(e, courier[s].key)' /\ courier'[e].gen > courier'[s].gen =>
                                courier'[e].at = "answered" /\ courier'[e].answer = "ambiguous"
    BY DEF SendersAreMarked
  <2>1. s # d /\ courier'[s] = courier[s] /\ courier[s].at = "sending"
    BY <1>2, <1>3
  <2>2. courier[s].key \in Keys /\ courier[s].gen \in Generations /\ Busy(s)
    BY <2>1, CourierParts DEF Inv, Busy
  <2>3. /\ reached[courier[s].key] = 0 /\ outbox[courier[s].key].started
        /\ outbox[courier[s].key].st \in Waiting \cup {"ambiguous"}
        /\ \A e \in Dispatchers :
            On(e, courier[s].key) /\ courier[e].gen > courier[s].gen =>
                courier[e].at = "answered" /\ courier[e].answer = "ambiguous"
    BY <2>1 DEF Inv, SendersAreMarked
  <2>4. courier[s].key = k => ~(courier[d].gen > courier[s].gen)
    BY <1>1, <2>3 DEF On
  <2>5. courier[s].key = k => courier[s].gen # courier[d].gen
    BY <1>1, <2>1, <2>2 DEF Inv, ClaimsAreTheirOwn, On
  <2>6. courier[d].at = "sending" => courier[s].key # k
    <3>1. courier[s].gen \in Nat /\ courier[d].gen \in Nat
      BY <1>1, <2>2, NotificationAssumption DEF Generations
    <3>2. QED BY <1>9, <2>1, <2>2, <2>4, <2>5, <3>1 DEF On
  <2>7. reached'[courier'[s].key] = 0 /\ outbox'[courier'[s].key].started
        /\ outbox'[courier'[s].key].st \in Waiting \cup {"ambiguous"}
    BY <1>10, <2>1, <2>2, <2>3, <2>6
  <2>8. ASSUME NEW e \in Dispatchers,
               On(e, courier[s].key)' /\ courier'[e].gen > courier'[s].gen
        PROVE  courier'[e].at = "answered" /\ courier'[e].answer = "ambiguous"
    <3>1. CASE e = d
      BY <1>4, <2>1, <2>4, <2>8, <3>1 DEF On
    <3>2. CASE e # d
      BY <1>3, <1>4, <2>1, <2>3, <2>8, <3>2 DEF On
    <3>3. QED BY <3>1, <3>2
  <2>9. QED BY <2>7, <2>8
<1>13. ReachedIsMarked'
  <2> SUFFICES ASSUME NEW j \in Keys PROVE Marked(j)'
    BY DEF ReachedIsMarked
  <2>1. CASE j = k /\ sent = 1
    <3>1. reached'[j] = 1
      BY <1>9, <1>10, <2>1
    <3>2. ASSUME NEW e \in Dispatchers, On(e, j)', Current(e)'
          PROVE  courier'[e].at = "answered" /\ courier'[e].answer \in {"accepted", "ambiguous"}
      <4>1. CASE e = d
        BY <1>2, <1>3, <1>10, <2>1, <4>1
      <4>2. CASE e # d
        <5>1. On(e, k) /\ Current(e) /\ courier'[e] = courier[e]
          BY <1>3, <1>4, <2>1, <3>2, <4>2 DEF On
        <5>2. courier[e].gen # courier[d].gen
          BY <1>1, <4>2, <5>1 DEF Inv, ClaimsAreTheirOwn, On
        <5>3. courier[e].gen >= courier[d].gen
          BY <1>1, <5>1 DEF Inv, ClaimsAreTheirOwn, On, Current
        <5>4. courier[e].gen \in Nat /\ courier[d].gen \in Nat
          BY <1>1, <5>1, CourierParts, NotificationAssumption DEF Generations, Inv, On, Busy
        <5>5. QED BY <1>9, <1>10, <2>1, <5>1, <5>2, <5>3, <5>4
      <4>3. QED BY <4>1, <4>2
    <3>3. QED BY <1>9, <1>10, <2>1, <3>1, <3>2 DEF Marked
  <2>2. CASE ~(j = k /\ sent = 1)
    <3>1. reached'[j] = reached[j] /\ Marked(j)
      BY <1>1, <2>2, RowParts DEF Inv, ReachedIsMarked
    <3>2. ASSUME reached[j] = 1, NEW e \in Dispatchers, On(e, j)', Current(e)'
          PROVE  courier'[e].at = "answered" /\ courier'[e].answer \in {"accepted", "ambiguous"}
      <4>1. On(e, j) /\ Current(e)
        BY <1>4, <3>2 DEF On
      <4>2. e # d
        BY <1>1, <3>1, <3>2, <4>1 DEF Marked
      <4>3. QED BY <1>3, <3>1, <3>2, <4>1, <4>2 DEF Marked
    <3>3. QED BY <3>1, <3>2 DEF Marked
  <2>3. QED BY <2>1, <2>2
<1>14. AcceptedReached'
  <2>1. \A j \in Keys : reached[j] = 1 => reached'[j] = 1
    BY <1>9, <1>10, RowParts DEF Inv
  <2>2. \A j \in Keys : outbox'[j].st = "accepted" => reached'[j] = 1
    BY <2>1 DEF Inv, AcceptedReached
  <2>3. ASSUME NEW e \in Dispatchers, Current(e)'
        PROVE  /\ courier'[e].at = "claimed" => ~outbox'[courier'[e].key].started
               /\ courier'[e].at = "answered" /\ courier'[e].answer = "accepted" =>
                    reached'[courier'[e].key] = 1
    <3>1. CASE e = d
      BY <1>1, <1>2, <1>3, <1>9, <3>1
    <3>2. CASE e # d
      <4>1. courier'[e] = courier[e] /\ Current(e) /\ courier[e].key \in Keys
        BY <1>3, <1>4, <2>3, <3>2, CourierParts DEF Inv, Current, Busy
      <4>2. QED BY <2>1, <4>1 DEF Inv, AcceptedReached
    <3>3. QED BY <3>1, <3>2
  <2>4. QED BY <2>2, <2>3 DEF AcceptedReached
<1>15. NoEarlyCallbacks' /\ DeliveryIsLatest'
  BY DeliveryByRow, DeliveryByRowThen DEF Inv, NoEarlyCallbacks
<1>16. QED
  BY <1>6, <1>7, <1>8, <1>11, <1>12, <1>13, <1>14, <1>15 DEF Inv

LEMMA UnknownProviderKeeps ==
  ASSUME Inv, NEW d \in Dispatchers, ProviderUnknown(d)
  PROVE  Inv'
<1>1. /\ reached' \in [Keys -> Nat]
      /\ \A j \in Keys :
            reached'[j] = IF j = courier[d].key THEN reached[j] + 0 ELSE reached[j]
  BY DEF Inv, NoteTypeOK, ProviderUnknown
<1>2. /\ postponed' = IF "blocked" = "retry" THEN postponed + 1 ELSE postponed
      /\ postponed' <= MaxPostponed
  BY NotificationAssumption DEF Inv, NoteTypeOK, ProviderUnknown
<1>3. /\ courier' = [courier EXCEPT ![d] =
            [at |-> "answered", key |-> courier[d].key, gen |-> courier[d].gen,
             answer |-> "blocked"]]
      /\ UNCHANGED <<outbox, history, lapses>> /\ courier[d].at = "claimed"
  BY DEF ProviderUnknown
<1>4. "blocked" \in Answers /\ 0 \in {0, 1}
  BY DEF Answers
<1>5. QED BY <1>1, <1>2, <1>3, <1>4, AnswerKeeps

LEMMA SendKeeps ==
  ASSUME Inv, NEW d \in Dispatchers, NEW a \in Answers, SendTemplate(d, a)
  PROVE  Inv'
<1>1. PICK sent \in (CASE a = "accepted" -> {1} [] a = "ambiguous" -> {0, 1} [] OTHER -> {0}) :
        reached' = [reached EXCEPT ![courier[d].key] = @ + sent]
  BY DEF SendTemplate
<1>2. sent \in {0, 1} /\ (a = "accepted" => sent = 1) /\ (a \in {"retry", "blocked"} => sent = 0)
  BY <1>1
<1>3. reached \in [Keys -> Nat] /\ postponed \in 0 .. MaxPostponed /\ MaxPostponed \in Nat
  BY NotificationAssumption DEF Inv, NoteTypeOK
<1>4. courier[d].key \in Keys /\ courier[d].at = "sending"
  BY CourierParts DEF Inv, SendTemplate
<1>5. \A j \in Keys :
        reached'[j] = IF j = courier[d].key THEN reached[j] + sent ELSE reached[j]
  BY <1>1, <1>3
<1>6. reached' \in [Keys -> Nat]
  <2>1. reached[courier[d].key] + sent \in Nat
    BY <1>2, <1>3, <1>4
  <2>2. QED BY <1>1, <1>3, <2>1
<1>7. /\ postponed' = IF a = "retry" THEN postponed + 1 ELSE postponed
      /\ postponed' <= MaxPostponed
  BY <1>3 DEF SendTemplate
<1>8. /\ courier' = [courier EXCEPT ![d] =
            [at |-> "answered", key |-> courier[d].key, gen |-> courier[d].gen, answer |-> a]]
      /\ UNCHANGED <<outbox, history, lapses>>
  BY DEF SendTemplate
<1>9. QED BY <1>2, <1>4, <1>5, <1>6, <1>7, <1>8, AnswerKeeps
-----------------------------------------------------------------------------
(* A dispatcher writes its answer on a row that is still its own.          *)

LEMMA FinishedParts ==
  ASSUME NEW row \in Messages, NEW a \in Answers, row.st \in Waiting
  PROVE  /\ Finished(row, a) \in Messages /\ Finished(row, a).st = a
         /\ Finished(row, a).owner = Nobody /\ Finished(row, a).live = FALSE
         /\ Finished(row, a).gen = row.gen
         /\ a # "retry" => Finished(row, a).started = row.started
         /\ a # "accepted" => Finished(row, a).delivery = row.delivery
         /\ a = "accepted" => Finished(row, a).delivery = <<"ACCEPTED", 0>>
<1> DEFINE free == [row EXCEPT !.st = a, !.owner = Nobody, !.live = FALSE]
<1>1. /\ free \in Messages /\ free.st = a /\ free.owner = Nobody /\ free.live = FALSE
      /\ free.gen = row.gen /\ free.started = row.started /\ free.delivery = row.delivery
  BY DEF Messages, Answers, Waiting, Settled
<1> HIDE DEF free
<1>2. CASE a = "retry"
  <2>1. Finished(row, a) = [free EXCEPT !.due = FALSE, !.started = FALSE]
    BY <1>2 DEF Finished, free
  <2>2. QED BY <1>1, <1>2, <2>1 DEF Messages
<1>3. CASE a = "accepted"
  <2>1. Finished(row, a) = [free EXCEPT !.delivery = <<"ACCEPTED", 0>>]
    BY <1>3 DEF Finished, free
  <2>2. QED BY <1>1, <1>3, <2>1 DEF Messages
<1>4. CASE a \notin {"retry", "accepted"}
  <2>1. Finished(row, a) = free
    BY <1>4 DEF Finished, free
  <2>2. QED BY <1>1, <1>4, <2>1
<1>5. QED BY <1>2, <1>3, <1>4

LEMMA FinishKeeps ==
  ASSUME Inv, NEW d \in Dispatchers, FinishNotification(d)
  PROVE  Inv'
<1> DEFINE k == courier[d].key
           a == courier[d].answer
           old == outbox[k]
           new == Finished(old, a)
<1>1. /\ courier[d].at = "answered" /\ Busy(d) /\ k \in Keys /\ a \in Answers
      /\ courier' = [courier EXCEPT ![d] = AtRest]
      /\ UNCHANGED <<history, reached, lapses, postponed>>
  BY CourierParts DEF FinishNotification, Busy, Inv
<1>2. CASE ~Holds(d)
  <2>1. UNCHANGED outbox
    BY <1>2 DEF FinishNotification
  <2>2. ~Current(d)
    BY <1>2 DEF Inv, ClaimsAreTheirOwn, Current
  <2>3. QED BY <1>1, <2>1, <2>2, StopKeeps
<1>3. CASE Holds(d)
  <2>1. outbox' = [outbox EXCEPT ![k] = new]
    BY <1>3 DEF FinishNotification
  <2>2. /\ old \in Messages /\ old.st \in Waiting /\ old.owner = d /\ old.gen = courier[d].gen
        /\ old.gen \in Nat /\ old.gen >= 1 /\ Current(d) /\ On(d, k)
    BY <1>1, <1>3, RowParts DEF Holds, Inv, Current, On, ClaimsAreTheirOwn
  <2>3. /\ new \in Messages /\ new.st = a /\ new.owner = Nobody /\ new.live = FALSE
        /\ new.gen = old.gen
        /\ a # "retry" => new.started = old.started
        /\ a # "accepted" => new.delivery = old.delivery
        /\ a = "accepted" => new.delivery = <<"ACCEPTED", 0>>
    BY <1>1, <2>2, FinishedParts
  <2> HIDE DEF new
  <2>4. /\ outbox'[k] = new /\ \A j \in Keys : j # k => outbox'[j] = outbox[j]
        /\ courier'[d] = AtRest /\ ~Busy(d)'
        /\ \A e \in Dispatchers : e # d => courier'[e] = courier[e]
    BY <1>1, <2>1 DEF Inv, NoteTypeOK, AtRest, Busy
  <2>5. /\ \A j \in Keys : outbox'[j].gen = outbox[j].gen
        /\ \A e \in Dispatchers : Busy(e)' => e # d /\ courier'[e] = courier[e] /\ Busy(e)
        /\ \A e \in Dispatchers : Current(e)' => Current(e) /\ courier[e].key \in Keys
    <3>1. \A j \in Keys : outbox'[j].gen = outbox[j].gen
      BY <2>3, <2>4
    <3>2. \A e \in Dispatchers : Busy(e)' => e # d /\ courier'[e] = courier[e] /\ Busy(e)
      BY <2>4 DEF Busy
    <3>3. \A e \in Dispatchers : Current(e)' => Current(e) /\ courier[e].key \in Keys
      BY <3>1, <3>2, CourierParts DEF Current, Busy, Inv
    <3>4. QED BY <3>1, <3>2, <3>3
  \* Nobody else has this row's generation.
  <2>6. \A e \in Dispatchers : Current(e)' => courier[e].key # k
    BY <1>1, <2>2, <2>5 DEF Inv, ClaimsAreTheirOwn, On, Current
  <2>7. NoteTypeOK'
    <3>1. outbox' \in [Keys -> Messages] /\ courier' \in [Dispatchers -> CourierStates]
      BY <1>1, <2>1, <2>3 DEF Inv, NoteTypeOK, CourierStates
    <3>2. \A j \in Keys : /\ outbox'[j].owner # Nobody => outbox'[j].st \in Waiting
                          /\ outbox'[j].st = "accepted" <=> outbox'[j].delivery # Nothing
      <4>1. old.delivery = Nothing
        BY <1>1, <2>2 DEF Inv, NoteTypeOK, Waiting
      <4>2. <<"ACCEPTED", 0>> # Nothing
        BY NotificationAssumption
      <4>3. QED BY <2>3, <2>4, <4>1, <4>2 DEF Inv, NoteTypeOK
    <3>3. QED BY <1>1, <3>1, <3>2 DEF Inv, NoteTypeOK
  <2>8. ClaimsAreTheirOwn'
    <3>1. ASSUME NEW e \in Dispatchers, Busy(e)'
          PROVE  /\ courier'[e].gen >= 1 /\ courier'[e].gen <= outbox'[courier'[e].key].gen
                 /\ Current(e)' => Holds(e)'
      BY <2>4, <2>5, <2>6, <3>1, CourierParts DEF Inv, ClaimsAreTheirOwn, Busy, Holds
    <3>2. QED BY <2>5, <3>1 DEF Inv, ClaimsAreTheirOwn, On, Busy
  <2>9. ClaimsArePaid'
    <3> SUFFICES ASSUME NEW j \in Keys PROVE Paid(j)'
      BY DEF ClaimsArePaid
    <3>1. Paid(j)
      BY DEF Inv, ClaimsArePaid
    <3>2. \A e \in Dispatchers : On(e, j)' /\ Current(e)' =>
            On(e, j) /\ Current(e) /\ courier'[e] = courier[e]
      BY <2>5 DEF On, Current
    <3>3. CASE j = k
      <4>1. a = "retry" => new.gen <= lapses + postponed
        BY <1>1, <2>2, <2>3, <3>1, <3>3 DEF Paid
      <4>2. new.gen <= lapses + postponed + 1
        BY <2>3, <3>1, <3>3 DEF Paid
      <4>3. a # "retry" => a \notin Waiting \cup {"none"}
        BY <1>1 DEF Answers, Waiting
      <4>4. QED BY <1>1, <2>3, <2>4, <2>6, <3>2, <3>3, <4>1, <4>2, <4>3 DEF Paid, On
    <3>4. CASE j # k
      <4>1. UnderWay(j) => UnderWay(j)'
        BY <1>1, <2>4, <3>4 DEF UnderWay
      <4>2. QED BY <1>1, <2>4, <3>1, <3>2, <3>4, <4>1 DEF Paid
    <3>5. QED BY <3>3, <3>4
  <2>10. NothingBefore'
    BY <1>1, <2>3, <2>4 DEF Inv, NothingBefore, Answers
  <2>11. \A s \in Dispatchers : courier'[s].at = "sending" =>
            /\ s # d /\ courier'[s] = courier[s] /\ courier[s].key \in Keys /\ Busy(s)
            /\ courier[s].key = k => courier[s].gen < courier[d].gen /\ a = "ambiguous"
    <3> SUFFICES ASSUME NEW s \in Dispatchers, courier'[s].at = "sending"
                 PROVE  /\ s # d /\ courier'[s] = courier[s] /\ courier[s].key \in Keys /\ Busy(s)
                        /\ courier[s].key = k => courier[s].gen < courier[d].gen /\ a = "ambiguous"
      OBVIOUS
    <3>1. s # d /\ courier'[s] = courier[s] /\ courier[s].key \in Keys /\ Busy(s)
          /\ courier[s].gen \in Nat
      BY <2>4, <2>5, CourierParts, NotificationAssumption DEF Busy, Inv, AtRest, Generations
    <3>2. ASSUME courier[s].key = k PROVE courier[s].gen < courier[d].gen
      <4>1. courier[s].gen <= courier[d].gen /\ courier[s].gen # courier[d].gen
        BY <1>1, <2>2, <3>1, <3>2 DEF Inv, ClaimsAreTheirOwn, On
      <4>2. QED BY <2>2, <3>1, <4>1
    <3>3. ASSUME courier[s].key = k PROVE a = "ambiguous"
      BY <2>2, <2>4, <3>1, <3>2, <3>3 DEF Inv, SendersAreMarked
    <3>4. QED BY <3>1, <3>2, <3>3
  <2>12. SendersAreMarked'
    <3> SUFFICES ASSUME NEW s \in Dispatchers, courier'[s].at = "sending"
                 PROVE  /\ reached'[courier'[s].key] = 0
                        /\ outbox'[courier'[s].key].started
                        /\ outbox'[courier'[s].key].st \in Waiting \cup {"ambiguous"}
                        /\ \A e \in Dispatchers :
                            On(e, courier[s].key)' /\ courier'[e].gen > courier'[s].gen =>
                                courier'[e].at = "answered" /\ courier'[e].answer = "ambiguous"
      BY DEF SendersAreMarked
    <3>1. /\ courier'[s] = courier[s] /\ courier[s].key \in Keys /\ Busy(s)
          /\ courier[s].key = k => a = "ambiguous"
      BY <2>11
    <3>2. /\ reached[courier[s].key] = 0 /\ outbox[courier[s].key].started
          /\ outbox[courier[s].key].st \in Waiting \cup {"ambiguous"}
          /\ \A e \in Dispatchers :
                On(e, courier[s].key) /\ courier[e].gen > courier[s].gen =>
                    courier[e].at = "answered" /\ courier[e].answer = "ambiguous"
      BY <3>1 DEF Inv, SendersAreMarked
    <3>3. outbox'[courier[s].key].started
          /\ outbox'[courier[s].key].st \in Waiting \cup {"ambiguous"}
      BY <2>3, <2>4, <3>1, <3>2
    <3>4. QED BY <1>1, <2>5, <3>1, <3>2, <3>3 DEF On
  <2>13. ReachedIsMarked'
    <3> SUFFICES ASSUME NEW j \in Keys PROVE Marked(j)'
      BY DEF ReachedIsMarked
    <3>1. Marked(j)
      BY DEF Inv, ReachedIsMarked
    <3>2. CASE j = k
      <4>1. reached[k] = 1 => a \in {"accepted", "ambiguous"} /\ old.started
        BY <1>1, <2>2, <3>1, <3>2 DEF Marked
      <4>2. QED BY <1>1, <2>3, <2>4, <2>5, <2>6, <3>1, <3>2, <4>1 DEF Marked, On
    <3>3. CASE j # k
      BY <1>1, <2>4, <2>5, <3>1, <3>3 DEF Marked, On
    <3>4. QED BY <3>2, <3>3
  <2>14. AcceptedReached'
    <3>1. \A j \in Keys : outbox'[j].st = "accepted" => reached'[j] = 1
      BY <1>1, <2>2, <2>3, <2>4 DEF Inv, AcceptedReached
    <3>2. ASSUME NEW e \in Dispatchers, Current(e)'
          PROVE  /\ courier'[e].at = "claimed" => ~outbox'[courier'[e].key].started
                 /\ courier'[e].at = "answered" /\ courier'[e].answer = "accepted" =>
                        reached'[courier'[e].key] = 1
      <4>1. courier'[e] = courier[e] /\ Current(e) /\ courier[e].key \in Keys \ {k}
        BY <2>5, <2>6, <3>2 DEF Current
      <4>2. QED BY <1>1, <2>4, <4>1 DEF Inv, AcceptedReached
    <3>3. QED BY <3>1, <3>2 DEF AcceptedReached
  <2>15. NoEarlyCallbacks' /\ history[k] = {}
    BY <1>1, <2>2, <2>4 DEF Inv, NoEarlyCallbacks, Waiting
  <2>16. DeliveryIsLatest'
    <3> SUFFICES ASSUME NEW j \in Keys PROVE Latest(outbox'[j], history'[j])
      BY DeliveryByRowThen
    <3>1. CASE j = k
      BY <1>1, <2>3, <2>4, <2>15, <3>1 DEF Latest, Known
    <3>2. CASE j # k
      BY <1>1, <2>4, <3>2, DeliveryByRow DEF Inv
    <3>3. QED BY <3>1, <3>2
  <2>17. QED
    BY <2>7, <2>8, <2>9, <2>10, <2>12, <2>13, <2>14, <2>15, <2>16 DEF Inv
<1>4. QED BY <1>2, <1>3
-----------------------------------------------------------------------------
(* A step that writes only what the proofs do not look at, or less of it.  *)

LEMMA LeaseExpiresKeeps ==
  ASSUME Inv, NEW k \in Keys, NoteLeaseExpires(k)
  PROVE  Inv'
<1> DEFINE old == outbox[k]
           new == [old EXCEPT !.live = FALSE]
<1>1. /\ old.live /\ outbox' = [outbox EXCEPT ![k] = new]
      /\ UNCHANGED <<history, courier, reached, postponed>>
      /\ lapses' = IF UnderWay(k) THEN lapses + 1 ELSE lapses
      /\ UnderWay(k) => lapses < MaxLapses
  BY DEF NoteLeaseExpires
<1>2. /\ new \in Messages /\ new.st = old.st /\ new.owner = old.owner /\ new.gen = old.gen
      /\ new.live = FALSE /\ new.started = old.started /\ new.delivery = old.delivery
      /\ old.gen \in Nat
  BY RowParts DEF Messages, Inv
<1> HIDE DEF new
<1>3. outbox'[k] = new /\ \A j \in Keys : j # k => outbox'[j] = outbox[j]
  BY <1>1 DEF Inv, NoteTypeOK
<1>4. \A j \in Keys : /\ outbox'[j].st = outbox[j].st /\ outbox'[j].gen = outbox[j].gen
                      /\ outbox'[j].started = outbox[j].started
                      /\ outbox'[j].owner = outbox[j].owner
                      /\ outbox'[j].delivery = outbox[j].delivery
  BY <1>2, <1>3
<1>5. \A d \in Dispatchers : Current(d)' <=> Current(d)
  BY <1>1, <1>4, CourierParts DEF Current, Busy, Inv
<1>6. NoteTypeOK'
  BY <1>1, <1>2, <1>4, NotificationAssumption DEF Inv, NoteTypeOK
<1>7. ClaimsAreTheirOwn'
  BY <1>1, <1>4, <1>5, CourierParts DEF Inv, ClaimsAreTheirOwn, On, Busy, Holds
<1>8. ClaimsArePaid'
  <2> SUFFICES ASSUME NEW j \in Keys PROVE Paid(j)'
    BY DEF ClaimsArePaid
  <2>1. /\ Paid(j) /\ Paid(k) /\ lapses \in Nat /\ lapses' \in Nat /\ postponed \in Nat
        /\ outbox[j].gen \in Nat /\ lapses' >= lapses
    BY <1>1, RowParts, NotificationAssumption DEF Inv, ClaimsArePaid
  <2>2. UnderWay(j)' <=> UnderWay(j)
    BY <1>1, <1>4 DEF UnderWay
  <2>3. \A d \in Dispatchers :
            (On(d, j) /\ Current(d) /\ courier[d].at = "answered" /\ courier[d].answer = "retry")'
                => outbox[j].gen <= lapses' + postponed
    BY <1>1, <1>5, <2>1 DEF Paid, On, Busy
  <2>4. CASE j = k
    <3>1. old.gen <= lapses' + postponed
      BY <1>1, <2>1, <2>4 DEF Paid
    <3>2. QED BY <1>1, <1>2, <1>3, <2>1, <2>3, <2>4, <3>1 DEF Paid
  <2>5. CASE j # k
    BY <1>1, <1>3, <2>1, <2>2, <2>3, <2>5 DEF Paid
  <2>6. QED BY <2>4, <2>5
<1>9. NothingBefore'
  <2>1. old.st # "none"
    BY <1>1 DEF Inv, NothingBefore, NoMessage
  <2>2. QED BY <1>1, <1>2, <1>3, <2>1 DEF Inv, NothingBefore
<1>10. SendersAreMarked'
  BY <1>1, <1>4, CourierParts DEF Inv, SendersAreMarked, On, Busy
<1>11. ReachedIsMarked'
  BY <1>1, <1>4, <1>5 DEF Inv, ReachedIsMarked, Marked, On, Busy
<1>12. AcceptedReached'
  BY <1>1, <1>4, <1>5, CourierParts DEF Inv, AcceptedReached, Current, Busy
<1>13. NoEarlyCallbacks' /\ DeliveryIsLatest'
  BY <1>1, <1>4, DeliveryByRow, DeliveryByRowThen, LatestOfSame DEF Inv, NoEarlyCallbacks
<1>14. QED
  BY <1>6, <1>7, <1>8, <1>9, <1>10, <1>11, <1>12, <1>13 DEF Inv

\* A row of which only the delivery status, or that it is due, changes, and
\* history only of an accepted one.
LEMMA RowKeeps ==
  ASSUME Inv, NEW k \in Keys, NEW new \in Messages,
         outbox[k].st # "none", outbox' = [outbox EXCEPT ![k] = new],
         UNCHANGED <<courier, reached, lapses, postponed>>,
         history' \in [Keys -> SUBSET Callbacks],
         \A j \in Keys : j # k => history'[j] = history[j],
         outbox[k].st # "accepted" => history'[k] = history[k],
         new.st = outbox[k].st, new.owner = outbox[k].owner, new.gen = outbox[k].gen,
         new.live = outbox[k].live, new.started = outbox[k].started,
         (new.delivery = Nothing) <=> (outbox[k].delivery = Nothing),
         Latest(new, history'[k])
  PROVE  Inv'
<1>1. outbox'[k] = new /\ \A j \in Keys : j # k => outbox'[j] = outbox[j]
  BY DEF Inv, NoteTypeOK
<1>2. \A j \in Keys : /\ outbox'[j].st = outbox[j].st /\ outbox'[j].gen = outbox[j].gen
                      /\ outbox'[j].started = outbox[j].started
                      /\ outbox'[j].owner = outbox[j].owner
                      /\ outbox'[j].live = outbox[j].live
  BY <1>1
<1>3. \A d \in Dispatchers : Current(d)' <=> Current(d)
  BY <1>2, CourierParts DEF Current, Busy, Inv
<1>4. NoteTypeOK'
  <2>1. outbox' \in [Keys -> Messages]
    BY DEF Inv, NoteTypeOK
  <2>2. /\ courier' \in [Dispatchers -> CourierStates] /\ reached' \in [Keys -> Nat]
        /\ lapses' \in 0 .. MaxLapses /\ postponed' \in 0 .. MaxPostponed
    BY DEF Inv, NoteTypeOK
  <2>3. ASSUME NEW j \in Keys
        PROVE  /\ outbox'[j].owner # Nobody => outbox'[j].st \in Waiting
               /\ outbox'[j].st = "accepted" <=> outbox'[j].delivery # Nothing
    <3>1. /\ outbox[j].owner # Nobody => outbox[j].st \in Waiting
          /\ outbox[j].st = "accepted" <=> outbox[j].delivery # Nothing
      BY DEF Inv, NoteTypeOK
    <3>2. outbox'[j].delivery = Nothing <=> outbox[j].delivery = Nothing
      BY <1>1
    <3>3. QED BY <1>2, <3>1, <3>2
  <2>4. QED BY <2>1, <2>2, <2>3 DEF NoteTypeOK
<1>5. ClaimsAreTheirOwn'
  BY <1>2, <1>3, CourierParts DEF Inv, ClaimsAreTheirOwn, On, Busy, Holds
<1>6. ClaimsArePaid'
  <2> SUFFICES ASSUME NEW j \in Keys PROVE Paid(j)'
    BY DEF ClaimsArePaid
  <2>1. Paid(j) /\ (UnderWay(j)' <=> UnderWay(j))
    BY <1>2 DEF UnderWay, Inv, ClaimsArePaid
  <2>2. QED BY <1>2, <1>3, <2>1 DEF Paid, On, Busy
<1>7. NothingBefore'
  BY <1>1 DEF Inv, NothingBefore
<1>8. SendersAreMarked'
  BY <1>2, CourierParts DEF Inv, SendersAreMarked, On, Busy
<1>9. ReachedIsMarked'
  BY <1>2, <1>3 DEF Inv, ReachedIsMarked, Marked, On, Busy
<1>10. AcceptedReached'
  BY <1>2, <1>3, CourierParts DEF Inv, AcceptedReached, Current, Busy
<1>11. NoEarlyCallbacks'
  BY <1>2 DEF Inv, NoEarlyCallbacks
<1>12. DeliveryIsLatest'
  BY <1>1, DeliveryByRow, DeliveryByRowThen DEF Inv
<1>13. QED
  BY <1>4, <1>5, <1>6, <1>7, <1>8, <1>9, <1>10, <1>11, <1>12 DEF Inv

LEMMA ComesDueKeeps ==
  ASSUME Inv, NEW k \in Keys, NoteComesDue(k)
  PROVE  Inv'
<1> DEFINE new == [outbox[k] EXCEPT !.due = TRUE]
<1>1. /\ outbox[k].st = "retry" /\ outbox' = [outbox EXCEPT ![k] = new]
      /\ UNCHANGED <<history, courier, reached, lapses, postponed>>
  BY DEF NoteComesDue
<1>2. /\ new \in Messages /\ new.st = outbox[k].st /\ new.owner = outbox[k].owner
      /\ new.gen = outbox[k].gen /\ new.live = outbox[k].live
      /\ new.started = outbox[k].started /\ new.delivery = outbox[k].delivery
  BY RowParts DEF Messages, Inv
<1> HIDE DEF new
<1>3. Latest(new, history'[k])
  BY <1>1, <1>2, LatestOfOpen
<1>4. history' \in [Keys -> SUBSET Callbacks]
  BY <1>1 DEF Inv, NoteTypeOK
<1>5. QED BY <1>1, <1>2, <1>3, <1>4, RowKeeps
-----------------------------------------------------------------------------
(* Callbacks, in whatever order they come.                                 *)

LEMMA PrecedenceIsNat ==
  ASSUME NEW s
  PROVE  Precedence(s) \in Nat
  BY DEF Precedence

\* What AdvanceDelivery compares is an order, of which the delivery status
\* stays a greatest element.
LEMMA AdvanceKeepsLatest ==
  ASSUME NEW h \in SUBSET Callbacks, NEW event \in Callbacks,
         NEW row, NEW new, row.st = "accepted", new.st = "accepted", Latest(row, h),
         new.delivery = IF AdvanceDelivery(row.delivery, event) THEN event ELSE row.delivery
  PROVE  Latest(new, h \cup {event})
<1>1. /\ \A e \in Callbacks : /\ e[2] \in Nat /\ Precedence(e[1]) \in Nat /\ e[1] # "ACCEPTED"
                              /\ e[1] # "UNKNOWN" => Precedence(e[1]) > 0
  BY NotificationAssumption DEF Precedence
<1>2. CASE event[1] = "UNKNOWN"
  <2>1. Known(h \cup {event}) = Known(h) /\ new.delivery = row.delivery
    BY <1>2 DEF Known, AdvanceDelivery
  <2>2. QED BY <2>1 DEF Latest
<1>3. CASE event[1] # "UNKNOWN"
  <2>1. Known(h \cup {event}) = Known(h) \cup {event} /\ event \in Known(h \cup {event})
    BY <1>3 DEF Known
  <2>2. CASE Known(h) = {}
    <3>1. row.delivery = <<"ACCEPTED", 0>>
      BY <2>2 DEF Latest
    <3>2. new.delivery = event
      BY <1>3, <3>1 DEF AdvanceDelivery
    <3>3. ~Newer(event, event)
      BY <1>1 DEF Newer
    <3>4. QED BY <2>1, <2>2, <3>2, <3>3 DEF Latest
  <2>3. CASE Known(h) # {}
    <3>1. row.delivery \in Known(h) /\ \A e \in Known(h) : ~Newer(e, row.delivery)
      BY <2>3 DEF Latest
    <3>2. row.delivery \in Callbacks /\ Known(h) \subseteq Callbacks
      BY <3>1 DEF Known
    <3>3. AdvanceDelivery(row.delivery, event) <=> Newer(event, row.delivery)
      BY <1>1, <1>3, <3>2 DEF AdvanceDelivery, Newer
    <3>4. CASE Newer(event, row.delivery)
      <4>1. new.delivery = event
        BY <3>3, <3>4
      <4>2. ASSUME NEW e \in Known(h) PROVE ~Newer(e, event)
        BY <1>1, <3>1, <3>2, <3>4, <4>2 DEF Newer
      <4>3. ~Newer(event, event)
        BY <1>1 DEF Newer
      <4>4. QED BY <2>1, <4>1, <4>2, <4>3 DEF Latest
    <3>5. CASE ~Newer(event, row.delivery)
      BY <2>1, <3>1, <3>3, <3>5 DEF Latest
    <3>6. QED BY <3>4, <3>5
  <2>4. QED BY <2>2, <2>3
<1>4. QED BY <1>2, <1>3

LEMMA DeliveryKeeps ==
  ASSUME Inv, NEW k \in Keys, NEW event \in Callbacks, ApplyDeliveryStatus(k, event)
  PROVE  Inv'
<1> DEFINE old == outbox[k]
           new == IF AdvanceDelivery(old.delivery, event)
                  THEN [old EXCEPT !.delivery = event] ELSE old
<1>1. /\ old.st = "accepted" /\ history' = [history EXCEPT ![k] = @ \cup {event}]
      /\ UNCHANGED <<courier, reached, lapses, postponed>>
  BY DEF ApplyDeliveryStatus
<1>2. outbox' = [outbox EXCEPT ![k] = new]
  BY DEF ApplyDeliveryStatus, Inv, NoteTypeOK
<1>3. /\ new \in Messages /\ new.st = old.st /\ new.owner = old.owner /\ new.gen = old.gen
      /\ new.live = old.live /\ new.started = old.started
      /\ new.delivery = IF AdvanceDelivery(old.delivery, event) THEN event ELSE old.delivery
  BY RowParts DEF Messages, Inv
<1> HIDE DEF new
<1>4. old.delivery # Nothing /\ new.delivery # Nothing
  BY <1>1, <1>3, NotificationAssumption DEF Inv, NoteTypeOK
<1>5. /\ history' \in [Keys -> SUBSET Callbacks] /\ history[k] \in SUBSET Callbacks
      /\ history'[k] = history[k] \cup {event}
      /\ \A j \in Keys : j # k => history'[j] = history[j]
  BY <1>1 DEF Inv, NoteTypeOK
<1>6. Latest(old, history[k])
  BY DeliveryByRow DEF Inv
<1>7. Latest(new, history'[k])
  BY <1>1, <1>3, <1>5, <1>6, AdvanceKeepsLatest
<1>8. QED BY <1>1, <1>2, <1>3, <1>4, <1>5, <1>7, RowKeeps
-----------------------------------------------------------------------------
LEMMA InvInit == NoteInit => Inv
<1> SUFFICES ASSUME NoteInit PROVE Inv
  OBVIOUS
<1>1. NoMessage \in Messages /\ NoMessage.st = "none" /\ NoMessage.delivery = Nothing
      /\ NoMessage.gen = 0 /\ NoMessage.live = FALSE /\ NoMessage.owner = Nobody
  BY NotificationAssumption DEF NoMessage, Messages, Generations
<1>2. /\ \A k \in Keys : outbox[k] = NoMessage /\ history[k] = {} /\ reached[k] = 0
      /\ \A d \in Dispatchers : courier[d].at = "idle" /\ ~Busy(d)
      /\ lapses \in Nat /\ postponed = 0
  BY NotificationAssumption DEF NoteInit, AtRest, Busy
<1>3. NoteTypeOK
  BY <1>1, <1>2, NotificationAssumption DEF NoteInit, NoteTypeOK, CourierStates
<1>4. ClaimsArePaid
  <2> SUFFICES ASSUME NEW k \in Keys PROVE Paid(k)
    BY DEF ClaimsArePaid
  <2>1. outbox[k].gen = 0 /\ 0 <= lapses + postponed /\ 0 <= lapses + postponed + 1
    BY <1>1, <1>2
  <2>2. \A d \in Dispatchers : ~On(d, k)
    BY <1>2 DEF On
  <2>3. QED BY <2>1, <2>2 DEF Paid
<1>5. DeliveryIsLatest
  BY <1>1, <1>2, LatestOfOpen, DeliveryByRow
<1>6. QED
  BY <1>1, <1>2, <1>3, <1>4, <1>5
     DEF Inv, ClaimsAreTheirOwn, NothingBefore, SendersAreMarked, ReachedIsMarked, Marked,
         AcceptedReached, NoEarlyCallbacks, Current, On, Busy

LEMMA InvKept == Inv /\ [NoteNext]_noteVars => Inv'
<1> SUFFICES ASSUME Inv, [NoteNext]_noteVars PROVE Inv'
  OBVIOUS
<1>1. CASE \E k \in Keys, c \in Contents : EnqueueNotification(k, c)
  BY <1>1, EnqueueKeeps
<1>2. CASE \E d \in Dispatchers : Dispatch(d)
  <2>1. PICK d \in Dispatchers : Dispatch(d)
    BY <1>2
  <2>2. CASE \E k \in Keys : ClaimNotification(d, k)
    BY <2>2, ClaimKeeps
  <2>3. CASE ProviderUnknown(d)
    BY <2>3, UnknownProviderKeeps
  <2>4. CASE MarkNotificationSendStarted(d)
    BY <2>4, MarkKeeps
  <2>5. CASE \E answer \in Answers : SendTemplate(d, answer)
    BY <2>5, SendKeeps
  <2>6. CASE FinishNotification(d)
    BY <2>6, FinishKeeps
  <2>7. QED BY <2>1, <2>2, <2>3, <2>4, <2>5, <2>6 DEF Dispatch
<1>3. CASE \E d \in Dispatchers : DispatcherFails(d)
  BY <1>3, FailKeeps
<1>4. CASE NoteTimePasses
  BY <1>4, LeaseExpiresKeeps, ComesDueKeeps DEF NoteTimePasses
<1>5. CASE \E k \in Keys, event \in Callbacks : ApplyDeliveryStatus(k, event)
  BY <1>5, DeliveryKeeps
<1>6. CASE UNCHANGED noteVars
  <2>1. UNCHANGED <<outbox, history, courier, reached, lapses, postponed>>
    BY <1>6 DEF noteVars
  <2>2. NoteTypeOK' /\ ClaimsAreTheirOwn' /\ NothingBefore' /\ SendersAreMarked'
    BY <2>1 DEF Inv, NoteTypeOK, ClaimsAreTheirOwn, NothingBefore, SendersAreMarked,
                On, Busy, Current, Holds
  <2>3. ClaimsArePaid'
    BY <2>1 DEF Inv, ClaimsArePaid, Paid, UnderWay, On, Busy, Current
  <2>4. ReachedIsMarked' /\ AcceptedReached' /\ NoEarlyCallbacks'
    BY <2>1 DEF Inv, ReachedIsMarked, Marked, AcceptedReached, NoEarlyCallbacks,
                On, Busy, Current
  <2>5. DeliveryIsLatest'
    BY <2>1, DeliveryByRow, DeliveryByRowThen DEF Inv
  <2>6. QED BY <2>2, <2>3, <2>4, <2>5 DEF Inv
<1>7. QED
  BY <1>1, <1>2, <1>3, <1>4, <1>5, <1>6 DEF NoteNext, DispatchNext

LEMMA InvAlways == NoteSafe => []Inv
  BY InvInit, InvKept, PTL DEF NoteSafe

LEMMA InvIsSound == Inv => MessagesAreSound
<1> SUFFICES ASSUME Inv PROVE MessagesAreSound
  OBVIOUS
<1>1. NeverSentTwice
  <2> SUFFICES ASSUME NEW k \in Keys PROVE reached[k] <= 1
    BY DEF NeverSentTwice
  <2>1. reached[k] = 0 \/ reached[k] = 1
    BY DEF Inv, ReachedIsMarked, Marked
  <2>2. QED BY <2>1
<1>2. OutcomeIsTrue
  <2> SUFFICES ASSUME NEW k \in Keys
               PROVE  /\ outbox[k].st = "accepted" => reached[k] = 1
                      /\ outbox[k].st \in Waiting \cup {"blocked"} /\ ~outbox[k].started =>
                          reached[k] = 0
                      /\ outbox[k].st = "blocked" => reached[k] = 0
    BY DEF OutcomeIsTrue
  <2>1. Marked(k) /\ (outbox[k].st = "accepted" => reached[k] = 1)
    BY DEF Inv, ReachedIsMarked, AcceptedReached
  <2>2. QED BY <2>1 DEF Marked, Waiting
<1>3. QED BY <1>1, <1>2 DEF Inv, MessagesAreSound

\* For any dispatchers, messages and callbacks, a message reaches the provider
\* at most once, the outbox tells the truth of it, and its delivery status is
\* the latest that is known.
THEOREM MessagesSound == NoteSafe => []MessagesAreSound
<1>1. QED BY InvIsSound, InvAlways, PTL
-----------------------------------------------------------------------------
(* Business reports over the outbox.                                       *)

\* A fault elsewhere takes its share of the bound.
LEMMA LapseKeeps ==
  ASSUME Inv, lapses < MaxLapses, lapses' = lapses + 1,
         UNCHANGED <<outbox, history, courier, reached, postponed>>
  PROVE  Inv'
<1>1. lapses \in Nat /\ postponed \in Nat /\ lapses' \in Nat /\ lapses' >= lapses
  BY RowParts, NotificationAssumption DEF Inv, NoteTypeOK
<1>2. NoteTypeOK'
  BY <1>1, NotificationAssumption DEF Inv, NoteTypeOK
<1>3. ClaimsAreTheirOwn' /\ SendersAreMarked'
  BY DEF Inv, ClaimsAreTheirOwn, SendersAreMarked, On, Busy, Current, Holds
<1>4. ClaimsArePaid'
  <2> SUFFICES ASSUME NEW j \in Keys PROVE Paid(j)'
    BY DEF ClaimsArePaid
  <2>1. outbox[j].gen \in Nat
    BY RowParts DEF Inv
  <2>2. Paid(j)
    BY DEF Inv, ClaimsArePaid
  <2>3. UnderWay(j)' <=> UnderWay(j)
    BY DEF UnderWay
  <2>4. \A d \in Dispatchers : (On(d, j) /\ Current(d))' <=> On(d, j) /\ Current(d)
    BY DEF On, Current, Busy
  <2>5. /\ outbox[j].gen <= lapses' + postponed + 1
        /\ (outbox[j].st \in Waiting \cup {"none"} /\ ~outbox[j].live =>
                outbox[j].gen <= lapses' + postponed)
        /\ (outbox[j].live /\ ~UnderWay(j) => outbox[j].gen <= lapses' + postponed)
    BY <1>1, <2>1, <2>2 DEF Paid
  <2>6. \A d \in Dispatchers :
            On(d, j) /\ Current(d) /\ courier[d].at = "answered" /\ courier[d].answer = "retry" =>
                outbox[j].gen <= lapses' + postponed
    BY <1>1, <2>1, <2>2 DEF Paid
  <2>7. QED BY <2>3, <2>4, <2>5, <2>6 DEF Paid
<1>5. NothingBefore' /\ ReachedIsMarked' /\ AcceptedReached' /\ NoEarlyCallbacks'
  BY DEF Inv, NothingBefore, ReachedIsMarked, Marked, AcceptedReached, NoEarlyCallbacks,
         On, Busy, Current
<1>6. DeliveryIsLatest'
  BY DeliveryByRow, DeliveryByRowThen DEF Inv
<1>7. QED BY <1>2, <1>3, <1>4, <1>5, <1>6 DEF Inv

\* What a message says, and that it is there, is decided when it is enqueued.
RestOf(K) ==
    \A k \in K :
        /\ outbox'[k].content = outbox[k].content
        /\ outbox'[k].st = "none" <=> outbox[k].st = "none"
MessagesRest == RestOf(Keys)

\* Each sender looks at its own messages alone.
LEMMA SendersRest ==
  ASSUME MessagesRest
  PROVE  RestOf(Deliveries) /\ RestOf(Alerts)
BY ReportAssumption, OperationsAssumption DEF MessagesRest, RestOf, Deliveries

LEMMA SameRest ==
  ASSUME outbox' = outbox
  PROVE  MessagesRest
BY DEF MessagesRest, RestOf

LEMMA DispatchRests ==
  ASSUME Inv, DispatchNext
  PROVE  MessagesRest
<1> SUFFICES ASSUME NEW k \in Keys
             PROVE  /\ outbox'[k].content = outbox[k].content
                    /\ outbox'[k].st = "none" <=> outbox[k].st = "none"
  BY DEF MessagesRest, RestOf
<1>1. /\ outbox = [j \in Keys |-> outbox[j]] /\ outbox[k] \in Messages
      /\ \A d \in Dispatchers : Busy(d) => courier[d].key \in Keys
  BY RowParts, CourierParts DEF Inv, NoteTypeOK, Busy
<1>2. CASE \E d \in Dispatchers : Dispatch(d) \/ DispatcherFails(d)
  <2>1. PICK d \in Dispatchers : Dispatch(d) \/ DispatcherFails(d)
    BY <1>2
  <2>2. CASE \E j \in Keys : ClaimNotification(d, j)
    BY <1>1, <2>2 DEF ClaimNotification, Messages
  <2>3. CASE MarkNotificationSendStarted(d)
    BY <1>1, <2>3 DEF MarkNotificationSendStarted, Messages, Busy
  <2>4. CASE FinishNotification(d)
    <3>1. courier[d].answer \in Answers
      BY <2>4, CourierParts DEF Inv, FinishNotification
    <3>2. courier[d].key \in Keys
      BY <1>1, <2>4 DEF FinishNotification, Busy
    <3>3. outbox[courier[d].key] \in Messages
      BY <3>2, RowParts DEF Inv
    <3>4. PICK row \in Messages : row = outbox[courier[d].key]
      BY <3>3
    <3>5. PICK answer \in Answers : answer = courier[d].answer
      BY <3>1
    <3>6. Finished(row, answer).content = row.content /\ Finished(row, answer).st = answer
      BY DEF Finished, Messages, Answers
    <3>7. CASE ~Holds(d) \/ k # courier[d].key
      BY <1>1, <2>4, <3>7 DEF FinishNotification
    <3>8. CASE Holds(d) /\ k = courier[d].key
      <4>1. outbox'[k] = Finished(row, answer) /\ row.st # "none"
        BY <1>1, <2>4, <3>2, <3>4, <3>5, <3>8 DEF FinishNotification, Holds, Waiting
      <4>2. QED BY <3>4, <3>5, <3>6, <3>8, <4>1 DEF Answers
    <3>9. QED BY <3>7, <3>8
  <2>5. CASE ProviderUnknown(d) \/ (\E a \in Answers : SendTemplate(d, a)) \/ DispatcherFails(d)
    BY <2>5 DEF ProviderUnknown, SendTemplate, DispatcherFails
  <2>6. QED BY <2>1, <2>2, <2>3, <2>4, <2>5 DEF Dispatch
<1>3. CASE NoteTimePasses
  BY <1>1, <1>3 DEF NoteTimePasses, NoteLeaseExpires, NoteComesDue, Messages
<1>4. CASE \E j \in Keys, event \in Callbacks : ApplyDeliveryStatus(j, event)
  BY <1>1, <1>4 DEF ApplyDeliveryStatus, Messages
<1>5. QED BY <1>2, <1>3, <1>4 DEF DispatchNext

LEMMA DispatchKeeps ==
  ASSUME Inv, DispatchNext
  PROVE  Inv' /\ MessagesRest
BY InvKept, DispatchRests DEF NoteNext

LEMMA StillKeeps ==
  ASSUME Inv, UNCHANGED noteVars
  PROVE  Inv' /\ MessagesRest
BY InvKept, SameRest DEF noteVars

LEMMA FaultyKeeps ==
  ASSUME Inv, Faulty
  PROVE  Inv' /\ MessagesRest
BY LapseKeeps, SameRest DEF Faulty

\* A delivery whose run is not there is not there, one with a verdict or a
\* message has its snapshot, and the message says what the snapshot does.
DeliveryFits(r, p) ==
    /\ delivery[<<r, p>>] \in DeliveryRows
    /\ delivery[<<r, p>>].st = "none" \/ run[r].st = "none" => delivery[<<r, p>>] = NoDelivery
    /\ delivery[<<r, p>>].st \in {"enqueued", "blocked"} => delivery[<<r, p>>].body # 0
    /\ delivery[<<r, p>>].st = "enqueued" => outbox[<<r, p>>].st # "none"
    /\ outbox[<<r, p>>].st # "none" =>
        delivery[<<r, p>>].body # 0 /\ outbox[<<r, p>>].content[1] = delivery[<<r, p>>].body

AllEnqueued(r) == Of(r) # {} /\ \A p \in Of(r) : delivery[<<r, p>>].st = "enqueued"

RunFits(r) ==
    /\ run[r] \in RunRows
    /\ run[r].live => run[r].st # "none"
    /\ run[r].st = "completed" => AllEnqueued(r)
    /\ \A p \in Recipients : DeliveryFits(r, p)
    /\ \A p, q \in Recipients :
        delivery[<<r, p>>].body # 0 /\ delivery[<<r, q>>].body # 0 =>
            delivery[<<r, p>>].body = delivery[<<r, q>>].body

Held(w, s) == run[s.run].owner = w /\ run[s.run].gen = s.gen /\ run[s.run].st \in Waiting

\* What the state s of a runner stands for.  Only while it holds its run, it
\* knows that nothing has a snapshot; what it knows of single deliveries
\* stays true when another takes over.
Fit(w, s) ==
    /\ s \in RunnerStates
    /\ s.at # "idle" =>
        /\ run[s.run].st # "none"
        /\ s.at \in {"compose", "persist"} /\ Held(w, s) =>
            Bodies(s.run) = {} /\ s.todo = Pending(s.run)
        /\ s.at \notin {"claimed", "finish"} => Of(s.run) # {}
        /\ s.at = "persist" => s.basis # 0
        /\ s.at = "relist" => Pending(s.run) \subseteq Bodies(s.run)
        /\ s.at \in {"enqueue", "record", "refuse"} => s.todo \subseteq Bodies(s.run)
        /\ s.at \in {"record", "refuse"} => s.current \in s.todo
        /\ s.at = "record" => outbox[<<s.run, s.current>>].st # "none"
        /\ s.at = "finish" => s.verdict # "none"
        /\ s.at = "finish" /\ s.verdict = "completed" => AllEnqueued(s.run)

PlanFits ==
    /\ nextSlot \in 1 .. MaxSlots + 1
    /\ figures \in 1 .. MaxFigures /\ mapping \in 0 .. MaxTemplate
    /\ run = [r \in Runs |-> run[r]]
    /\ delivery = [d \in Runs \X Recipients |-> delivery[d]]
    /\ runner = [w \in Runners |-> runner[w]]
    /\ \A s \in Slots : run[s].st # "none" <=> s < nextSlot

RunInv ==
    /\ Inv /\ PlanFits
    /\ \A r \in Runs : RunFits(r)
    /\ \A w \in Runners : Fit(w, runner[w])

\* What no step undoes.
RunGoesOn(r) ==
    /\ run[r].st # "none" => run'[r].st # "none"
    /\ run[r].st \in {"completed", "blocked"} => run'[r].st = run[r].st
    /\ \A p \in Recipients :
        /\ run[r].st # "none" => (delivery'[<<r, p>>].st = "none" <=> delivery[<<r, p>>].st = "none")
        /\ delivery'[<<r, p>>].st = "pending" /\ run[r].st # "none" => delivery[<<r, p>>].st = "pending"
        /\ delivery[<<r, p>>].st \in {"enqueued", "blocked"} => delivery'[<<r, p>>].st = delivery[<<r, p>>].st
        /\ delivery[<<r, p>>].body # 0 => delivery'[<<r, p>>].body = delivery[<<r, p>>].body
        /\ outbox[<<r, p>>].st # "none" => outbox'[<<r, p>>].st # "none"

AllGoOn == \A r \in Runs : RunGoesOn(r)

LEMMA WorkParts ==
  ASSUME NEW s \in RunnerStates
  PROVE  /\ s.at = "idle" <=> s = Off
         /\ s.at # "idle" =>
            /\ s \in Works /\ s.run \in Runs /\ s.gen \in Nat /\ s.todo \subseteq Recipients
            /\ s.at \in {"record", "refuse"} => s.current \in Recipients \cup {Nothing}
            /\ s.basis \in 0 .. MaxFigures /\ s.remain \in BOOLEAN
            /\ s.verdict \in {"none", "completed", "retry", "blocked"}
BY DEF RunnerStates, Works, Off

LEMMA PairKeys ==
  ASSUME NEW r \in Runs, NEW p \in Recipients
  PROVE  <<r, p>> \in Keys /\ <<r, p>> \in Runs \X Recipients
BY ReportAssumption

\* A runner that does nothing goes on knowing what it knew.
LEMMA FitStays ==
  ASSUME NEW v \in Runners, NEW s, Fit(v, s), AllGoOn,
         s.at \in {"compose", "persist"} /\ Held(v, s)' =>
            Held(v, s) /\ \A p \in Recipients : delivery'[<<s.run, p>>] = delivery[<<s.run, p>>]
  PROVE  Fit(v, s)'
<1>1. s \in RunnerStates
  BY DEF Fit
<1>2. CASE s.at = "idle"
  BY <1>1, <1>2 DEF Fit
<1>3. CASE s.at # "idle"
  <2> DEFINE r == s.run
  <2>1. r \in Runs /\ s.todo \subseteq Recipients /\ run[r].st # "none"
    BY <1>1, <1>3, WorkParts DEF Fit
  <2>2. RunGoesOn(r)
    BY <2>1 DEF AllGoOn
  <2>3. run'[r].st # "none"
    BY <2>1, <2>2 DEF RunGoesOn
  <2>4. Of(r)' = Of(r) /\ Pending(r)' \subseteq Pending(r) /\ Bodies(r) \subseteq Bodies(r)'
    BY <2>1, <2>2 DEF RunGoesOn, Of, Pending, Bodies
  <2>5. AllEnqueued(r) => AllEnqueued(r)'
    BY <2>1, <2>2, <2>4 DEF AllEnqueued, RunGoesOn, Of
  <2>6. s.at \in {"compose", "persist"} /\ Held(v, s)' => Bodies(r)' = {} /\ s.todo = Pending(r)'
    <3> SUFFICES ASSUME s.at \in {"compose", "persist"}, Held(v, s)'
                 PROVE  Bodies(r)' = {} /\ s.todo = Pending(r)'
      OBVIOUS
    <3>1. Held(v, s) /\ \A p \in Recipients : delivery'[<<r, p>>] = delivery[<<r, p>>]
      OBVIOUS
    <3>2. Bodies(r)' = Bodies(r) /\ Pending(r)' = Pending(r)
      BY <3>1 DEF Of, Bodies, Pending
    <3>3. QED BY <1>3, <3>1, <3>2 DEF Fit
  <2>7. s.at = "record" => outbox'[<<r, s.current>>].st # "none"
    BY <1>3, <2>1, <2>2 DEF Fit, RunGoesOn
  <2>8. QED BY <1>1, <1>3, <2>3, <2>4, <2>5, <2>6, <2>7 DEF Fit
<1>4. QED BY <1>2, <1>3

\* Whoever holds its run finds the deliveries as it left them.
LeavesAlone(v) ==
    \A s \in RunnerStates :
        s = runner[v] /\ s.at \in {"compose", "persist"} /\ Held(v, s)' =>
            Held(v, s) /\ \A p \in Recipients : delivery'[<<s.run, p>>] = delivery[<<s.run, p>>]

LEMMA OthersStay ==
  ASSUME NEW v \in Runners, Fit(v, runner[v]), runner'[v] = runner[v], AllGoOn, LeavesAlone(v)
  PROVE  Fit(v, runner[v])'
<1>1. PICK s : s = runner[v]
  OBVIOUS
<1>2. Fit(v, s) /\ s \in RunnerStates
  BY <1>1 DEF Fit
<1>3. s.at \in {"compose", "persist"} /\ Held(v, s)' =>
        Held(v, s) /\ \A p \in Recipients : delivery'[<<s.run, p>>] = delivery[<<s.run, p>>]
  BY <1>1, <1>2 DEF LeavesAlone
<1>4. Fit(v, s)'
  BY <1>2, <1>3, FitStays
<1>5. QED BY <1>1, <1>4 DEF Fit

LEMMA RunnersMove ==
  ASSUME RunInv, AllGoOn, NEW w \in Runners, NEW s, runner' = [runner EXCEPT ![w] = s],
         Fit(w, s)', \A v \in Runners : v # w => LeavesAlone(v)
  PROVE  runner' = [v \in Runners |-> runner'[v]] /\ \A v \in Runners : Fit(v, runner[v])'
<1>1. runner = [v \in Runners |-> runner[v]]
  BY DEF RunInv, PlanFits
<1>2. runner'[w] = s /\ \A v \in Runners : v # w => runner'[v] = runner[v]
  BY <1>1
<1>3. runner' = [v \in Runners |-> runner'[v]]
  BY <1>1
<1>4. ASSUME NEW v \in Runners PROVE Fit(v, runner[v])'
  <2>1. CASE v = w
    BY <1>2, <2>1 DEF Fit
  <2>2. CASE v # w
    <3>1. Fit(v, runner[v])
      BY DEF RunInv
    <3>2. QED BY <1>2, <2>2, <3>1, OthersStay
  <2>3. QED BY <2>1, <2>2
<1>5. QED BY <1>3, <1>4

\* Steps that touch neither runs nor deliveries.
LEMMA RunsRest ==
  ASSUME RunInv, UNCHANGED <<run, delivery>>, RestOf(Deliveries)
  PROVE  AllGoOn /\ \A r \in Runs : RunFits(r)'
<1>1. \A r \in Runs, p \in Recipients :
        /\ outbox'[<<r, p>>].content = outbox[<<r, p>>].content
        /\ outbox'[<<r, p>>].st = "none" <=> outbox[<<r, p>>].st = "none"
  BY PairKeys DEF RestOf, Deliveries
<1>2. AllGoOn
  BY <1>1 DEF AllGoOn, RunGoesOn
<1>3. ASSUME NEW r \in Runs PROVE RunFits(r)'
  <2>1. RunFits(r)
    BY DEF RunInv
  <2>2. ASSUME NEW p \in Recipients PROVE DeliveryFits(r, p)'
    BY <1>1, <2>1 DEF RunFits, DeliveryFits
  <2>3. AllEnqueued(r)' <=> AllEnqueued(r)
    BY DEF AllEnqueued, Of
  <2>4. QED BY <2>1, <2>2, <2>3 DEF RunFits
<1>4. QED BY <1>2, <1>3

LEMMA FitSame ==
  ASSUME NEW w, NEW s, Fit(w, s), UNCHANGED <<run, delivery, outbox>>
  PROVE  Fit(w, s)'
<1>1. /\ Of(s.run)' = Of(s.run) /\ Pending(s.run)' = Pending(s.run)
      /\ Bodies(s.run)' = Bodies(s.run) /\ (AllEnqueued(s.run)' <=> AllEnqueued(s.run))
      /\ (Held(w, s)' <=> Held(w, s))
  BY DEF Of, Pending, Bodies, AllEnqueued, Held
<1>2. QED BY <1>1 DEF Fit

LEMMA RestLeaves ==
  ASSUME UNCHANGED <<run, delivery>>, NEW v \in Runners
  PROVE  LeavesAlone(v)
BY DEF LeavesAlone, Held

LEMMA RunnerMoves ==
  ASSUME RunInv, Inv', MessagesRest, UNCHANGED <<nextSlot, run, delivery, figures, mapping, outbox>>,
         NEW w \in Runners, NEW s, runner' = [runner EXCEPT ![w] = s], Fit(w, s)
  PROVE  RunInv' /\ AllGoOn
<1>1. AllGoOn /\ \A r \in Runs : RunFits(r)'
  BY RunsRest, SendersRest
<1>2. runner' = [v \in Runners |-> runner'[v]] /\ \A v \in Runners : Fit(v, runner[v])'
  <2>1. Fit(w, s)'
    BY FitSame
  <2>2. \A v \in Runners : LeavesAlone(v)
    BY RestLeaves
  <2>3. QED BY <1>1, <2>1, <2>2, RunnersMove
<1>3. PlanFits'
  BY <1>2 DEF RunInv, PlanFits
<1>4. QED BY <1>1, <1>2, <1>3 DEF RunInv

LEMMA EndFits ==
  ASSUME NEW w \in Runners, NEW s, Fit(w, s), s.at # "idle", NEW verdict \in {"retry", "blocked"}
  PROVE  Fit(w, [s EXCEPT !.at = "finish", !.verdict = verdict])
<1> DEFINE t == [s EXCEPT !.at = "finish", !.verdict = verdict]
<1>1. s \in Works /\ run[s.run].st # "none"
  BY WorkParts DEF Fit
<1>2. t \in Works /\ t.at = "finish" /\ t.verdict = verdict /\ t.run = s.run
  BY <1>1 DEF Works
<1>3. QED BY <1>1, <1>2 DEF Fit, RunnerStates

LEMMA EndKeeps ==
  ASSUME RunInv, Inv', MessagesRest, UNCHANGED <<nextSlot, run, delivery, figures, mapping, outbox>>,
         NEW w \in Runners, runner[w].at # "idle", NEW verdict \in {"retry", "blocked"},
         Ends(w, verdict)
  PROVE  RunInv' /\ AllGoOn
<1>1. PICK s : s = runner[w]
  OBVIOUS
<1>2. Fit(w, s)
  BY <1>1 DEF RunInv
<1>3. Fit(w, [s EXCEPT !.at = "finish", !.verdict = verdict])
  BY <1>1, <1>2, EndFits
<1>4. runner' = [runner EXCEPT ![w] = [s EXCEPT !.at = "finish", !.verdict = verdict]]
  BY <1>1 DEF Ends
<1>5. QED BY <1>3, <1>4, RunnerMoves

LEMMA ReadRunKeeps ==
  ASSUME RunInv, NEW w \in Runners, ReadRun(w)
  PROVE  RunInv' /\ AllGoOn
<1>1. Inv' /\ MessagesRest /\ UNCHANGED <<nextSlot, run, delivery, figures, mapping, outbox>>
  BY StillKeeps DEF RunInv, ReadRun, noteVars
<1>2. PICK s : s = runner[w]
  OBVIOUS
<1>3. Fit(w, s) /\ s.at = "claimed" /\ s \in Works /\ run[s.run].st # "none"
  BY <1>2, WorkParts DEF RunInv, ReadRun, Fit
<1> DEFINE missing == Pending(s.run) \ Bodies(s.run)
<1>4. CASE Ends(w, "blocked")
  BY <1>1, <1>2, <1>3, <1>4, EndKeeps
<1>5. CASE Of(s.run) # {} /\ missing = {} /\ Goes(w, "relist")
  <2>1. [s EXCEPT !.at = "relist"] \in Works
    BY <1>3 DEF Works
  <2>2. [s EXCEPT !.at = "relist"].at = "relist" /\ [s EXCEPT !.at = "relist"].run = s.run
    BY <1>3 DEF Works
  <2>3. Fit(w, [s EXCEPT !.at = "relist"])
    BY <1>3, <1>5, <2>1, <2>2 DEF Fit, RunnerStates
  <2>4. QED BY <1>1, <1>2, <1>5, <2>3, RunnerMoves DEF Goes
<1>6. CASE /\ missing # {} /\ ~BarrierBlocks(w, missing)
           /\ runner' = [runner EXCEPT ![w].at = "compose", ![w].todo = missing]
  <2> DEFINE t == [s EXCEPT !.at = "compose", !.todo = missing]
  <2>1. Bodies(s.run) = {} /\ missing = Pending(s.run) /\ Of(s.run) # {}
    BY <1>2, <1>6 DEF BarrierBlocks, MyRun, Pending
  <2>2. missing \subseteq Recipients
    BY DEF Pending, Of
  <2>3. t \in Works /\ t.at = "compose" /\ t.run = s.run /\ t.todo = missing
    BY <1>3, <2>2 DEF Works
  <2>4. Fit(w, t)
    BY <1>3, <2>1, <2>3 DEF Fit, RunnerStates
  <2>5. runner' = [runner EXCEPT ![w] = t]
    BY <1>2, <1>6
  <2>6. QED BY <1>1, <2>4, <2>5, RunnerMoves
<1>7. QED BY <1>2, <1>4, <1>5, <1>6 DEF ReadRun, MyRun

LEMMA ComposeKeeps ==
  ASSUME RunInv, NEW w \in Runners, Compose(w)
  PROVE  RunInv' /\ AllGoOn
<1>1. Inv' /\ MessagesRest /\ UNCHANGED <<nextSlot, run, delivery, figures, mapping, outbox>>
  BY StillKeeps DEF RunInv, Compose, noteVars
<1>2. PICK s : s = runner[w]
  OBVIOUS
<1>3. Fit(w, s) /\ s.at = "compose" /\ s \in Works
  BY <1>2, WorkParts DEF RunInv, Compose, Fit
<1>4. CASE runner' = [runner EXCEPT ![w].at = "persist", ![w].basis = figures]
  <2> DEFINE t == [s EXCEPT !.at = "persist", !.basis = figures]
  <2>1. figures \in 0 .. MaxFigures /\ figures # 0
    BY ReportAssumption DEF RunInv, PlanFits
  <2>2. /\ t \in Works /\ t.at = "persist" /\ t.basis = figures
        /\ t.run = s.run /\ t.gen = s.gen /\ t.todo = s.todo
    BY <1>3, <2>1 DEF Works
  <2>3. Fit(w, t)
    BY <1>3, <2>1, <2>2 DEF Fit, RunnerStates, Held
  <2>4. runner' = [runner EXCEPT ![w] = t]
    BY <1>2, <1>4
  <2>5. QED BY <1>1, <2>3, <2>4, RunnerMoves
<1>5. CASE Ends(w, "blocked")
  BY <1>1, <1>2, <1>3, <1>5, EndKeeps
<1>6. QED BY <1>4, <1>5 DEF Compose

LEMMA SimpleFaultKeeps ==
  ASSUME RunInv, NEW w \in Runners, ReadKindFails(w) \/ ComposeFails(w)
  PROVE  RunInv' /\ AllGoOn
<1>1. Faulty /\ UNCHANGED <<nextSlot, run, delivery, figures, mapping>>
  BY DEF ReadKindFails, ComposeFails
<1>2. Inv' /\ MessagesRest /\ UNCHANGED outbox
  BY <1>1, FaultyKeeps DEF RunInv, Faulty
<1>3. runner[w].at # "idle" /\ (Ends(w, "blocked") \/ Ends(w, "retry"))
  BY DEF ReadKindFails, ComposeFails
<1>4. QED BY <1>1, <1>2, <1>3, EndKeeps

\* The deliveries left to enqueue.
LEMMA TodoKeeps ==
  ASSUME RunInv, Inv', MessagesRest, UNCHANGED <<nextSlot, run, delivery, figures, mapping, outbox>>,
         NEW w \in Runners, NEW todo, NEW remain \in BOOLEAN,
         runner[w].at \in {"relist", "enqueue"}, todo \subseteq Bodies(runner[w].run),
         runner' = [runner EXCEPT ![w].at = "enqueue", ![w].todo = todo, ![w].remain = remain]
  PROVE  RunInv' /\ AllGoOn
<1>1. PICK s : s = runner[w]
  OBVIOUS
<1>2. Fit(w, s) /\ s.at \in {"relist", "enqueue"} /\ s \in Works
  BY <1>1, WorkParts DEF RunInv, Fit
<1> DEFINE t == [s EXCEPT !.at = "enqueue", !.todo = todo, !.remain = remain]
<1>3. todo \subseteq Recipients
  BY DEF Bodies, Of
<1>4. t \in Works /\ t.at = "enqueue" /\ t.run = s.run /\ t.todo = todo
  BY <1>2, <1>3 DEF Works
<1>5. Fit(w, t)
  BY <1>1, <1>2, <1>4 DEF Fit, RunnerStates
<1>6. runner' = [runner EXCEPT ![w] = t]
  BY <1>1
<1>7. QED BY <1>5, <1>6, RunnerMoves

LEMMA RelistKeeps ==
  ASSUME RunInv, NEW w \in Runners, Relist(w) \/ RelistFails(w)
  PROVE  RunInv' /\ AllGoOn
<1>1. Inv' /\ MessagesRest /\ UNCHANGED outbox
  BY StillKeeps, FaultyKeeps DEF RunInv, Relist, RelistFails, Faulty, noteVars
<1>2. UNCHANGED <<nextSlot, run, delivery, figures, mapping>> /\ runner[w].at = "relist"
  BY DEF Relist, RelistFails
<1>3. PICK s : s = runner[w]
  OBVIOUS
<1>4. Fit(w, s) /\ s.at = "relist" /\ s \in Works
  BY <1>2, <1>3, WorkParts DEF RunInv, Fit
<1>5. PICK todo \in {Pending(s.run), {}} :
        runner' = [runner EXCEPT ![w].at = "enqueue", ![w].todo = todo]
  BY <1>3 DEF Relist, RelistFails, MyRun
<1>6. todo \subseteq Bodies(s.run) /\ s.remain \in BOOLEAN
  BY <1>4, <1>5 DEF Fit, Works
<1>7. [s EXCEPT !.at = "enqueue", !.todo = todo]
        = [s EXCEPT !.at = "enqueue", !.todo = todo, !.remain = s.remain]
  BY <1>4 DEF Works
<1>8. runner' = [runner EXCEPT ![w] = [s EXCEPT !.at = "enqueue", !.todo = todo]]
  BY <1>3, <1>5
<1>9. runner' = [runner EXCEPT ![w].at = "enqueue", ![w].todo = todo, ![w].remain = s.remain]
  BY <1>3, <1>7, <1>8
<1>10. QED BY <1>1, <1>2, <1>3, <1>6, <1>9, TodoKeeps

LEMMA EnqueueFailsKeeps ==
  ASSUME RunInv, NEW w \in Runners, NEW p \in Recipients, EnqueueFails(w, p)
  PROVE  RunInv' /\ AllGoOn
<1>1. Inv' /\ MessagesRest /\ UNCHANGED <<nextSlot, run, delivery, figures, mapping, outbox>>
  BY FaultyKeeps DEF RunInv, EnqueueFails, Faulty
<1>2. PICK s : s = runner[w]
  OBVIOUS
<1>3. Fit(w, s) /\ s.at = "enqueue" /\ s \in Works
  BY <1>2, WorkParts DEF RunInv, EnqueueFails, Fit
<1>4. s.todo \ {p} \subseteq Bodies(s.run)
  BY <1>3 DEF Fit
<1>5. [s EXCEPT !.todo = s.todo \ {p}, !.remain = TRUE]
        = [s EXCEPT !.at = "enqueue", !.todo = s.todo \ {p}, !.remain = TRUE]
  BY <1>3 DEF Works
<1>6. runner' = [runner EXCEPT ![w] = [s EXCEPT !.todo = s.todo \ {p}, !.remain = TRUE]]
  BY <1>2 DEF EnqueueFails
<1>7. runner' = [runner EXCEPT ![w].at = "enqueue", ![w].todo = s.todo \ {p}, ![w].remain = TRUE]
  BY <1>2, <1>5, <1>6
<1>8. QED BY <1>1, <1>2, <1>3, <1>4, <1>7, TodoKeeps

LEMMA FinishAggregateKeeps ==
  ASSUME RunInv, NEW w \in Runners, FinishAggregate(w)
  PROVE  RunInv' /\ AllGoOn
<1>1. Inv' /\ MessagesRest /\ UNCHANGED <<nextSlot, run, delivery, figures, mapping, outbox>>
  BY StillKeeps DEF RunInv, FinishAggregate, noteVars
<1>2. PICK s : s = runner[w]
  OBVIOUS
<1>3. Fit(w, s) /\ s.at = "enqueue" /\ s \in Works /\ s.run \in Runs
  BY <1>2, WorkParts DEF RunInv, FinishAggregate, Fit
<1>4. Verdict(w) \in {"retry", "blocked", "completed"}
  BY DEF Verdict
<1>5. CASE Verdict(w) # "completed"
  BY <1>1, <1>2, <1>3, <1>4, <1>5, EndKeeps DEF FinishAggregate
<1>6. CASE Verdict(w) = "completed"
  <2> DEFINE t == [s EXCEPT !.at = "finish", !.verdict = "completed"]
  <2>1. t \in Works /\ t.at = "finish" /\ t.verdict = "completed" /\ t.run = s.run
    BY <1>3 DEF Works
  <2>2. Pending(s.run) = {} /\ \A p \in Of(s.run) : delivery[<<s.run, p>>].st # "blocked"
    BY <1>2, <1>6 DEF Verdict, MyRun
  <2>3. \A p \in Recipients : delivery[<<s.run, p>>] \in DeliveryRows
    BY <1>3 DEF RunInv, RunFits, DeliveryFits
  <2>4. AllEnqueued(s.run)
    BY <1>3, <2>2, <2>3 DEF Fit, AllEnqueued, Of, Pending, DeliveryRows
  <2>5. Fit(w, t)
    BY <1>3, <2>1, <2>4 DEF Fit, RunnerStates
  <2>6. runner' = [runner EXCEPT ![w] = t]
    BY <1>2, <1>6 DEF FinishAggregate, Ends
  <2>7. QED BY <1>1, <2>5, <2>6, RunnerMoves
<1>7. QED BY <1>5, <1>6

LEMMA OffFits ==
  ASSUME NEW w \in Runners
  PROVE  Fit(w, Off)
BY DEF Fit, Off, RunnerStates

LEMMA RunnerFailsKeeps ==
  ASSUME RunInv, NEW w \in Runners, RunnerFails(w)
  PROVE  RunInv' /\ AllGoOn
<1>1. Inv' /\ MessagesRest /\ UNCHANGED <<nextSlot, run, delivery, figures, mapping, outbox>>
  BY FaultyKeeps DEF RunInv, RunnerFails, Faulty
<1>2. QED BY <1>1, OffFits, RunnerMoves DEF RunnerFails

\* Steps that write one run.
LEMMA RunChanges ==
  ASSUME RunInv, MessagesRest, UNCHANGED <<nextSlot, delivery, figures, mapping>>,
         NEW r \in Runs, NEW row \in RunRows, run' = [run EXCEPT ![r] = row],
         run[r].st # "none", row.st # "none", row.st = "completed" => AllEnqueued(r),
         run[r].st \in {"completed", "blocked"} => row.st = run[r].st
  PROVE  AllGoOn /\ (\A q \in Runs : RunFits(q)') /\ (runner' = [v \in Runners |-> runner'[v]] => PlanFits')
<1>1. \A q \in Runs, p \in Recipients :
        /\ outbox'[<<q, p>>].content = outbox[<<q, p>>].content
        /\ outbox'[<<q, p>>].st = "none" <=> outbox[<<q, p>>].st = "none"
  BY PairKeys DEF MessagesRest, RestOf
<1>2. /\ run = [q \in Runs |-> run[q]] /\ run'[r] = row
      /\ run' = [q \in Runs |-> run'[q]] /\ \A q \in Runs : q # r => run'[q] = run[q]
  BY DEF RunInv, PlanFits
<1>3. \A q \in Runs : run'[q].st # "none" <=> run[q].st # "none"
  BY <1>2
<1>4. AllGoOn
  BY <1>1, <1>2 DEF AllGoOn, RunGoesOn
<1>5. ASSUME NEW q \in Runs PROVE RunFits(q)'
  <2>1. RunFits(q)
    BY DEF RunInv
  <2>2. ASSUME NEW p \in Recipients PROVE DeliveryFits(q, p)'
    BY <1>1, <1>3, <2>1 DEF RunFits, DeliveryFits
  <2>3. AllEnqueued(q)' <=> AllEnqueued(q)
    BY DEF AllEnqueued, Of
  <2>4. QED BY <1>2, <2>1, <2>2, <2>3 DEF RunFits
<1>6. runner' = [v \in Runners |-> runner'[v]] => PlanFits'
  <2>1. \A s \in Slots : s \in Runs
    BY DEF Runs
  <2>2. QED BY <1>2, <1>3, <2>1 DEF RunInv, PlanFits
<1>7. QED BY <1>4, <1>5, <1>6

LEMMA RunRowParts ==
  ASSUME RunInv, NEW r \in Runs
  PROVE  /\ run[r] \in RunRows /\ run[r].gen \in Nat /\ run[r].gen + 1 \in Nat
         /\ run[r].st \in {"none", "pending", "retry", "completed", "blocked"}
<1>1. run[r] \in RunRows
  BY DEF RunInv, RunFits
<1>2. QED BY <1>1 DEF RunRows

LEMMA ClaimRunKeeps ==
  ASSUME RunInv, NEW w \in Runners, NEW r \in Runs, ClaimRun(w, r)
  PROVE  RunInv' /\ AllGoOn
<1>1. Inv' /\ MessagesRest /\ UNCHANGED <<nextSlot, delivery, figures, mapping>>
  BY StillKeeps DEF RunInv, ClaimRun
<1>2. PICK old : old = run[r]
  OBVIOUS
<1>3. old \in RunRows /\ old.gen \in Nat /\ old.gen + 1 \in Nat /\ old.st \in Waiting
  BY <1>2, RunRowParts DEF ClaimRun, RunClaimable
<1> DEFINE row == [old EXCEPT !.owner = w, !.gen = old.gen + 1, !.live = TRUE]
           s == [at |-> "claimed", run |-> r, gen |-> old.gen + 1, todo |-> {},
                 current |-> Nothing, basis |-> 0, remain |-> FALSE, verdict |-> "none"]
<1>4. row \in RunRows /\ row.st = old.st /\ row.owner = w
  BY <1>3 DEF RunRows
<1>5. run' = [run EXCEPT ![r] = row] /\ runner' = [runner EXCEPT ![w] = s]
  BY <1>2 DEF ClaimRun
<1>6. run'[r] = row /\ \A q \in Runs : q # r => run'[q] = run[q]
  BY <1>5 DEF RunInv, PlanFits
<1>7. /\ AllGoOn /\ (\A q \in Runs : RunFits(q)')
      /\ runner' = [v \in Runners |-> runner'[v]] => PlanFits'
  <2> HIDE DEF row
  <2>1. run[r].st # "none" /\ row.st # "none" /\ row.st \notin {"completed"}
        /\ run[r].st \notin {"completed", "blocked"}
    BY <1>2, <1>3, <1>4 DEF Waiting
  <2>2. QED BY <1>1, <1>4, <1>5, <2>1, RunChanges
<1>8. Fit(w, s)'
  <2>1. s \in Works
    BY <1>3, ReportAssumption DEF Works
  <2>2. run'[r].st # "none"
    BY <1>3, <1>4, <1>6 DEF Waiting
  <2>3. QED BY <2>1, <2>2 DEF Fit, RunnerStates
<1>9. ASSUME NEW v \in Runners, v # w PROVE LeavesAlone(v)
  <2> SUFFICES ASSUME NEW t \in RunnerStates, t = runner[v], t.at \in {"compose", "persist"}, Held(v, t)'
               PROVE  Held(v, t) /\ \A p \in Recipients : delivery'[<<t.run, p>>] = delivery[<<t.run, p>>]
    BY DEF LeavesAlone
  <2>1. t.run \in Runs
    BY WorkParts
  <2>2. t.run # r
    BY <1>4, <1>6, <1>9 DEF Held
  <2>3. QED BY <1>1, <1>6, <2>1, <2>2 DEF Held
<1>10. runner' = [v \in Runners |-> runner'[v]] /\ \A v \in Runners : Fit(v, runner[v])'
  <2> HIDE DEF s
  <2>1. QED BY <1>5, <1>7, <1>8, <1>9, RunnersMove
<1>11. QED BY <1>1, <1>7, <1>10 DEF RunInv

LEMMA FinishRunKeeps ==
  ASSUME RunInv, NEW w \in Runners, FinishRun(w)
  PROVE  RunInv' /\ AllGoOn
<1>1. Inv' /\ MessagesRest /\ UNCHANGED <<nextSlot, delivery, figures, mapping>>
  BY StillKeeps DEF RunInv, FinishRun
<1>2. PICK s : s = runner[w]
  OBVIOUS
<1>3. Fit(w, s) /\ s.at = "finish" /\ s \in Works /\ s.run \in Runs
      /\ s.verdict \in {"completed", "retry", "blocked"}
  BY <1>2, WorkParts DEF RunInv, FinishRun, Fit
<1>4. CASE ~HoldsRun(w)
  <2>1. UNCHANGED run /\ runner' = [runner EXCEPT ![w] = Off] /\ UNCHANGED outbox
    BY <1>4 DEF FinishRun, noteVars
  <2>2. QED BY <1>1, <2>1, OffFits, RunnerMoves
<1>5. CASE HoldsRun(w)
  <2>1. PICK old : old = run[s.run]
    OBVIOUS
  <2>2. old \in RunRows /\ old.st \in Waiting /\ old.owner = w
    BY <1>2, <1>3, <1>5, <2>1, RunRowParts DEF HoldsRun, MyRun
  <2> DEFINE row == FinishedRun(old, s.verdict)
  <2>3. row \in RunRows /\ row.st = s.verdict /\ row.owner = Nobody
    BY <1>3, <2>2 DEF RunRows, FinishedRun
  <2>4. run' = [run EXCEPT ![s.run] = row] /\ runner' = [runner EXCEPT ![w] = Off]
    BY <1>2, <1>5, <2>1 DEF FinishRun, MyRun
  <2> HIDE DEF row
  <2>5. run'[s.run] = row /\ \A q \in Runs : q # s.run => run'[q] = run[q]
    BY <1>3, <2>4 DEF RunInv, PlanFits
  <2>6. /\ AllGoOn /\ (\A q \in Runs : RunFits(q)')
        /\ runner' = [v \in Runners |-> runner'[v]] => PlanFits'
    <3>1. run[s.run].st # "none" /\ row.st # "none" /\ run[s.run].st \notin {"completed", "blocked"}
      BY <1>3, <2>1, <2>2, <2>3 DEF Waiting
    <3>2. row.st = "completed" => AllEnqueued(s.run)
      BY <1>3, <2>3 DEF Fit
    <3>3. QED BY <1>1, <1>3, <2>3, <2>4, <3>1, <3>2, RunChanges
  <2>7. Fit(w, Off)'
    BY DEF Fit, Off, RunnerStates
  <2>8. ASSUME NEW v \in Runners, v # w PROVE LeavesAlone(v)
    <3> SUFFICES ASSUME NEW t \in RunnerStates, t = runner[v], t.at \in {"compose", "persist"}, Held(v, t)'
                 PROVE  Held(v, t) /\ \A p \in Recipients : delivery'[<<t.run, p>>] = delivery[<<t.run, p>>]
      BY DEF LeavesAlone
    <3>1. t.run \in Runs
      BY WorkParts
    <3>2. t.run # s.run
      BY <2>3, <2>5, ReportAssumption DEF Held
    <3>3. QED BY <1>1, <2>5, <3>1, <3>2 DEF Held
  <2>9. runner' = [v \in Runners |-> runner'[v]] /\ \A v \in Runners : Fit(v, runner[v])'
    BY <2>4, <2>6, <2>7, <2>8, RunnersMove
  <2>10. QED BY <1>1, <2>6, <2>9 DEF RunInv
<1>6. QED BY <1>4, <1>5

LEMMA RunTimeKeeps ==
  ASSUME RunInv, NEW r \in Runs, RunLeaseExpires(r) \/ RunComesDue(r)
  PROVE  RunInv' /\ AllGoOn
<1>1. UNCHANGED noteVars \/ Faulty
  BY DEF RunLeaseExpires, RunComesDue
<1>2. Inv' /\ MessagesRest
  BY <1>1, StillKeeps, FaultyKeeps DEF RunInv
<1>3. UNCHANGED <<nextSlot, delivery, runner, figures, mapping>>
  BY DEF RunLeaseExpires, RunComesDue
<1>4. PICK old : old = run[r]
  OBVIOUS
<1>5. old \in RunRows /\ RunFits(r)
  BY <1>4, RunRowParts DEF RunInv
<1>6. PICK row \in {[old EXCEPT !.live = FALSE], [old EXCEPT !.due = TRUE]} :
        run' = [run EXCEPT ![r] = row]
  BY <1>4 DEF RunLeaseExpires, RunComesDue
<1>7. row \in RunRows /\ row.st = old.st /\ row.owner = old.owner /\ row.gen = old.gen
  BY <1>5, <1>6 DEF RunRows
<1>8. run[r].st # "none"
  BY <1>4, <1>5 DEF RunLeaseExpires, RunComesDue, RunFits
<1>9. run'[r] = row /\ \A q \in Runs : q # r => run'[q] = run[q]
  BY <1>6 DEF RunInv, PlanFits
<1>10. /\ AllGoOn /\ (\A q \in Runs : RunFits(q)')
       /\ runner' = [v \in Runners |-> runner'[v]] => PlanFits'
  <2>1. row.st = "completed" => AllEnqueued(r)
    BY <1>4, <1>5, <1>7 DEF RunFits
  <2>2. QED BY <1>2, <1>3, <1>4, <1>6, <1>7, <1>8, <2>1, RunChanges
<1>11. ASSUME NEW v \in Runners PROVE LeavesAlone(v)
  <2> SUFFICES ASSUME NEW t \in RunnerStates, t = runner[v], t.at \in {"compose", "persist"}, Held(v, t)'
               PROVE  Held(v, t) /\ \A p \in Recipients : delivery'[<<t.run, p>>] = delivery[<<t.run, p>>]
    BY DEF LeavesAlone
  <2>1. t.run \in Runs
    BY WorkParts
  <2>2. run'[t.run].owner = run[t.run].owner /\ run'[t.run].gen = run[t.run].gen
        /\ run'[t.run].st = run[t.run].st
    BY <1>4, <1>7, <1>9, <2>1
  <2>3. QED BY <1>3, <2>2 DEF Held
<1>12. \A v \in Runners : Fit(v, runner[v])'
  BY <1>3, <1>10, <1>11, OthersStay DEF RunInv
<1>13. PlanFits'
  BY <1>3, <1>10 DEF RunInv, PlanFits
<1>14. QED BY <1>2, <1>10, <1>12, <1>13 DEF RunInv

\* Steps that write deliveries of one run, by the runner that holds it.
HeldDeliveries(r) ==
    /\ delivery' = [d \in Runs \X Recipients |-> delivery'[d]]
    /\ \A q \in Runs : q # r => \A p \in Recipients : delivery'[<<q, p>>] = delivery[<<q, p>>]

LEMMA DeliveriesChange ==
  ASSUME RunInv, Inv', UNCHANGED <<nextSlot, run, figures, mapping, outbox>>,
         NEW w \in Runners, HoldsRun(w), NEW s, runner' = [runner EXCEPT ![w] = s],
         NEW r \in Runs, r = MyRun(w),
         HeldDeliveries(r), RunFits(r)', RunGoesOn(r), Fit(w, s)'
  PROVE  RunInv' /\ AllGoOn
<1>2. ASSUME NEW q \in Runs, q # r PROVE RunFits(q)' /\ RunGoesOn(q)
  <2>1. RunFits(q) /\ \A p \in Recipients : delivery'[<<q, p>>] = delivery[<<q, p>>]
    BY <1>2 DEF RunInv, HeldDeliveries
  <2>2. \A p \in Recipients : DeliveryFits(q, p)'
    BY <2>1 DEF RunFits, DeliveryFits
  <2>3. AllEnqueued(q)' <=> AllEnqueued(q)
    BY <2>1 DEF AllEnqueued, Of
  <2>4. RunFits(q)'
    BY <2>1, <2>2, <2>3 DEF RunFits
  <2>5. RunGoesOn(q)
    BY <2>1 DEF RunGoesOn
  <2>6. QED BY <2>4, <2>5
<1>3. AllGoOn /\ \A q \in Runs : RunFits(q)'
  BY <1>2 DEF AllGoOn
<1>4. ASSUME NEW v \in Runners, v # w PROVE LeavesAlone(v)
  <2> SUFFICES ASSUME NEW t \in RunnerStates, t = runner[v], t.at \in {"compose", "persist"}, Held(v, t)'
               PROVE  Held(v, t) /\ \A p \in Recipients : delivery'[<<t.run, p>>] = delivery[<<t.run, p>>]
    BY DEF LeavesAlone
  <2>1. t.run \in Runs /\ Held(v, t)
    BY WorkParts DEF Held
  <2>2. t.run # r
    BY <1>4, <2>1 DEF Held, HoldsRun, MyRun
  <2>3. QED BY <2>1, <2>2 DEF HeldDeliveries
<1>5. runner' = [v \in Runners |-> runner'[v]] /\ \A v \in Runners : Fit(v, runner[v])'
  BY <1>3, <1>4, RunnersMove
<1>6. PlanFits'
  BY <1>5 DEF RunInv, PlanFits, HeldDeliveries
<1>7. QED BY <1>3, <1>5, <1>6 DEF RunInv

LEMMA PersistWrites ==
  ASSUME RunInv, NEW w \in Runners, runner[w].at = "persist", MayPersist(w),
         NEW r \in Runs, r = MyRun(w),
         delivery' = WithBodies(r, runner[w].todo, runner[w].basis),
         UNCHANGED <<run, outbox>>
  PROVE  /\ HeldDeliveries(r) /\ RunFits(r)' /\ RunGoesOn(r)
         /\ Of(r)' # {} /\ Pending(r)' \subseteq Bodies(r)'
<1>1. PICK s : s = runner[w]
  OBVIOUS
<1>2. Fit(w, s) /\ s.at = "persist" /\ s \in Works /\ s.run \in Runs
  BY <1>1, WorkParts DEF RunInv, Fit
<1>3. r = s.run
  BY <1>1 DEF MyRun
<1>4. r = MyRun(w) /\ run[r].st # "none" /\ run[r].st # "completed" /\ RunFits(r)
  BY <1>1, <1>2, <1>3 DEF MyRun, Fit, MayPersist, HoldsRun, Waiting, RunInv
<1>5. Bodies(r) = {} /\ s.todo = Pending(r) /\ Of(r) # {}
  BY <1>1, <1>2, <1>3, <1>4 DEF Fit, MayPersist, HoldsRun, Held
<1>6. s.basis \in 0 .. MaxFigures /\ s.basis # 0
  BY <1>2, WorkParts DEF Fit, RunnerStates
<1>7. /\ delivery' = [d \in Runs \X Recipients |-> delivery'[d]]
      /\ \A q \in Runs, p \in Recipients :
            delivery'[<<q, p>>] = IF q = r /\ p \in s.todo
                THEN [delivery[<<q, p>>] EXCEPT !.body = s.basis] ELSE delivery[<<q, p>>]
  BY <1>1, <1>4 DEF WithBodies
<1>8. \A p \in Recipients : DeliveryFits(r, p) /\ delivery[<<r, p>>] \in DeliveryRows
  BY <1>4 DEF RunFits, DeliveryFits
<1>9. \A p \in Recipients :
        /\ p \in s.todo <=> delivery[<<r, p>>].st = "pending"
        /\ delivery[<<r, p>>].body = 0
        /\ delivery[<<r, p>>].st \in {"none", "pending"} /\ outbox[<<r, p>>].st = "none"
  <2> SUFFICES ASSUME NEW p \in Recipients
               PROVE  /\ p \in s.todo <=> delivery[<<r, p>>].st = "pending"
                      /\ delivery[<<r, p>>].body = 0
                      /\ delivery[<<r, p>>].st \in {"none", "pending"} /\ outbox[<<r, p>>].st = "none"
    OBVIOUS
  <2>1. p \in s.todo <=> delivery[<<r, p>>].st = "pending"
    BY <1>5 DEF Pending, Of
  <2>2. delivery[<<r, p>>].body = 0
    <3>1. CASE delivery[<<r, p>>].st = "none"
      BY <1>8, <3>1 DEF DeliveryFits, NoDelivery
    <3>2. CASE delivery[<<r, p>>].st # "none"
      BY <1>5, <3>2 DEF Bodies, Of
    <3>3. QED BY <3>1, <3>2
  <2>3. QED BY <1>8, <2>1, <2>2 DEF DeliveryFits, DeliveryRows
<1>10. \A p \in Recipients :
        /\ delivery'[<<r, p>>] \in DeliveryRows
        /\ delivery'[<<r, p>>].st = delivery[<<r, p>>].st
        /\ delivery'[<<r, p>>].body = IF delivery[<<r, p>>].st = "pending" THEN s.basis ELSE 0
        /\ delivery[<<r, p>>].st = "none" => delivery'[<<r, p>>] = NoDelivery
  <2> SUFFICES ASSUME NEW p \in Recipients
               PROVE  /\ delivery'[<<r, p>>] \in DeliveryRows
                      /\ delivery'[<<r, p>>].st = delivery[<<r, p>>].st
                      /\ delivery'[<<r, p>>].body =
                            IF delivery[<<r, p>>].st = "pending" THEN s.basis ELSE 0
                      /\ delivery[<<r, p>>].st = "none" => delivery'[<<r, p>>] = NoDelivery
    OBVIOUS
  <2>1. PICK old : old = delivery[<<r, p>>]
    OBVIOUS
  <2>2. old \in DeliveryRows /\ old.body = 0 /\ (old.st = "none" => old = NoDelivery)
    BY <1>8, <1>9, <2>1 DEF DeliveryFits
  <2>3. delivery'[<<r, p>>] = IF old.st = "pending" THEN [old EXCEPT !.body = s.basis] ELSE old
    BY <1>7, <1>9, <2>1
  <2>4. QED BY <1>6, <2>1, <2>2, <2>3 DEF DeliveryRows
<1>11. HeldDeliveries(r)
  BY <1>7 DEF HeldDeliveries
<1>12. RunFits(r)'
  <2>1. ASSUME NEW p \in Recipients PROVE DeliveryFits(r, p)'
    BY <1>4, <1>9, <1>10 DEF DeliveryFits
  <2>2. QED BY <1>4, <1>6, <1>10, <2>1 DEF RunFits
<1>13. RunGoesOn(r)
  BY <1>4, <1>9, <1>10 DEF RunGoesOn
<1>14. Of(r)' # {} /\ Pending(r)' \subseteq Bodies(r)'
  BY <1>5, <1>6, <1>10 DEF Of, Pending, Bodies
<1>15. QED BY <1>4, <1>11, <1>12, <1>13, <1>14

LEMMA PersistKeeps ==
  ASSUME RunInv, NEW w \in Runners, Persist(w) \/ PersistFails(w)
  PROVE  RunInv' /\ AllGoOn
<1>1. Inv' /\ MessagesRest /\ UNCHANGED outbox
  BY StillKeeps, FaultyKeeps DEF RunInv, Persist, PersistFails, Faulty, noteVars
<1>2. UNCHANGED <<nextSlot, run, figures, mapping>> /\ runner[w].at = "persist"
  BY DEF Persist, PersistFails
<1>3. PICK s : s = runner[w]
  OBVIOUS
<1>4. Fit(w, s) /\ s.at = "persist" /\ s \in Works /\ s.run \in Runs
  BY <1>2, <1>3, WorkParts DEF RunInv, Fit
<1>5. CASE UNCHANGED delivery /\ Ends(w, "retry")
  BY <1>1, <1>2, <1>5, EndKeeps
<1>6. CASE /\ MayPersist(w) /\ (Goes(w, "relist") \/ Ends(w, "retry"))
           /\ delivery' = WithBodies(MyRun(w), runner[w].todo, runner[w].basis)
  <2> DEFINE r == s.run
  <2>0. r \in Runs /\ r = MyRun(w) /\ run'[r].st # "none"
    BY <1>2, <1>3, <1>4 DEF MyRun, Fit
  <2>1. /\ HeldDeliveries(r) /\ RunFits(r)' /\ RunGoesOn(r)
        /\ Of(r)' # {} /\ Pending(r)' \subseteq Bodies(r)'
    BY <1>1, <1>2, <1>6, <2>0, PersistWrites
  <2>2. PICK t \in {[s EXCEPT !.at = "relist"], [s EXCEPT !.at = "finish", !.verdict = "retry"]} :
            runner' = [runner EXCEPT ![w] = t]
    BY <1>3, <1>6 DEF Goes, Ends
  <2>3. /\ t \in Works /\ t.run = s.run
        /\ t.at = "relist" \/ (t.at = "finish" /\ t.verdict = "retry")
    BY <1>4, <2>2 DEF Works
  <2>6. Fit(w, t)'
    BY <2>0, <2>1, <2>3 DEF Fit, RunnerStates
  <2>7. HoldsRun(w)
    BY <1>6 DEF MayPersist
  <2>8. QED BY <1>1, <1>2, <2>0, <2>1, <2>2, <2>6, <2>7, DeliveriesChange
<1>7. QED BY <1>5, <1>6 DEF Persist, PersistFails

LEMMA RecordWrites ==
  ASSUME RunInv, NEW w \in Runners, runner[w].at \in {"record", "refuse"}, HoldsRun(w),
         NEW r \in Runs, r = MyRun(w), NEW p \in Recipients, p = runner[w].current,
         delivery[<<r, p>>].st = "pending", UNCHANGED <<run, outbox>>,
         NEW verdict \in {"enqueued", "blocked"},
         verdict = "enqueued" => outbox[<<r, p>>].st # "none", delivery[<<r, p>>].body # 0,
         delivery' = [delivery EXCEPT ![<<r, p>>].st = verdict]
  PROVE  HeldDeliveries(r) /\ RunFits(r)' /\ RunGoesOn(r)
<1>1. RunFits(r) /\ run[r].st # "completed" /\ run[r].st # "none"
  BY DEF RunInv, HoldsRun, MyRun, Waiting
<1>2. delivery = [d \in Runs \X Recipients |-> delivery[d]] /\ <<r, p>> \in Runs \X Recipients
  BY DEF RunInv, PlanFits
<1>3. /\ delivery' = [d \in Runs \X Recipients |-> delivery'[d]]
      /\ delivery'[<<r, p>>] = [delivery[<<r, p>>] EXCEPT !.st = verdict]
      /\ \A d \in Runs \X Recipients : d # <<r, p>> => delivery'[d] = delivery[d]
  BY <1>2
<1>4. \A q \in Runs, x \in Recipients : q # r \/ x # p => delivery'[<<q, x>>] = delivery[<<q, x>>]
  BY <1>3
<1>5. /\ delivery'[<<r, p>>] \in DeliveryRows /\ delivery'[<<r, p>>].st = verdict
      /\ delivery'[<<r, p>>].body = delivery[<<r, p>>].body
  <2>1. PICK old : old = delivery[<<r, p>>]
    OBVIOUS
  <2>2. old \in DeliveryRows /\ delivery'[<<r, p>>] = [old EXCEPT !.st = verdict]
    BY <1>1, <1>3, <2>1 DEF RunFits, DeliveryFits
  <2>3. QED BY <2>1, <2>2 DEF DeliveryRows
<1>6. HeldDeliveries(r)
  BY <1>3, <1>4 DEF HeldDeliveries
<1>7. RunFits(r)'
  <2>1. ASSUME NEW x \in Recipients PROVE DeliveryFits(r, x)'
    <3>1. DeliveryFits(r, x)
      BY <1>1 DEF RunFits
    <3>2. CASE x = p
      BY <1>1, <1>5, <3>1, <3>2 DEF DeliveryFits
    <3>3. CASE x # p
      BY <1>4, <3>1, <3>3 DEF DeliveryFits
    <3>4. QED BY <3>2, <3>3
  <2>2. \A x \in Recipients : delivery'[<<r, x>>].body = delivery[<<r, x>>].body
    BY <1>4, <1>5
  <2>3. QED BY <1>1, <2>1, <2>2 DEF RunFits
<1>8. RunGoesOn(r)
  BY <1>1, <1>4, <1>5 DEF RunGoesOn
<1>9. QED BY <1>6, <1>7, <1>8

LEMMA RecordKeeps ==
  ASSUME RunInv, NEW w \in Runners, RecordDelivery(w)
  PROVE  RunInv' /\ AllGoOn
<1>1. /\ Inv' /\ MessagesRest /\ UNCHANGED <<nextSlot, run, figures, mapping, outbox>>
      /\ runner[w].at \in {"record", "refuse"}
  BY StillKeeps DEF RunInv, RecordDelivery, noteVars
<1>2. PICK s : s = runner[w]
  OBVIOUS
<1>3. /\ Fit(w, s) /\ s.at \in {"record", "refuse"} /\ s \in Works /\ s.run \in Runs
      /\ s.todo \subseteq Bodies(s.run) /\ s.current \in s.todo /\ s.current \in Recipients
      /\ Of(s.run) # {} /\ run[s.run].st # "none" /\ s.remain \in BOOLEAN
  BY <1>1, <1>2, WorkParts DEF RunInv, Fit
<1> DEFINE r == s.run
           p == s.current
           applies == HoldsRun(w) /\ run[r].live /\ delivery[<<r, p>>].st = "pending"
<1>4. PICK remain \in BOOLEAN : remain = (s.remain \/ ~applies)
  OBVIOUS
<1> DEFINE t == [s EXCEPT !.at = "enqueue", !.todo = s.todo \ {p}, !.current = Nothing,
                          !.remain = remain]
<1>5. t \in Works /\ t.at = "enqueue" /\ t.run = r /\ t.todo = s.todo \ {p}
  BY <1>3 DEF Works
<1>6. runner' = [runner EXCEPT ![w] = t] /\ r = MyRun(w) /\ r \in Runs
  BY <1>2, <1>3, <1>4 DEF RecordDelivery, MyRun
<1>7. CASE ~applies
  <2>1. UNCHANGED delivery
    BY <1>2, <1>6, <1>7 DEF RecordDelivery
  <2>2. Fit(w, t)
    <3> HIDE DEF t
    <3>1. QED BY <1>3, <1>5 DEF Fit, RunnerStates
  <2> HIDE DEF t
  <2>3. QED BY <1>1, <1>6, <2>1, <2>2, RunnerMoves
<1>8. CASE applies
  <2>1. PICK verdict \in {"enqueued", "blocked"} :
            /\ delivery' = [delivery EXCEPT ![<<r, p>>].st = verdict]
            /\ verdict = "enqueued" => s.at = "record"
    BY <1>2, <1>3, <1>6, <1>8 DEF RecordDelivery
  <2>2. /\ verdict = "enqueued" => outbox[<<r, p>>].st # "none"
        /\ delivery[<<r, p>>].body # 0
    BY <1>3, <2>1 DEF Fit, Bodies
  <2>3. HeldDeliveries(r) /\ RunFits(r)' /\ RunGoesOn(r)
    BY <1>1, <1>2, <1>3, <1>6, <1>8, <2>1, <2>2, RecordWrites
  <2>4. Of(r)' # {} /\ Bodies(r) \subseteq Bodies(r)' /\ run'[r].st # "none"
    BY <1>1, <1>3, <2>3 DEF Of, Bodies, RunGoesOn
  <2>5. Fit(w, t)'
    <3>1. t.todo \subseteq Bodies(r)'
      BY <1>3, <1>5, <2>4
    <3> HIDE DEF t
    <3>2. QED BY <1>5, <2>4, <3>1 DEF Fit, RunnerStates
  <2>6. HoldsRun(w)
    BY <1>8
  <2> HIDE DEF t, r, applies
  <2>7. QED BY <1>1, <1>6, <2>3, <2>5, <2>6, DeliveriesChange
<1>9. QED BY <1>7, <1>8

\* A message for a delivery, which no runner may see and no other message
\* is touched by.
LEMMA EnqueueDeliveryKeeps ==
  ASSUME RunInv, NEW w \in Runners, NEW p \in Recipients, EnqueueDelivery(w, p)
  PROVE  RunInv' /\ AllGoOn
<1>1. /\ UNCHANGED <<history, courier, reached, lapses, postponed, nextSlot, run, delivery,
                     figures, mapping>>
      /\ runner[w].at = "enqueue" /\ p \in runner[w].todo
  BY DEF EnqueueDelivery
<1>2. PICK s : s = runner[w]
  OBVIOUS
<1>3. /\ Fit(w, s) /\ s.at = "enqueue" /\ s \in Works /\ s.run \in Runs
      /\ s.todo \subseteq Bodies(s.run) /\ Of(s.run) # {} /\ run[s.run].st # "none"
  BY <1>1, <1>2, WorkParts DEF RunInv, Fit
<1> DEFINE r == s.run
           key == <<r, p>>
           content == <<delivery[key].body, mapping>>
           t(l) == [s EXCEPT !.at = l, !.current = p]
<1>4. r = MyRun(w) /\ key \in Keys /\ key \in Runs \X Recipients
  BY <1>2, <1>3, PairKeys DEF MyRun
<1>5. ASSUME NEW l \in {"record", "refuse"}
      PROVE  /\ t(l) \in Works /\ t(l).at = l /\ t(l).run = r /\ t(l).todo = s.todo
             /\ t(l).current = p
  BY <1>3 DEF Works
<1>6. CASE /\ runner' = [runner EXCEPT ![w].at = "refuse", ![w].current = p]
           /\ UNCHANGED outbox
  <2>1. UNCHANGED noteVars
    BY <1>1, <1>6 DEF noteVars
  <2>2. Fit(w, t("refuse"))
    BY <1>1, <1>2, <1>3, <1>5 DEF Fit, RunnerStates
  <2>3. runner' = [runner EXCEPT ![w] = t("refuse")]
    BY <1>2, <1>6
  <2>4. Inv' /\ MessagesRest
    BY <2>1, StillKeeps DEF RunInv
  <2> HIDE DEF t
  <2>5. QED BY <1>1, <1>6, <2>2, <2>3, <2>4, RunnerMoves
<1>7. CASE /\ mapping # 0 /\ EnqueueOutcome(key, content) # "conflict"
           /\ outbox' = AfterEnqueue(key, content)
           /\ runner' = [runner EXCEPT ![w].at = "record", ![w].current = p]
  <2>1. runner' = [runner EXCEPT ![w] = t("record")]
    BY <1>2, <1>7
  <2>2. CASE outbox[key].st # "none"
    <3>1. UNCHANGED outbox /\ UNCHANGED noteVars
      BY <1>1, <1>7, <2>2 DEF AfterEnqueue, noteVars
    <3>2. Fit(w, t("record"))
      BY <1>1, <1>2, <1>3, <1>5, <2>2 DEF Fit, RunnerStates
    <3>3. Inv' /\ MessagesRest
      BY <3>1, StillKeeps DEF RunInv
    <3> HIDE DEF t
    <3>4. QED BY <1>1, <2>1, <3>1, <3>2, <3>3, RunnerMoves
  <2>3. CASE outbox[key].st = "none"
    <3>1. delivery[key] \in DeliveryRows /\ delivery[key].body # 0
      BY <1>1, <1>2, <1>3 DEF RunInv, RunFits, DeliveryFits, Bodies
    <3>2. delivery[key].body \in 1 .. MaxFigures /\ mapping \in 1 .. MaxTemplate
      BY <1>7, <3>1, ReportAssumption DEF DeliveryRows, RunInv, PlanFits
    <3>3. content \in Contents
      BY <3>2, ReportAssumption
    <3>4. outbox' = [outbox EXCEPT ![key] = NewMessage(content)]
      BY <1>7, <2>3 DEF AfterEnqueue
    <3>5. EnqueueNotification(key, content)
      BY <1>1, <1>7, <2>3 DEF EnqueueNotification
    <3>6. Inv'
      BY <1>4, <3>3, <3>5, EnqueueKeeps DEF RunInv
    <3>7. NewMessage(content).st = "pending" /\ NewMessage(content).content = content
      BY DEF NewMessage, NoMessage
    <3>8. /\ outbox'[key].st # "none" /\ outbox'[key].content[1] = delivery[key].body
          /\ \A k \in Keys : k # key => outbox'[k] = outbox[k]
      BY <1>4, <3>4, <3>7 DEF RunInv, Inv, NoteTypeOK
    <3>9. \A q \in Runs, x \in Recipients :
            /\ outbox[<<q, x>>].st # "none" => outbox'[<<q, x>>] = outbox[<<q, x>>]
            /\ outbox'[<<q, x>>] = outbox[<<q, x>>] \/ (q = r /\ x = p)
      <4> SUFFICES ASSUME NEW q \in Runs, NEW x \in Recipients
                   PROVE  /\ outbox[<<q, x>>].st # "none" => outbox'[<<q, x>>] = outbox[<<q, x>>]
                          /\ outbox'[<<q, x>>] = outbox[<<q, x>>] \/ (q = r /\ x = p)
        OBVIOUS
      <4>1. <<q, x>> \in Keys
        BY PairKeys
      <4>2. CASE <<q, x>> = key
        BY <2>3, <4>2
      <4>3. CASE <<q, x>> # key
        BY <3>8, <4>1, <4>3
      <4>4. QED BY <4>2, <4>3
    <3>10. AllGoOn
      <4>1. \A q \in Runs, x \in Recipients :
                outbox[<<q, x>>].st # "none" => outbox'[<<q, x>>].st # "none"
        BY <3>9
      <4>2. QED BY <1>1, <4>1 DEF AllGoOn, RunGoesOn
    <3>11. ASSUME NEW q \in Runs PROVE RunFits(q)'
      <4>1. RunFits(q)
        BY DEF RunInv
      <4>2. ASSUME NEW x \in Recipients PROVE DeliveryFits(q, x)'
        <5>1. DeliveryFits(q, x)
          BY <4>1 DEF RunFits
        <5>2. CASE q = r /\ x = p
          BY <1>1, <3>1, <3>8, <5>1, <5>2 DEF DeliveryFits
        <5>3. CASE outbox'[<<q, x>>] = outbox[<<q, x>>]
          BY <1>1, <5>1, <5>3 DEF DeliveryFits
        <5>4. QED BY <3>9, <5>2, <5>3
      <4>3. AllEnqueued(q)' <=> AllEnqueued(q)
        BY <1>1 DEF AllEnqueued, Of
      <4>4. QED BY <1>1, <4>1, <4>2, <4>3 DEF RunFits
    <3>12. Fit(w, t("record"))'
      <4>1. /\ Of(r)' = Of(r) /\ Bodies(r)' = Bodies(r) /\ run'[r] = run[r]
        BY <1>1 DEF Of, Bodies
      <4>2. t("record").at = "record" /\ t("record").run = r /\ t("record").todo = s.todo
            /\ t("record").current = p /\ t("record") \in Works
        BY <1>5
      <4> HIDE DEF t
      <4>3. QED BY <1>1, <1>2, <1>3, <3>8, <4>1, <4>2 DEF Fit, RunnerStates
    <3>13. \A v \in Runners : LeavesAlone(v)
      BY <1>1, RestLeaves
    <3>14. runner' = [v \in Runners |-> runner'[v]] /\ \A v \in Runners : Fit(v, runner[v])'
      <4> HIDE DEF t
      <4>1. QED BY <2>1, <3>10, <3>12, <3>13, RunnersMove
    <3>15. PlanFits'
      BY <1>1, <3>14 DEF RunInv, PlanFits
    <3>16. QED BY <3>6, <3>10, <3>11, <3>14, <3>15 DEF RunInv
  <2>4. QED BY <2>2, <2>3
<1>8. QED BY <1>4, <1>6, <1>7 DEF EnqueueDelivery

\* A new run, none of whose deliveries was there.
LEMMA CreateKeeps ==
  ASSUME RunInv, NEW r \in Runs, NEW recipients \in SUBSET Recipients, Create(r, recipients),
         nextSlot' \in 1 .. MaxSlots + 1,
         \A s \in Slots : s < nextSlot' <=> s < nextSlot \/ s = r
  PROVE  RunInv' /\ AllGoOn
<1>1. Inv' /\ MessagesRest /\ UNCHANGED <<outbox, runner, figures, mapping>>
  BY StillKeeps DEF RunInv, Create, noteVars
<1>2. /\ run = [q \in Runs |-> run[q]] /\ run[r].st = "none" /\ RunFits(r)
      /\ run' = [run EXCEPT ![r] = NewRun]
  BY DEF RunInv, PlanFits, Create
<1>3. NewRun \in RunRows /\ NewRun.st = "pending"
  BY DEF NewRun, NoRun, RunRows
<1>4. /\ run' = [q \in Runs |-> run'[q]] /\ run'[r] = NewRun
      /\ \A q \in Runs : q # r => run'[q] = run[q]
  BY <1>2
<1>5. /\ delivery' = [d \in Runs \X Recipients |-> delivery'[d]]
      /\ \A q \in Runs, p \in Recipients :
            delivery'[<<q, p>>] = IF q = r /\ p \in recipients THEN [st |-> "pending", body |-> 0]
                                  ELSE delivery[<<q, p>>]
  BY DEF Create
<1>6. \A p \in Recipients : delivery[<<r, p>>] = NoDelivery /\ outbox[<<r, p>>].st = "none"
  BY <1>2 DEF RunFits, DeliveryFits, NoDelivery
<1>7. AllGoOn
  <2> SUFFICES ASSUME NEW q \in Runs PROVE RunGoesOn(q)
    BY DEF AllGoOn
  <2>1. CASE q = r
    BY <1>1, <1>2, <1>6, <2>1 DEF RunGoesOn, NoDelivery
  <2>2. CASE q # r
    BY <1>1, <1>4, <1>5, <2>2 DEF RunGoesOn
  <2>3. QED BY <2>1, <2>2
<1>8. ASSUME NEW q \in Runs PROVE RunFits(q)'
  <2>1. RunFits(q)
    BY DEF RunInv
  <2>2. CASE q = r
    <3>1. ASSUME NEW p \in Recipients
          PROVE  /\ delivery'[<<r, p>>] \in DeliveryRows /\ delivery'[<<r, p>>].body = 0
                 /\ delivery'[<<r, p>>].st \in {"none", "pending"}
                 /\ delivery'[<<r, p>>].st = "none" => delivery'[<<r, p>>] = NoDelivery
      BY <1>5, <1>6, ReportAssumption DEF DeliveryRows, NoDelivery
    <3>2. ASSUME NEW p \in Recipients PROVE DeliveryFits(r, p)'
      BY <1>1, <1>3, <1>4, <1>6, <3>1 DEF DeliveryFits
    <3>3. QED BY <1>3, <1>4, <2>2, <3>1, <3>2 DEF RunFits
  <2>3. CASE q # r
    <3>1. \A p \in Recipients : delivery'[<<q, p>>] = delivery[<<q, p>>]
      BY <1>5, <2>3
    <3>2. \A p \in Recipients : DeliveryFits(q, p)'
      BY <1>1, <1>4, <2>1, <2>3, <3>1 DEF RunFits, DeliveryFits
    <3>3. AllEnqueued(q)' <=> AllEnqueued(q)
      BY <3>1 DEF AllEnqueued, Of
    <3>4. QED BY <1>4, <2>1, <2>3, <3>1, <3>2, <3>3 DEF RunFits
  <2>4. QED BY <2>2, <2>3
<1>9. ASSUME NEW v \in Runners PROVE LeavesAlone(v)
  <2> SUFFICES ASSUME NEW t \in RunnerStates, t = runner[v], t.at \in {"compose", "persist"}
               PROVE  /\ Held(v, t)' => Held(v, t)
                      /\ \A p \in Recipients : delivery'[<<t.run, p>>] = delivery[<<t.run, p>>]
    BY DEF LeavesAlone
  <2>1. t.run \in Runs /\ run[t.run].st # "none"
    BY WorkParts DEF RunInv, Fit
  <2>2. t.run # r
    BY <1>2, <2>1
  <2>3. QED BY <1>4, <1>5, <2>1, <2>2 DEF Held
<1>10. \A v \in Runners : Fit(v, runner[v])'
  <2> SUFFICES ASSUME NEW v \in Runners PROVE Fit(v, runner[v])'
    OBVIOUS
  <2>1. Fit(v, runner[v]) /\ runner'[v] = runner[v]
    BY <1>1 DEF RunInv
  <2>2. QED BY <1>7, <1>9, <2>1, OthersStay
<1>11. PlanFits'
  <2>1. \A s \in Slots : s \in Runs
    BY DEF Runs
  <2>2. \A s \in Slots : run'[s].st # "none" <=> s < nextSlot'
    <3> SUFFICES ASSUME NEW s \in Slots PROVE run'[s].st # "none" <=> s < nextSlot'
      OBVIOUS
    <3>1. CASE s = r
      BY <1>3, <1>4, <3>1
    <3>2. CASE s # r
      BY <1>4, <2>1, <3>2 DEF RunInv, PlanFits
    <3>3. QED BY <3>1, <3>2
  <2>3. QED BY <1>1, <1>4, <1>5, <2>2 DEF RunInv, PlanFits
<1>12. QED BY <1>1, <1>7, <1>8, <1>10, <1>11 DEF RunInv

LEMMA PlannerKeeps ==
  ASSUME RunInv, NEW recipients \in SUBSET Recipients,
         MaterializeNextSlot(recipients) \/ \E k \in ManualKeys : CreateManualRun(k, recipients)
  PROVE  RunInv' /\ AllGoOn
<1>1. nextSlot \in 1 .. MaxSlots + 1 /\ MaxSlots \in Nat
  BY ReportAssumption DEF RunInv, PlanFits
<1>2. CASE MaterializeNextSlot(recipients)
  <2>1. /\ nextSlot \in Slots /\ nextSlot \in Runs /\ nextSlot' = nextSlot + 1
        /\ Create(nextSlot, recipients)
    BY <1>2 DEF MaterializeNextSlot, Runs
  <2>2. PICK r : r = nextSlot
    OBVIOUS
  <2>3. nextSlot' \in 1 .. MaxSlots + 1 /\ \A s \in Slots : s < nextSlot' <=> s < nextSlot \/ s = r
    BY <1>1, <2>1, <2>2 DEF Slots
  <2>4. Create(r, recipients) /\ r \in Runs
    BY <2>1, <2>2
  <2>5. QED BY <2>3, <2>4, CreateKeeps
<1>3. CASE \E k \in ManualKeys : CreateManualRun(k, recipients)
  <2>1. PICK k \in ManualKeys : CreateManualRun(k, recipients)
    BY <1>3
  <2>2. k \in Runs /\ k \notin Slots /\ nextSlot' = nextSlot /\ Create(k, recipients)
    BY <2>1, ReportAssumption DEF Runs, CreateManualRun
  <2>3. QED BY <1>1, <2>2, CreateKeeps
<1>4. QED BY <1>2, <1>3

\* Steps of the figures, of the mapping and of the dispatchers.
LEMMA WorldKeeps ==
  ASSUME RunInv, Inv', RestOf(Deliveries), UNCHANGED <<nextSlot, run, delivery, runner>>,
         figures' \in 1 .. MaxFigures, mapping' \in 0 .. MaxTemplate
  PROVE  RunInv' /\ AllGoOn
<1>1. AllGoOn /\ \A r \in Runs : RunFits(r)'
  BY RunsRest
<1>2. \A v \in Runners : Fit(v, runner[v])'
  <2> SUFFICES ASSUME NEW v \in Runners PROVE Fit(v, runner[v])'
    OBVIOUS
  <2>1. Fit(v, runner[v]) /\ runner'[v] = runner[v] /\ LeavesAlone(v)
    BY RestLeaves DEF RunInv
  <2>2. QED BY <1>1, <2>1, OthersStay
<1>3. PlanFits'
  BY DEF RunInv, PlanFits
<1>4. QED BY <1>1, <1>2, <1>3 DEF RunInv

LEMMA WorldMoves ==
  ASSUME RunInv,
         FiguresMove \/ MappingChanges \/ (DispatchNext /\ UNCHANGED reportOnlyVars)
         \/ UNCHANGED reportVars
  PROVE  RunInv' /\ AllGoOn
<1>1. /\ figures \in 1 .. MaxFigures /\ mapping \in 0 .. MaxTemplate
      /\ MaxFigures \in Nat /\ MaxTemplate \in Nat
  BY ReportAssumption DEF RunInv, PlanFits
<1>2. Inv' /\ MessagesRest
  <2>1. UNCHANGED noteVars \/ DispatchNext
    BY DEF FiguresMove, MappingChanges, reportVars
  <2>2. QED BY <2>1, StillKeeps, DispatchKeeps DEF RunInv
<1>3. UNCHANGED <<nextSlot, run, delivery, runner>>
  BY DEF FiguresMove, MappingChanges, reportVars, reportOnlyVars
<1>4. figures' \in 1 .. MaxFigures /\ mapping' \in 0 .. MaxTemplate
  BY <1>1 DEF FiguresMove, MappingChanges, reportVars, reportOnlyVars
<1>5. QED BY <1>2, <1>3, <1>4, WorldKeeps, SendersRest

LEMMA RunInvInit == ReportInit => RunInv
<1> SUFFICES ASSUME ReportInit PROVE RunInv
  OBVIOUS
<1>1. Inv
  BY InvInit DEF ReportInit
<1>2. PICK who \in SUBSET Recipients : \E bodies \in SUBSET who :
        /\ run = [r \in Runs |-> IF r = 1 /\ who # {} THEN NewRun ELSE NoRun]
        /\ delivery = LegacyDeliveries(who, bodies)
        /\ nextSlot = IF who = {} THEN 1 ELSE 2
  BY DEF ReportInit
<1>3. PICK bodies \in SUBSET who :
        /\ run = [r \in Runs |-> IF r = 1 /\ who # {} THEN NewRun ELSE NoRun]
        /\ delivery = LegacyDeliveries(who, bodies)
        /\ nextSlot = IF who = {} THEN 1 ELSE 2
  BY <1>2
<1>4. \A r \in Runs, p \in Recipients :
        delivery[<<r, p>>] = IF r = 1 /\ p \in who
            THEN [st |-> "pending", body |-> IF p \in bodies THEN 1 ELSE 0] ELSE NoDelivery
  BY <1>3 DEF LegacyDeliveries
<1> DEFINE Old(b) == [st |-> "pending", body |-> b]
<1>5. /\ \A b \in {0, 1} : Old(b) \in DeliveryRows /\ Old(b).st = "pending" /\ Old(b).body = b
      /\ NoDelivery \in DeliveryRows /\ NoDelivery.st = "none" /\ NoDelivery.body = 0
  BY ReportAssumption DEF DeliveryRows, NoDelivery
<1>6. \A r \in Runs, p \in Recipients :
        \/ delivery[<<r, p>>] = NoDelivery
        \/ r = 1 /\ p \in who /\ p \in bodies /\ delivery[<<r, p>>] = Old(1)
        \/ r = 1 /\ p \in who /\ p \notin bodies /\ delivery[<<r, p>>] = Old(0)
  BY <1>4
<1> HIDE DEF Old
<1>7. /\ NewRun \in RunRows /\ NewRun.st = "pending"
      /\ NoRun \in RunRows /\ NoRun.st = "none" /\ ~NoRun.live
  BY DEF NewRun, NoRun, RunRows
<1>8. ASSUME NEW r \in Runs PROVE RunFits(r)
  <2>1. run[r] \in RunRows /\ run[r].st # "completed" /\ (run[r].live => run[r].st # "none")
    BY <1>3, <1>7
  <2>2. ASSUME NEW p \in Recipients PROVE DeliveryFits(r, p)
    <3>1. outbox[<<r, p>>].st = "none"
      BY PairKeys DEF ReportInit, NoteInit, NoMessage
    <3>2. run[r].st = "none" => delivery[<<r, p>>] = NoDelivery
      BY <1>3, <1>4, <1>7
    <3>3. delivery[<<r, p>>] \in DeliveryRows /\ delivery[<<r, p>>].st \in {"none", "pending"}
          /\ (delivery[<<r, p>>].st = "none" => delivery[<<r, p>>] = NoDelivery)
      BY <1>5, <1>6
    <3>4. QED BY <3>1, <3>2, <3>3 DEF DeliveryFits
  <2>3. \A p, q \in Recipients :
            delivery[<<r, p>>].body # 0 /\ delivery[<<r, q>>].body # 0 =>
                delivery[<<r, p>>].body = delivery[<<r, q>>].body
    BY <1>5, <1>6
  <2>4. QED BY <2>1, <2>2, <2>3 DEF RunFits
<1>9. PlanFits
  <2>1. \A s \in Slots : s \in Runs /\ s \in Nat /\ s >= 1
    BY DEF Slots, Runs
  <2>2. \A s \in Slots : run[s].st # "none" <=> s < nextSlot
    BY <1>3, <1>7, <2>1
  <2>3. nextSlot \in 1 .. MaxSlots + 1 /\ figures \in 1 .. MaxFigures /\ mapping \in 0 .. MaxTemplate
    BY <1>3, ReportAssumption DEF ReportInit
  <2>4. /\ run = [r \in Runs |-> run[r]] /\ delivery = [d \in Runs \X Recipients |-> delivery[d]]
        /\ runner = [w \in Runners |-> runner[w]]
    BY <1>3 DEF LegacyDeliveries, ReportInit
  <2>5. QED BY <2>2, <2>3, <2>4 DEF PlanFits
<1>10. \A w \in Runners : Fit(w, runner[w])
  BY OffFits DEF ReportInit
<1>11. QED BY <1>1, <1>8, <1>9, <1>10 DEF RunInv

LEMMA RunInvKept == RunInv /\ [ReportNext]_reportVars => RunInv' /\ AllGoOn
<1> SUFFICES ASSUME RunInv, [ReportNext]_reportVars PROVE RunInv' /\ AllGoOn
  OBVIOUS
<1>1. CASE \E R \in SUBSET Recipients :
            MaterializeNextSlot(R) \/ \E k \in ManualKeys : CreateManualRun(k, R)
  BY <1>1, PlannerKeeps
<1>2. CASE \E w \in Runners : RunnerStep(w)
  BY <1>2, ClaimRunKeeps, ReadRunKeeps, ComposeKeeps, PersistKeeps, RelistKeeps,
     EnqueueDeliveryKeeps, RecordKeeps, FinishAggregateKeeps, FinishRunKeeps DEF RunnerStep
<1>3. CASE \E w \in Runners : RunnerFault(w)
  BY <1>3, SimpleFaultKeeps, PersistKeeps, RelistKeeps, EnqueueFailsKeeps, RunnerFailsKeeps
     DEF RunnerFault
<1>4. CASE RunTimePasses
  BY <1>4, RunTimeKeeps DEF RunTimePasses
<1>5. CASE FiguresMove \/ MappingChanges \/ (DispatchNext /\ UNCHANGED reportOnlyVars)
           \/ UNCHANGED reportVars
  BY <1>5, WorldMoves
<1>6. QED BY <1>1, <1>2, <1>3, <1>4, <1>5 DEF ReportNext, RunsNext

LEMMA RunInvAlways == ReportSafe => []RunInv
  BY RunInvInit, RunInvKept, PTL DEF ReportSafe

LEMMA RunInvIsSound == RunInv => RunsAreSound
<1> SUFFICES ASSUME RunInv PROVE RunsAreSound
  OBVIOUS
<1>1. \A r \in Runs : RunFits(r) /\ \A p \in Recipients : DeliveryFits(r, p)
  BY DEF RunInv, RunFits
<1>2. ReportTypeOK
  <2>1. run \in [Runs -> RunRows]
    BY <1>1 DEF RunInv, PlanFits, RunFits
  <2>2. \A d \in Runs \X Recipients :
          delivery[d] \in DeliveryRows
          /\ (delivery[d].st \in {"enqueued", "blocked"} => delivery[d].body # 0)
    <3> SUFFICES ASSUME NEW r \in Runs, NEW p \in Recipients
                 PROVE  delivery[<<r, p>>] \in DeliveryRows
                        /\ (delivery[<<r, p>>].st \in {"enqueued", "blocked"} =>
                              delivery[<<r, p>>].body # 0)
      OBVIOUS
    <3>1. QED BY <1>1 DEF DeliveryFits
  <2>3. delivery \in [Runs \X Recipients -> DeliveryRows]
    BY <2>2 DEF RunInv, PlanFits
  <2>4. runner \in [Runners -> RunnerStates]
    BY DEF RunInv, PlanFits, Fit
  <2>5. QED BY <2>1, <2>2, <2>3, <2>4 DEF ReportTypeOK, RunInv, PlanFits
<1>3. OneBasis
  BY <1>1 DEF OneBasis, RunFits, DeliveryFits
<1>4. CompletedMeansQueued
  BY <1>1 DEF CompletedMeansQueued, RunFits, DeliveryFits, AllEnqueued
<1>5. QED BY <1>2, <1>3, <1>4 DEF RunsAreSound

\* For any runners, recipients, slots and faults, with any dispatchers at
\* work: the recipients of a run see the figures of one moment, the messages
\* say what the snapshots do, and a completed run has handed over one for each
\* of its deliveries.
THEOREM RunsSound == ReportSafe => []RunsAreSound
<1>1. QED BY RunInvIsSound, RunInvAlways, PTL

\* The planner and the runners keep the outbox's promises to all its senders.
THEOREM ReportMessagesSound == ReportSafe => []MessagesAreSound
<1>1. RunInv => MessagesAreSound
  BY InvIsSound DEF RunInv
<1>2. QED BY <1>1, RunInvAlways, PTL

\* The outcome of a run, and of a delivery, and a snapshot are final: no runner
\* that lost its lease changes them.
THEOREM VerdictsStay == ReportSafe => ReportVerdictsStay
<1> DEFINE Stay ==
        \A r \in Runs :
            /\ run[r].st \in {"completed", "blocked"} => run'[r].st = run[r].st
            /\ \A p \in Recipients :
                /\ delivery[<<r, p>>].st \in {"enqueued", "blocked"} =>
                    delivery'[<<r, p>>].st = delivery[<<r, p>>].st
                /\ delivery[<<r, p>>].body # 0 =>
                    delivery'[<<r, p>>].body = delivery[<<r, p>>].body
<1>1. RunInv /\ [ReportNext]_reportVars => [Stay]_reportVars
  BY RunInvKept DEF AllGoOn, RunGoesOn
<1>2. QED BY <1>1, RunInvAlways, PTL DEF ReportSafe, ReportVerdictsStay
-----------------------------------------------------------------------------
(* Incidents, alerts and recoveries over the outbox.                       *)

IncidentRows ==
    [st : {"none", "open", "acknowledged", "resolved"}, rule : Rules \cup {"none"},
     subject : Devices \cup CommandIds \cup {Nothing},
     code : {"none", "noActive", "reconnect", "operator"}]

SubjectFits(rule, s) ==
    (rule = "offline" => s \in Devices) /\ (rule = "failed" => s \in CommandIds)

IncidentFits(i) ==
    /\ incident[i].st = "none" => incident[i] = NoIncident
    /\ incident[i].st # "none" =>
        incident[i].rule \in Rules /\ SubjectFits(incident[i].rule, incident[i].subject)
    /\ incident[i].st = "resolved" <=> incident[i].code # "none"

\* What the unique indexes keep apart.
SameGround(i, j) ==
    /\ incident[i].rule = incident[j].rule /\ incident[i].subject = incident[j].subject
    /\ incident[i].rule = "failed" \/ (incident[i].st \in Active /\ incident[j].st \in Active)

\* Rows are taken in their order, and those taken are well formed and apart.
IncidentsFit ==
    /\ incident \in [IncidentIds -> IncidentRows]
    /\ \E n \in 0 .. MaxIncidents : \A i \in IncidentIds : incident[i].st # "none" <=> i <= n
    /\ \A i \in IncidentIds : IncidentFits(i)
    /\ \A i, j \in IncidentIds : SameGround(i, j) => i = j

AlertRows == [st : {"none", "pending", "sent", "blocked"}, born : Nat]
ActionRows == [st : {"none", "pending", "completed", "blocked"}, attempts : Nat, due : BOOLEAN]

AlertTrue(a) ==
    /\ alert[a].st # "none" => incident[a[1]].st # "none"
    /\ a[2] = "resolved" /\ alert[a].st # "none" => incident[a[1]].st = "resolved"
    /\ alert[a].st = "sent" => outbox[a].st # "none"
    /\ outbox[a].st # "none" => alert[a].st # "none"

AlertsFit == alert \in [Alerts -> AlertRows] /\ \A a \in Alerts : AlertTrue(a)

\* Only a device that was offline is healed.
RecoveriesFit ==
    /\ recovery \in [IncidentIds -> ActionRows]
    /\ \A i \in IncidentIds : recovery[i].st # "none" => incident[i].rule = "offline"

\* What the state x of an engine stands for: nothing that another engine
\* undoes.
EngineFits(x) ==
    /\ x \in EngineStates
    /\ x.at = "open" => SubjectFits(x.rule, x.subject)
    /\ x.at = "resolve" => incident[x.row].rule = "offline"
    /\ x.at \in {"enqueue", "record"} => alert[x.alert].st # "none"
    /\ x.at = "record" /\ x.verdict = "sent" => outbox[x.alert].st # "none"
    /\ x.at \in {"act", "settle"} => recovery[x.row].st # "none"

EnginesFit ==
    /\ engine = [e \in Instances |-> engine[e]]
    /\ \A e \in Instances : EngineFits(engine[e])

CommandRows == [st : {"none", "active", "completed", "failed"}, device : Devices \cup {Nothing}]

SurroundingsFit ==
    /\ presence \in [Devices -> {"fresh", "quiet", "offline"}]
    /\ lifecycle \in [Devices -> {"active", "revoked"}]
    /\ command \in [CommandIds -> CommandRows]
    /\ \A c \in CommandIds : command[c].st # "none" <=> command[c].device \in Devices
    /\ alertMapping \in 0 .. MaxAlertMapping /\ silences \in 0 .. MaxSilences

OpsInv ==
    /\ Inv /\ IncidentsFit /\ AlertsFit /\ RecoveriesFit /\ EnginesFit /\ SurroundingsFit

\* What a step may do to an incident and its recovery.
IncidentGoesOn(i) ==
    /\ incident[i].st # "none" =>
        /\ incident'[i].st # "none"
        /\ incident'[i].rule = incident[i].rule /\ incident'[i].subject = incident[i].subject
    /\ incident[i].st = "resolved" => incident'[i] = incident[i]
    /\ recovery[i].st # "none" => recovery'[i].st # "none"
    /\ recovery[i].st \in {"completed", "blocked"} => recovery'[i].st = recovery[i].st
    /\ recovery[i].st = "none" /\ recovery'[i].st # "none" =>
        /\ incident'[i].code = "reconnect"
        /\ lifecycle[incident[i].subject] = "active"
    /\ incident[i].code = "none" /\ incident'[i].code = "reconnect" =>
        lifecycle[incident[i].subject] = "active"

AlertGoesOn(a) ==
    /\ alert[a].st # "none" => alert'[a].st # "none"
    /\ alert[a].st \in {"sent", "blocked"} => alert'[a] = alert[a]
    /\ outbox[a].st # "none" => outbox'[a].st # "none"

CommandsGoOn ==
    \A c \in CommandIds : command[c].st \in {"completed", "failed"} => command'[c] = command[c]

OpsGoOn ==
    /\ \A i \in IncidentIds : IncidentGoesOn(i)
    /\ \A a \in Alerts : AlertGoesOn(a)
    /\ CommandsGoOn

LEMMA EngineParts ==
  ASSUME NEW x \in EngineStates
  PROVE  /\ x.at \in {"scan", "alerts", "recovery", "open", "resolve", "enqueue", "record",
                      "act", "settle"}
         /\ x.at = "open" => x.rule \in Rules /\ x.subject \in Devices \cup CommandIds
         /\ x.at = "resolve" =>
            x.row \in IncidentIds /\ x.code \in {"noActive", "reconnect"} /\ x.heal \in BOOLEAN
         /\ x.at \in {"enqueue", "record"} => x.alert \in Alerts
         /\ x.at = "record" => x.verdict \in {"sent", "blocked"}
         /\ x.at \in {"act", "settle"} => x.row \in IncidentIds /\ x.attempts \in Nat
         /\ x.at = "settle" => x.verdict \in {"completed", "failed"}
BY DEF EngineStates

LEMMA AlertParts ==
  ASSUME NEW a \in Alerts
  PROVE  /\ a \in Keys /\ a[1] \in IncidentIds /\ a[2] \in Events /\ a[3] \in Addressees
         /\ a = <<a[1], a[2], a[3]>>
BY OperationsAssumption DEF Alerts

LEMMA EngineFitStays ==
  ASSUME NEW x, IncidentsFit, EngineFits(x), OpsGoOn
  PROVE  EngineFits(x)'
<1>1. /\ x.at = "resolve" => x.row \in IncidentIds
      /\ x.at \in {"enqueue", "record"} => x.alert \in Alerts
      /\ x.at \in {"act", "settle"} => x.row \in IncidentIds
  BY EngineParts DEF EngineFits
<1>2. x.at = "resolve" => incident'[x.row].rule = "offline"
  <2>1. ASSUME NEW i \in IncidentIds, incident[i].rule = "offline"
        PROVE  incident'[i].rule = "offline"
    <3>1. incident[i].st # "none"
      BY <2>1 DEF IncidentsFit, IncidentFits, NoIncident
    <3>2. QED BY <2>1, <3>1 DEF OpsGoOn, IncidentGoesOn
  <2>2. QED BY <1>1, <2>1 DEF EngineFits
<1>3. x.at \in {"enqueue", "record"} => alert'[x.alert].st # "none"
  BY <1>1 DEF EngineFits, OpsGoOn, AlertGoesOn
<1>4. x.at = "record" /\ x.verdict = "sent" => outbox'[x.alert].st # "none"
  BY <1>1 DEF EngineFits, OpsGoOn, AlertGoesOn
<1>5. x.at \in {"act", "settle"} => recovery'[x.row].st # "none"
  BY <1>1 DEF EngineFits, OpsGoOn, IncidentGoesOn
<1>6. QED BY <1>2, <1>3, <1>4, <1>5 DEF EngineFits

LEMMA EnginesStay ==
  ASSUME OpsInv, OpsGoOn, UNCHANGED engine
  PROVE  EnginesFit'
<1>1. IncidentsFit /\ EnginesFit
  BY DEF OpsInv
<1>2. ASSUME NEW e \in Instances PROVE EngineFits(engine[e])'
  <2>1. PICK x : x = engine[e]
    OBVIOUS
  <2>2. EngineFits(x)
    BY <1>1, <2>1 DEF EnginesFit
  <2>3. EngineFits(x)'
    BY <1>1, <2>2, EngineFitStays
  <2>4. engine'[e] = x
    BY <2>1
  <2>5. QED BY <2>3, <2>4 DEF EngineFits
<1>3. QED BY <1>1, <1>2 DEF EnginesFit

\* What an engine knows stays, so only the one that acts is looked at.
LEMMA OneEngineMoves ==
  ASSUME OpsInv, OpsGoOn, NEW e \in Instances, NEW x, EngineFits(x)', EngineGoes(e, x)
  PROVE  EnginesFit'
<1>1. IncidentsFit /\ EnginesFit /\ engine' = [engine EXCEPT ![e] = x]
  BY DEF OpsInv, EngineGoes
<1>2. ASSUME NEW v \in Instances PROVE EngineFits(engine[v])'
  <2>1. CASE v = e
    <3>1. engine'[v] = x
      BY <1>1, <2>1 DEF EnginesFit
    <3>2. QED BY <3>1 DEF EngineFits
  <2>2. CASE v # e
    <3>1. PICK y : y = engine[v]
      OBVIOUS
    <3>2. EngineFits(y)
      BY <1>1, <3>1 DEF EnginesFit
    <3>3. EngineFits(y)'
      BY <1>1, <3>2, EngineFitStays
    <3>4. engine'[v] = y
      BY <1>1, <2>2, <3>1 DEF EnginesFit
    <3>5. QED BY <3>3, <3>4 DEF EngineFits
  <2>3. QED BY <2>1, <2>2
<1>3. engine' = [v \in Instances |-> engine'[v]]
  BY <1>1 DEF EnginesFit
<1>4. QED BY <1>2, <1>3 DEF EnginesFit

LEMMA IncidentsSame ==
  ASSUME IncidentsFit, UNCHANGED incident
  PROVE  IncidentsFit'
BY DEF IncidentsFit, IncidentFits, SameGround

LEMMA AlertsSame ==
  ASSUME AlertsFit, UNCHANGED alert, OpsGoOn, RestOf(Alerts),
         \A i \in IncidentIds : incident[i].st = "resolved" => incident'[i].st = "resolved"
  PROVE  AlertsFit'
<1>1. ASSUME NEW a \in Alerts PROVE AlertTrue(a)'
  <2>1. AlertTrue(a) /\ a \in Keys /\ a[1] \in IncidentIds
    BY AlertParts DEF AlertsFit
  <2>2. outbox'[a].st = "none" <=> outbox[a].st = "none"
    BY DEF RestOf
  <2>3. incident[a[1]].st # "none" => incident'[a[1]].st # "none"
    BY <2>1 DEF OpsGoOn, IncidentGoesOn
  <2>4. incident[a[1]].st = "resolved" => incident'[a[1]].st = "resolved"
    BY <2>1
  <2>5. QED BY <2>1, <2>2, <2>3, <2>4 DEF AlertTrue
<1>2. QED BY <1>1 DEF AlertsFit

LEMMA RecoveriesSame ==
  ASSUME IncidentsFit, RecoveriesFit, UNCHANGED recovery, OpsGoOn
  PROVE  RecoveriesFit'
<1>1. ASSUME NEW i \in IncidentIds, recovery[i].st # "none"
      PROVE  incident'[i].rule = "offline"
  <2>1. incident[i].rule = "offline"
    BY <1>1 DEF RecoveriesFit
  <2>2. incident[i].st # "none"
    BY <2>1 DEF IncidentsFit, IncidentFits, NoIncident
  <2>3. QED BY <2>1, <2>2 DEF OpsGoOn, IncidentGoesOn
<1>2. QED BY <1>1 DEF RecoveriesFit

LEMMA RowsSameGoOn ==
  ASSUME UNCHANGED <<incident, alert, recovery>>, RestOf(Alerts), CommandsGoOn
  PROVE  OpsGoOn
<1>1. ASSUME NEW i \in IncidentIds PROVE IncidentGoesOn(i)
  BY DEF IncidentGoesOn
<1>2. ASSUME NEW a \in Alerts PROVE AlertGoesOn(a)
  <2>1. outbox[a].st # "none" => outbox'[a].st # "none"
    BY DEF RestOf
  <2>2. QED BY <2>1 DEF AlertGoesOn
<1>3. QED BY <1>1, <1>2 DEF OpsGoOn

\* A step that leaves all rows alone.
LEMMA SurroundingsMove ==
  ASSUME OpsInv, Inv', RestOf(Alerts), CommandsGoOn, SurroundingsFit',
         UNCHANGED <<incident, alert, recovery, engine>>
  PROVE  OpsInv' /\ OpsGoOn
<1>1. OpsGoOn
  BY RowsSameGoOn
<1>2. QED
  BY <1>1, EnginesStay, IncidentsSame, AlertsSame, RecoveriesSame DEF OpsInv

\* A step of one engine that leaves all rows alone.
LEMMA EngineMoves ==
  ASSUME OpsInv, Inv', MessagesRest, CommandsGoOn, SurroundingsFit',
         UNCHANGED <<incident, alert, recovery>>,
         NEW e \in Instances, NEW x, EngineFits(x), EngineGoes(e, x)
  PROVE  OpsInv' /\ OpsGoOn
<1>1. OpsGoOn
  BY RowsSameGoOn, SendersRest
<1>2. EngineFits(x)'
  BY <1>1, EngineFitStays DEF OpsInv
<1>3. QED
  BY <1>1, <1>2, OneEngineMoves, IncidentsSame, AlertsSame, RecoveriesSame, SendersRest DEF OpsInv

LEMMA CommandsSame ==
  ASSUME UNCHANGED command
  PROVE  CommandsGoOn
BY DEF CommandsGoOn

LEMMA SurroundingsSame ==
  ASSUME SurroundingsFit, UNCHANGED <<presence, lifecycle, command, alertMapping, silences>>
  PROVE  SurroundingsFit'
BY DEF SurroundingsFit

\* The same, of an engine that touches nothing else.
LEMMA EngineOnlyMoves ==
  ASSUME OpsInv, NEW e \in Instances, NEW x, EngineFits(x), EngineGoes(e, x),
         UNCHANGED <<noteVars, presence, lifecycle, command, incident, alert, recovery,
                     alertMapping, silences>>
  PROVE  OpsInv' /\ OpsGoOn
<1>1. Inv' /\ MessagesRest
  BY StillKeeps DEF OpsInv
<1>2. QED BY <1>1, EngineMoves, CommandsSame, SurroundingsSame DEF OpsInv

LEMMA OffersFit ==
  ASSUME OpsInv, NEW e \in Instances
  PROVE  /\ ScanFinds(e) => OpsInv' /\ OpsGoOn
         /\ ScanEnds(e) => OpsInv' /\ OpsGoOn
         /\ ClaimDelivery(e) => OpsInv' /\ OpsGoOn
         /\ ClaimRecovery(e) => OpsInv' /\ OpsGoOn
<1>1. ASSUME NEW at \in {"scan", "alerts", "recovery"} PROVE EngineFits([at |-> at])
  BY DEF EngineFits, EngineStates
<1>2. ASSUME ScanFinds(e) PROVE OpsInv' /\ OpsGoOn
  <2>1. PICK cand \in ({"offline"} \X ScanOfflineDevices) \cup ({"failed"} \X ScanFailedCommands) :
            EngineGoes(e, [at |-> "open", rule |-> cand[1], subject |-> cand[2]])
    BY <1>2 DEF ScanFinds
  <2>2. /\ cand[1] \in Rules /\ cand[2] \in Devices \cup CommandIds
        /\ SubjectFits(cand[1], cand[2])
    BY DEF ScanOfflineDevices, ScanFailedCommands, Rules, SubjectFits
  <2>3. PICK x : x = [at |-> "open", rule |-> cand[1], subject |-> cand[2]]
    OBVIOUS
  <2>4. x \in EngineStates /\ x.at = "open" /\ x.rule = cand[1] /\ x.subject = cand[2]
    BY <2>2, <2>3 DEF EngineStates
  <2>5. EngineFits(x)
    BY <2>2, <2>4 DEF EngineFits
  <2>6. QED BY <1>2, <2>1, <2>3, <2>5, EngineOnlyMoves DEF ScanFinds
<1>3. ASSUME ScanEnds(e) PROVE OpsInv' /\ OpsGoOn
  BY <1>1, <1>3, EngineOnlyMoves DEF ScanEnds
<1>4. ASSUME ClaimDelivery(e) PROVE OpsInv' /\ OpsGoOn
  <2>1. CASE \E a \in Oldest : EngineGoes(e, [at |-> "enqueue", alert |-> a])
    <3>1. PICK a \in Oldest : EngineGoes(e, [at |-> "enqueue", alert |-> a])
      BY <2>1
    <3>2. PICK x : x = [at |-> "enqueue", alert |-> a]
      OBVIOUS
    <3>3. a \in Alerts /\ alert[a].st # "none"
      BY DEF Oldest, Pendings
    <3>4. x \in EngineStates /\ x.at = "enqueue" /\ x.alert = a
      BY <3>2, <3>3 DEF EngineStates
    <3>5. EngineFits(x)
      BY <3>3, <3>4 DEF EngineFits
    <3>6. QED BY <1>4, <3>1, <3>2, <3>5, EngineOnlyMoves DEF ClaimDelivery
  <2>2. CASE EngineGoes(e, [at |-> "recovery"])
    BY <1>1, <1>4, <2>2, EngineOnlyMoves DEF ClaimDelivery
  <2>3. QED BY <1>4, <2>1, <2>2 DEF ClaimDelivery
<1>5. ASSUME ClaimRecovery(e) PROVE OpsInv' /\ OpsGoOn
  <2>1. CASE \E i \in Due : EngineGoes(e, [at |-> "act", row |-> i,
                                           attempts |-> recovery[i].attempts])
    <3>1. PICK i \in Due : EngineGoes(e, [at |-> "act", row |-> i,
                                          attempts |-> recovery[i].attempts])
      BY <2>1
    <3>2. PICK x : x = [at |-> "act", row |-> i, attempts |-> recovery[i].attempts]
      OBVIOUS
    <3>3. i \in IncidentIds /\ recovery[i].st # "none" /\ recovery[i].attempts \in Nat
      BY DEF Due, OpsInv, RecoveriesFit, ActionRows
    <3>4. x \in EngineStates /\ x.at = "act" /\ x.row = i
      BY <3>2, <3>3 DEF EngineStates
    <3>5. EngineFits(x)
      BY <3>3, <3>4 DEF EngineFits
    <3>6. QED BY <1>5, <3>1, <3>2, <3>5, EngineOnlyMoves DEF ClaimRecovery
  <2>2. CASE EngineGoes(e, [at |-> "scan"])
    BY <1>1, <1>5, <2>2, EngineOnlyMoves DEF ClaimRecovery
  <2>3. QED BY <1>5, <2>1, <2>2 DEF ClaimRecovery
<1>6. QED BY <1>2, <1>3, <1>4, <1>5

LEMMA CheckFits ==
  ASSUME OpsInv, NEW e \in Instances, NEW i \in IncidentIds, CheckOffline(e, i)
  PROVE  OpsInv' /\ OpsGoOn
<1>1. PICK code \in {"noActive", "reconnect"}, heal \in BOOLEAN : Resolving(e, i, code, heal)
  BY OperationsAssumption DEF CheckOffline
<1>2. PICK x : x = [at |-> "resolve", row |-> i, code |-> code, heal |-> heal]
  OBVIOUS
<1>3. x \in EngineStates /\ x.at = "resolve" /\ x.row = i
  BY <1>2 DEF EngineStates
<1>4. incident[i].rule = "offline"
  BY DEF CheckOffline
<1>5. EngineFits(x)
  BY <1>3, <1>4 DEF EngineFits
<1>6. QED BY <1>1, <1>2, <1>5, EngineOnlyMoves DEF CheckOffline, Resolving

LEMMA EngineLapses ==
  ASSUME OpsInv, NEW e \in Instances, NEW x, EngineFits(x), EngineGoes(e, x),
         lapses < MaxLapses, lapses' = lapses + 1,
         UNCHANGED <<outbox, history, courier, reached, postponed, presence, lifecycle,
                     command, incident, alert, recovery, alertMapping, silences>>
  PROVE  OpsInv' /\ OpsGoOn
<1>1. Inv' /\ MessagesRest
  BY LapseKeeps, SameRest DEF OpsInv
<1>2. QED BY <1>1, EngineMoves, CommandsSame, SurroundingsSame DEF OpsInv

\* What an engine does with its recovery, once it has a verdict.
LEMMA SettlingFits ==
  ASSUME OpsInv, NEW e \in Instances, engine[e].at = "act",
         NEW verdict \in {"completed", "failed"}
  PROVE  /\ engine[e].row \in IncidentIds /\ recovery[engine[e].row].st # "none"
         /\ EngineFits([at |-> "settle", row |-> engine[e].row, attempts |-> engine[e].attempts,
                        verdict |-> verdict])
<1>1. EngineFits(engine[e])
  BY DEF OpsInv, EnginesFit
<1>2. /\ engine[e].row \in IncidentIds /\ recovery[engine[e].row].st # "none"
      /\ engine[e].attempts \in Nat
  BY <1>1, EngineParts DEF EngineFits
<1>3. PICK x : x = [at |-> "settle", row |-> engine[e].row, attempts |-> engine[e].attempts,
                    verdict |-> verdict]
  OBVIOUS
<1>4. x \in EngineStates /\ x.at = "settle" /\ x.row = engine[e].row
  BY <1>2, <1>3 DEF EngineStates
<1>5. QED BY <1>2, <1>3, <1>4 DEF EngineFits

LEMMA EngineErrsFits ==
  ASSUME OpsInv, NEW e \in Instances, EngineErrs(e)
  PROVE  OpsInv' /\ OpsGoOn
<1>1. ASSUME NEW at \in {"scan", "alerts", "recovery"}, EngineFails(e, at)
      PROVE  OpsInv' /\ OpsGoOn
  <2>1. EngineFits([at |-> at])
    BY DEF EngineFits, EngineStates
  <2>2. QED BY <1>1, <2>1, EngineLapses DEF EngineFails
<1>2. ASSUME RequestFails(e) PROVE OpsInv' /\ OpsGoOn
  <2>1. PICK x : x = [at |-> "settle", row |-> engine[e].row, attempts |-> engine[e].attempts,
                      verdict |-> "failed"]
    OBVIOUS
  <2>2. EngineFits(x)
    BY <1>2, <2>1, SettlingFits DEF RequestFails
  <2>3. QED BY <1>2, <2>1, <2>2, EngineLapses DEF RequestFails, Settles
<1>3. QED BY <1>1, <1>2 DEF EngineErrs

LEMMA CommandAfterFits ==
  ASSUME OpsInv, NEW c \in CommandIds, NEW v \in Devices, command[c].st = "none",
         command' = CommandAfter(c, v), UNCHANGED <<presence, lifecycle, alertMapping, silences>>
  PROVE  SurroundingsFit' /\ CommandsGoOn
<1>1. command \in [CommandIds -> CommandRows] /\ SurroundingsFit
  BY DEF OpsInv, SurroundingsFit
<1>2. PICK row : row = [st |-> "active", device |-> v]
  OBVIOUS
<1>3. row \in CommandRows /\ row.st = "active" /\ row.device = v
  BY <1>2 DEF CommandRows
<1>4. command' = [command EXCEPT ![c] = row]
  BY <1>2 DEF CommandAfter
<1>5. command' \in [CommandIds -> CommandRows]
  BY <1>1, <1>3, <1>4
<1>6. \A d \in CommandIds : command'[d].st # "none" <=> command'[d].device \in Devices
  BY <1>1, <1>3, <1>4 DEF SurroundingsFit
<1>7. CommandsGoOn
  BY <1>1, <1>4 DEF CommandsGoOn
<1>8. QED BY <1>1, <1>5, <1>6, <1>7 DEF SurroundingsFit

LEMMA RequestFits ==
  ASSUME OpsInv, NEW e \in Instances, RequestSync(e)
  PROVE  OpsInv' /\ OpsGoOn
<1> DEFINE i == engine[e].row
           v == incident[i].subject
<1>1. engine[e].at = "act"
  BY DEF RequestSync
<1>2. i \in IncidentIds /\ recovery[i].st # "none"
  BY <1>1, SettlingFits
<1>3. v \in Devices /\ i \in CommandIds
  <2>1. incident[i].rule = "offline"
    BY <1>2 DEF OpsInv, RecoveriesFit
  <2>2. incident[i].st # "none"
    BY <1>2, <2>1 DEF OpsInv, IncidentsFit, IncidentFits, NoIncident
  <2>3. QED BY <1>2, <2>1, <2>2 DEF OpsInv, IncidentsFit, IncidentFits, SubjectFits, CommandIds
<1>4. PICK verdict \in {"completed", "failed"} : Settles(e, verdict)
  BY DEF RequestSync
<1>5. PICK x : x = [at |-> "settle", row |-> engine[e].row, attempts |-> engine[e].attempts,
                    verdict |-> verdict]
  OBVIOUS
<1>6. EngineFits(x) /\ EngineGoes(e, x)
  BY <1>1, <1>4, <1>5, SettlingFits DEF Settles
<1>7. Inv' /\ MessagesRest
  BY StillKeeps DEF OpsInv, RequestSync
<1>8. SurroundingsFit' /\ CommandsGoOn
  <2>1. CASE UNCHANGED command
    BY <2>1, CommandsSame, SurroundingsSame DEF OpsInv, RequestSync
  <2>2. CASE ~AskedBefore(i) /\ command' = CommandAfter(i, v)
    <3>1. command[i].st = "none"
      BY <2>2 DEF AskedBefore
    <3>2. UNCHANGED <<presence, lifecycle, alertMapping, silences>>
      BY DEF RequestSync
    <3>3. QED BY <1>3, <2>2, <3>1, <3>2, CommandAfterFits
  <2>3. QED BY <2>1, <2>2 DEF RequestSync
<1>9. QED BY <1>6, <1>7, <1>8, EngineMoves DEF RequestSync

LEMMA WorldFits ==
  ASSUME OpsInv, World \/ AlertMappingChanges \/ (DispatchNext /\ UNCHANGED opsOnlyVars)
  PROVE  OpsInv' /\ OpsGoOn
<1>1. SurroundingsFit /\ command \in [CommandIds -> CommandRows]
  BY DEF OpsInv, SurroundingsFit
<1>2. UNCHANGED <<incident, alert, recovery, engine>>
  BY DEF World, DeviceContacts, DeviceSilent, RevokeDevice, OperatorSyncs, CommandEnds,
         AlertMappingChanges, opsOnlyVars
<1>3. Inv' /\ MessagesRest
  <2>1. CASE DispatchNext
    BY <2>1, DispatchKeeps DEF OpsInv
  <2>2. CASE World \/ AlertMappingChanges
    <3>1. UNCHANGED noteVars
      BY <2>2 DEF World, DeviceContacts, DeviceSilent, RevokeDevice, OperatorSyncs, CommandEnds,
                  AlertMappingChanges
    <3>2. QED BY <3>1, StillKeeps DEF OpsInv
  <2>3. QED BY <2>1, <2>2
<1>4. SurroundingsFit' /\ CommandsGoOn
  <2>1. CASE \E v \in Devices : DeviceContacts(v) \/ DeviceSilent(v) \/ RevokeDevice(v)
    <3>1. UNCHANGED <<command, alertMapping>>
      BY <2>1 DEF DeviceContacts, DeviceSilent, RevokeDevice
    <3>2. presence' \in [Devices -> {"fresh", "quiet", "offline"}]
      BY <1>1, <2>1 DEF DeviceContacts, DeviceSilent, RevokeDevice, SurroundingsFit
    <3>3. lifecycle' \in [Devices -> {"active", "revoked"}]
      BY <1>1, <2>1 DEF DeviceContacts, DeviceSilent, RevokeDevice, SurroundingsFit
    <3>4. silences' \in 0 .. MaxSilences
      BY <1>1, <2>1, OperationsAssumption
      DEF DeviceContacts, DeviceSilent, RevokeDevice, SurroundingsFit
    <3>5. QED BY <1>1, <3>1, <3>2, <3>3, <3>4, CommandsSame DEF SurroundingsFit
  <2>2. CASE \E v \in Devices : OperatorSyncs(v)
    <3>1. 0 \in CommandIds
      BY DEF CommandIds
    <3>2. QED BY <2>2, <3>1, CommandAfterFits DEF OperatorSyncs
  <2>3. CASE \E c \in CommandIds, to \in {"completed", "failed"} : CommandEnds(c, to)
    <3>1. PICK c \in CommandIds, to \in {"completed", "failed"} : CommandEnds(c, to)
      BY <2>3
    <3>2. PICK row : row = [command[c] EXCEPT !.st = to]
      OBVIOUS
    <3>3. /\ command[c] \in CommandRows /\ command[c].st = "active"
          /\ command' = [command EXCEPT ![c] = row]
      BY <1>1, <3>1, <3>2 DEF CommandEnds
    <3>4. row \in CommandRows /\ row.st = to /\ row.device = command[c].device
      BY <3>2, <3>3 DEF CommandRows
    <3>5. command' \in [CommandIds -> CommandRows]
      BY <1>1, <3>3, <3>4
    <3>6. \A d \in CommandIds : command'[d].st # "none" <=> command'[d].device \in Devices
      BY <1>1, <3>3, <3>4 DEF SurroundingsFit
    <3>7. CommandsGoOn
      BY <1>1, <3>3 DEF CommandsGoOn
    <3>8. QED BY <1>1, <3>1, <3>5, <3>6, <3>7 DEF SurroundingsFit, CommandEnds
  <2>4. CASE AlertMappingChanges
    <3>1. alertMapping' \in 0 .. MaxAlertMapping
      BY <1>1, <2>4, OperationsAssumption DEF AlertMappingChanges, SurroundingsFit
    <3>2. QED BY <1>1, <2>4, <3>1, CommandsSame DEF AlertMappingChanges, SurroundingsFit
  <2>5. CASE UNCHANGED opsOnlyVars
    BY <1>1, <2>5, CommandsSame, SurroundingsSame DEF opsOnlyVars
  <2>6. QED BY <2>1, <2>2, <2>3, <2>4, <2>5 DEF World
<1>5. QED BY <1>2, <1>3, <1>4, SurroundingsMove, SendersRest

LEMMA FreeRowIsNext ==
  ASSUME IncidentsFit, HasFreeRow
  PROVE  /\ FreeRow \in IncidentIds /\ incident[FreeRow].st = "none"
         /\ \A i \in IncidentIds : incident[i].st # "none" <=> i < FreeRow
<1>1. PICK n \in 0 .. MaxIncidents : \A i \in IncidentIds : incident[i].st # "none" <=> i <= n
  BY DEF IncidentsFit
<1>2. PICK f \in IncidentIds : incident[f].st = "none"
  BY DEF HasFreeRow
<1>3. f > n /\ n + 1 \in IncidentIds /\ MaxIncidents \in Nat
  BY <1>1, <1>2, OperationsAssumption DEF IncidentIds
<1>4. incident[n + 1].st = "none" /\ \A j \in IncidentIds : j < n + 1 => incident[j].st # "none"
  BY <1>1, <1>3 DEF IncidentIds
<1>5. FreeRow \in IncidentIds /\ incident[FreeRow].st = "none"
      /\ \A j \in IncidentIds : j < FreeRow => incident[j].st # "none"
  BY <1>3, <1>4 DEF FreeRow
<1>6. PICK m \in IncidentIds : m = FreeRow
  BY <1>5
<1>7. m = n + 1
  BY <1>1, <1>3, <1>4, <1>5, <1>6 DEF IncidentIds
<1>8. QED BY <1>1, <1>3, <1>5, <1>6, <1>7 DEF IncidentIds

LEMMA NextBornIsNat ==
  ASSUME AlertsFit
  PROVE  NextBorn \in Nat
<1> DEFINE S == (IncidentIds \X Events) \X Addressees
           f == [x \in S |-> alert[<<x[1][1], x[1][2], x[2]>>].born]
           T == {alert[a].born : a \in Alerts}
<1>1. IsFiniteSet(IncidentIds)
  BY FS_Interval, OperationsAssumption DEF IncidentIds
<1>2. IsFiniteSet(Events)
  <2>1. IsFiniteSet({"opened"})
    BY FS_Singleton
  <2>2. Events = {"opened"} \cup {"resolved"}
    BY DEF Events
  <2>3. QED BY <2>1, <2>2, FS_AddElement
<1>3. IsFiniteSet(S)
  <2>1. IsFiniteSet(IncidentIds \X Events)
    BY <1>1, <1>2, FS_Product
  <2>2. QED BY <2>1, OperationsAssumption, FS_Product
<1>4. f \in Surjection(S, T)
  <2>1. ASSUME NEW x \in S PROVE f[x] \in T
    BY DEF Alerts
  <2>2. ASSUME NEW t \in T PROVE \E x \in S : f[x] = t
    <3>1. PICK a \in Alerts : t = alert[a].born
      OBVIOUS
    <3>2. <<a[1], a[2]>> \in IncidentIds \X Events /\ a[3] \in Addressees
          /\ a = <<a[1], a[2], a[3]>>
      BY AlertParts
    <3>3. PICK x \in S : x = <<<<a[1], a[2]>>, a[3]>>
      BY <3>2
    <3>4. f[x] = alert[<<a[1], a[2], a[3]>>].born
      BY <3>3
    <3>5. QED BY <3>1, <3>2, <3>4
  <2>3. f \in [S -> T]
    BY <2>1
  <2>4. QED BY <2>2, <2>3 DEF Surjection
<1>5. IsFiniteSet(T)
  BY <1>3, <1>4, FS_Surjection
<1>6. IsFiniteSet(T \ {0})
  BY <1>5, FS_RemoveElement
<1>7. Cardinality(T \ {0}) \in Nat
  BY <1>6, FS_CardinalityType
<1>8. QED BY <1>7 DEF NextBorn

LEMMA WithAlertsFits ==
  ASSUME OpsInv, NEW i \in IncidentIds, NEW event \in Events, NEW to,
         alert' = WithAlerts(i, event, to), outbox' = outbox,
         \A j \in IncidentIds : IncidentGoesOn(j),
         incident'[i].st # "none", event = "resolved" => incident'[i].st = "resolved"
  PROVE  AlertsFit' /\ \A a \in Alerts : AlertGoesOn(a)
<1>1. AlertsFit /\ alert \in [Alerts -> AlertRows]
  BY DEF OpsInv, AlertsFit
<1>2. PICK row : row = [st |-> "pending", born |-> NextBorn]
  OBVIOUS
<1>3. row \in AlertRows /\ row.st = "pending"
  BY <1>1, <1>2, NextBornIsNat DEF AlertRows
<1>4. alert' = [a \in Alerts |->
                   IF a[1] = i /\ a[2] = event /\ a[3] \in to /\ alert[a].st = "none"
                   THEN row ELSE alert[a]]
  BY <1>2 DEF WithAlerts
<1>5. ASSUME NEW a \in Alerts PROVE AlertTrue(a)' /\ AlertGoesOn(a) /\ alert'[a] \in AlertRows
  <2>1. AlertTrue(a) /\ alert[a] \in AlertRows /\ a[1] \in IncidentIds
    BY <1>1, AlertParts DEF AlertsFit
  <2>2. CASE alert'[a] = alert[a]
    BY <2>1, <2>2 DEF AlertTrue, AlertGoesOn, IncidentGoesOn
  <2>3. CASE alert'[a] # alert[a]
    <3>1. a[1] = i /\ a[2] = event /\ alert[a].st = "none" /\ alert'[a] = row
      BY <1>4, <2>3
    <3>2. QED BY <1>3, <2>1, <3>1 DEF AlertTrue, AlertGoesOn
  <2>4. QED BY <2>2, <2>3
<1>6. alert' \in [Alerts -> AlertRows]
  BY <1>4, <1>5
<1>7. QED BY <1>5, <1>6 DEF AlertsFit

\* One row changes: what the others need of it.
LEMMA IncidentChanges ==
  ASSUME IncidentsFit, NEW i \in IncidentIds, NEW row \in IncidentRows,
         incident' = [incident EXCEPT ![i] = row],
         incident[i].st # "none", row.st # "none",
         row.rule = incident[i].rule, row.subject = incident[i].subject,
         row.st = "resolved" <=> row.code # "none",
         row.st \in Active => incident[i].st \in Active
  PROVE  IncidentsFit'
<1>1. incident \in [IncidentIds -> IncidentRows]
  BY DEF IncidentsFit
<1>2. incident' \in [IncidentIds -> IncidentRows] /\ incident'[i] = row
      /\ \A j \in IncidentIds : j # i => incident'[j] = incident[j]
  BY <1>1
<1>3. \E n \in 0 .. MaxIncidents : \A j \in IncidentIds : incident'[j].st # "none" <=> j <= n
  <2>1. \A j \in IncidentIds : incident'[j].st # "none" <=> incident[j].st # "none"
    BY <1>2
  <2>2. QED BY <2>1 DEF IncidentsFit
<1>4. ASSUME NEW j \in IncidentIds PROVE IncidentFits(j)'
  BY <1>2 DEF IncidentsFit, IncidentFits
<1>5. ASSUME NEW j \in IncidentIds, NEW k \in IncidentIds, SameGround(j, k)' PROVE j = k
  <2>1. SameGround(j, k)
    BY <1>2, <1>5 DEF SameGround
  <2>2. QED BY <2>1 DEF IncidentsFit
<1>6. QED BY <1>2, <1>3, <1>4, <1>5 DEF IncidentsFit

\* An incident is resolved: its ground stays, the new code is written.
LEMMA ResolvedFits ==
  ASSUME OpsInv, NEW i \in IncidentIds, incident[i].st \in Active,
         NEW code \in {"noActive", "reconnect", "operator"}, incident' = Resolved(i, code)
  PROVE  /\ IncidentsFit'
         /\ incident'[i].st = "resolved" /\ incident'[i].code = code
         /\ incident'[i].rule = incident[i].rule /\ incident'[i].subject = incident[i].subject
         /\ \A j \in IncidentIds : j # i => incident'[j] = incident[j]
<1>1. IncidentsFit /\ incident \in [IncidentIds -> IncidentRows]
  BY DEF OpsInv, IncidentsFit
<1>2. PICK row : row = [incident[i] EXCEPT !.st = "resolved", !.code = code]
  OBVIOUS
<1>3. incident[i] \in IncidentRows /\ incident[i].st # "none"
  BY <1>1 DEF Active
<1>4. /\ row \in IncidentRows /\ row.st = "resolved" /\ row.code = code
      /\ row.rule = incident[i].rule /\ row.subject = incident[i].subject
  BY <1>2, <1>3 DEF IncidentRows
<1>5. incident' = [incident EXCEPT ![i] = row]
  BY <1>1, <1>2 DEF Resolved
<1>6. IncidentsFit'
  BY <1>1, <1>3, <1>4, <1>5, IncidentChanges DEF Active
<1>7. QED BY <1>1, <1>4, <1>5, <1>6

\* The row an engine resolves is that of a device.
LEMMA ResolverFits ==
  ASSUME OpsInv, NEW e \in Instances, engine[e].at = "resolve"
  PROVE  /\ engine[e].row \in IncidentIds /\ incident[engine[e].row].rule = "offline"
         /\ engine[e].code \in {"noActive", "reconnect"}
         /\ incident[engine[e].row].subject \in Devices
<1>1. EngineFits(engine[e])
  BY DEF OpsInv, EnginesFit
<1>2. /\ engine[e].row \in IncidentIds /\ incident[engine[e].row].rule = "offline"
      /\ engine[e].code \in {"noActive", "reconnect"}
  BY <1>1, EngineParts DEF EngineFits
<1>3. incident[engine[e].row].st # "none"
  BY <1>2 DEF OpsInv, IncidentsFit, IncidentFits, NoIncident
<1>4. QED BY <1>2, <1>3 DEF OpsInv, IncidentsFit, IncidentFits, SubjectFits

LEMMA ScanFits ==
  ASSUME NEW e, EngineGoes(e, [at |-> "scan"])
  PROVE  EngineGoes(e, [at |-> "scan"]) /\ EngineFits([at |-> "scan"])'
BY DEF EngineFits, EngineStates

\* What is left of a step that changes rows.
LEMMA RowsMove ==
  ASSUME OpsInv, Inv', OpsGoOn, IncidentsFit', AlertsFit', RecoveriesFit', EnginesFit',
         UNCHANGED <<presence, lifecycle, command, alertMapping, silences>>
  PROVE  OpsInv' /\ OpsGoOn
BY SurroundingsSame DEF OpsInv

LEMMA ResolveFits ==
  ASSUME OpsInv, NEW e \in Instances, NEW to, ResolveIncident(e, to)
  PROVE  OpsInv' /\ OpsGoOn
<1>1. engine[e].at = "resolve" /\ EngineGoes(e, [at |-> "scan"])
      /\ UNCHANGED <<noteVars, presence, lifecycle, command, alertMapping, silences>>
  BY DEF ResolveIncident
<1>2. PICK i \in IncidentIds : i = engine[e].row
  BY <1>1, ResolverFits
<1>3. PICK code : code = IF StillActive(i) THEN engine[e].code ELSE "noActive"
  OBVIOUS
<1>4. /\ incident[i].rule = "offline" /\ code \in {"noActive", "reconnect", "operator"}
      /\ code = "reconnect" => lifecycle[incident[i].subject] = "active"
      /\ code # "noActive" => code = "reconnect"
  BY <1>1, <1>2, <1>3, ResolverFits DEF StillActive
<1>5. Inv' /\ MessagesRest /\ CommandsGoOn
  BY <1>1, StillKeeps, CommandsSame DEF OpsInv
<1>6. CASE incident[i].st \notin Active
  <2>1. UNCHANGED <<incident, alert, recovery>>
    BY <1>2, <1>6 DEF ResolveIncident
  <2>2. EngineFits([at |-> "scan"])
    BY DEF EngineFits, EngineStates
  <2>3. SurroundingsFit'
    BY <1>1, SurroundingsSame DEF OpsInv
  <2>4. QED BY <1>1, <1>5, <2>1, <2>2, <2>3, EngineMoves
<1>7. CASE incident[i].st \in Active
  <2>1. /\ incident' = Resolved(i, code) /\ alert' = WithAlerts(i, "resolved", to)
        /\ recovery' = IF engine[e].heal /\ code # "noActive" /\ recovery[i].st = "none"
                       THEN [recovery EXCEPT ![i] = [st |-> "pending", attempts |-> 0,
                                                     due |-> TRUE]]
                       ELSE recovery
    BY <1>2, <1>3, <1>7 DEF ResolveIncident
  <2>2. /\ IncidentsFit'
        /\ incident'[i].st = "resolved" /\ incident'[i].code = code
        /\ incident'[i].rule = incident[i].rule /\ incident'[i].subject = incident[i].subject
        /\ \A j \in IncidentIds : j # i => incident'[j] = incident[j]
    BY <1>4, <1>7, <2>1, ResolvedFits
  <2>3. PICK act : act = [st |-> "pending", attempts |-> 0, due |-> TRUE]
    OBVIOUS
  <2>4. act \in ActionRows /\ act.st = "pending"
    BY <2>3 DEF ActionRows
  <2>5. /\ \A j \in IncidentIds : j # i => recovery'[j] = recovery[j]
        /\ recovery'[i] = recovery[i]
           \/ (recovery'[i] = act /\ recovery[i].st = "none" /\ code = "reconnect")
        /\ recovery' \in [IncidentIds -> ActionRows]
    BY <1>4, <2>1, <2>3, <2>4 DEF OpsInv, RecoveriesFit
  <2>6. ASSUME NEW j \in IncidentIds PROVE IncidentGoesOn(j)
    <3>1. CASE j # i
      BY <2>2, <2>5, <3>1 DEF IncidentGoesOn
    <3>2. CASE j = i
      BY <1>4, <1>7, <2>2, <2>4, <2>5, <3>2 DEF IncidentGoesOn, Active
    <3>3. QED BY <3>1, <3>2
  <2>7. "resolved" \in Events /\ outbox' = outbox
    BY <1>1 DEF Events, noteVars
  <2>8. AlertsFit' /\ \A a \in Alerts : AlertGoesOn(a)
    BY <2>1, <2>2, <2>6, <2>7, WithAlertsFits
  <2>9. RecoveriesFit'
    BY <1>4, <2>2, <2>5 DEF OpsInv, RecoveriesFit
  <2>10. OpsGoOn
    BY <1>5, <2>6, <2>8 DEF OpsGoOn
  <2>11. EnginesFit'
    BY <1>1, <2>10, ScanFits, OneEngineMoves
  <2>12. QED BY <1>1, <1>5, <2>2, <2>8, <2>9, <2>10, <2>11, RowsMove
<1>8. QED BY <1>6, <1>7

LEMMA OperateFits ==
  ASSUME OpsInv, NEW i \in IncidentIds, NEW to, AcknowledgeIncident(i) \/ ResolveOperator(i, to)
  PROVE  OpsInv' /\ OpsGoOn
<1>1. UNCHANGED <<noteVars, presence, lifecycle, command, recovery, engine, alertMapping,
                  silences>>
  BY DEF AcknowledgeIncident, ResolveOperator
<1>2. Inv' /\ MessagesRest /\ CommandsGoOn
  BY <1>1, StillKeeps, CommandsSame DEF OpsInv
<1>3. CASE AcknowledgeIncident(i)
  <2>1. IncidentsFit /\ incident \in [IncidentIds -> IncidentRows]
        /\ incident[i].st = "open" /\ alert' = alert
        /\ incident' = [incident EXCEPT ![i].st = "acknowledged"]
    BY <1>3 DEF OpsInv, IncidentsFit, AcknowledgeIncident
  <2>2. PICK row : row = [incident[i] EXCEPT !.st = "acknowledged"]
    OBVIOUS
  <2>3. /\ row \in IncidentRows /\ row.st = "acknowledged" /\ row.code = incident[i].code
        /\ row.rule = incident[i].rule /\ row.subject = incident[i].subject
    BY <2>1, <2>2 DEF IncidentRows
  <2>4. incident' = [incident EXCEPT ![i] = row]
    BY <2>1, <2>2
  <2>5. row.st = "resolved" <=> row.code # "none"
    BY <2>1, <2>3 DEF IncidentsFit, IncidentFits
  <2>6. IncidentsFit'
    BY <2>1, <2>3, <2>4, <2>5, IncidentChanges DEF Active
  <2>7. /\ incident'[i] = row
        /\ \A j \in IncidentIds : j # i => incident'[j] = incident[j]
    BY <2>1, <2>4
  <2>8. ASSUME NEW j \in IncidentIds PROVE IncidentGoesOn(j)
    BY <1>1, <2>1, <2>3, <2>7 DEF IncidentGoesOn
  <2>9. ASSUME NEW a \in Alerts PROVE AlertGoesOn(a)
    BY <1>1, <2>1 DEF AlertGoesOn, noteVars
  <2>10. OpsGoOn
    BY <1>2, <2>8, <2>9 DEF OpsGoOn
  <2>11. \A j \in IncidentIds : incident[j].st = "resolved" => incident'[j].st = "resolved"
    BY <2>8 DEF IncidentGoesOn
  <2>12. AlertsFit' /\ RecoveriesFit' /\ EnginesFit'
    BY <1>1, <1>2, <2>1, <2>10, <2>11, AlertsSame, RecoveriesSame, EnginesStay, SendersRest
       DEF OpsInv
  <2>13. QED BY <1>1, <1>2, <2>6, <2>10, <2>12, RowsMove
<1>4. CASE ResolveOperator(i, to)
  <2>1. /\ incident[i].st \in Active /\ incident' = Resolved(i, "operator")
        /\ alert' = WithAlerts(i, "resolved", to)
    BY <1>4 DEF ResolveOperator
  <2>2. /\ IncidentsFit'
        /\ incident'[i].st = "resolved" /\ incident'[i].code = "operator"
        /\ incident'[i].rule = incident[i].rule /\ incident'[i].subject = incident[i].subject
        /\ \A j \in IncidentIds : j # i => incident'[j] = incident[j]
    BY <2>1, ResolvedFits
  <2>3. ASSUME NEW j \in IncidentIds PROVE IncidentGoesOn(j)
    <3>1. CASE j # i
      BY <1>1, <2>2, <3>1 DEF IncidentGoesOn
    <3>2. CASE j = i
      BY <1>1, <2>1, <2>2, <3>2 DEF IncidentGoesOn, Active
    <3>3. QED BY <3>1, <3>2
  <2>4. "resolved" \in Events /\ outbox' = outbox
    BY <1>1 DEF Events, noteVars
  <2>5. AlertsFit' /\ \A a \in Alerts : AlertGoesOn(a)
    BY <2>1, <2>2, <2>3, <2>4, WithAlertsFits
  <2>6. OpsGoOn
    BY <1>2, <2>3, <2>5 DEF OpsGoOn
  <2>7. RecoveriesFit' /\ EnginesFit'
    BY <1>1, <2>6, RecoveriesSame, EnginesStay DEF OpsInv
  <2>8. QED BY <1>1, <1>2, <2>2, <2>5, <2>6, <2>7, RowsMove
<1>5. QED BY <1>3, <1>4

LEMMA OpenFits ==
  ASSUME OpsInv, NEW e \in Instances, NEW to, OpenIncident(e, to)
  PROVE  OpsInv' /\ OpsGoOn
<1>1. engine[e].at = "open" /\ EngineGoes(e, [at |-> "scan"])
      /\ UNCHANGED <<noteVars, presence, lifecycle, command, recovery, alertMapping, silences>>
  BY DEF OpenIncident
<1>2. PICK rule \in Rules, s \in Devices \cup CommandIds :
          rule = engine[e].rule /\ s = engine[e].subject /\ SubjectFits(rule, s)
  <2>1. EngineFits(engine[e])
    BY DEF OpsInv, EnginesFit
  <2>2. QED BY <1>1, <2>1, EngineParts DEF EngineFits
<1>3. Inv' /\ MessagesRest /\ CommandsGoOn
  BY <1>1, StillKeeps, CommandsSame DEF OpsInv
<1>4. CASE Taken(rule, s) \/ ~HasFreeRow
  <2>1. UNCHANGED <<incident, alert, recovery>>
    BY <1>1, <1>2, <1>4 DEF OpenIncident
  <2>2. EngineFits([at |-> "scan"])
    BY DEF EngineFits, EngineStates
  <2>3. SurroundingsFit'
    BY <1>1, SurroundingsSame DEF OpsInv
  <2>4. QED BY <1>1, <1>3, <2>1, <2>2, <2>3, EngineMoves
<1>5. CASE ~Taken(rule, s) /\ HasFreeRow
  <2>1. IncidentsFit /\ incident \in [IncidentIds -> IncidentRows]
    BY DEF OpsInv, IncidentsFit
  <2>2. PICK f \in IncidentIds : f = FreeRow
    BY <1>5, <2>1, FreeRowIsNext
  <2>3. incident[f].st = "none" /\ \A i \in IncidentIds : incident[i].st # "none" <=> i < f
    BY <1>5, <2>1, <2>2, FreeRowIsNext
  <2>4. PICK row : row = [st |-> "open", rule |-> rule, subject |-> s, code |-> "none"]
    OBVIOUS
  <2>5. row \in IncidentRows /\ row.st = "open" /\ row.rule = rule /\ row.subject = s
        /\ row.code = "none"
    BY <2>4 DEF IncidentRows
  <2>6. incident' = [incident EXCEPT ![f] = row] /\ alert' = WithAlerts(f, "opened", to)
    BY <1>2, <1>5, <2>2, <2>4 DEF OpenIncident
  <2>7. /\ incident' \in [IncidentIds -> IncidentRows] /\ incident'[f] = row
        /\ \A j \in IncidentIds : j # f => incident'[j] = incident[j]
    BY <2>1, <2>5, <2>6
  <2>8. \E n \in 0 .. MaxIncidents : \A i \in IncidentIds : incident'[i].st # "none" <=> i <= n
    <3>1. \A i \in IncidentIds : incident'[i].st # "none" <=> i <= f
      BY <2>3, <2>5, <2>7, OperationsAssumption DEF IncidentIds
    <3>2. f \in 0 .. MaxIncidents
      BY OperationsAssumption DEF IncidentIds
    <3>3. QED BY <3>1, <3>2
  <2>9. ASSUME NEW i \in IncidentIds PROVE IncidentFits(i)'
    BY <1>2, <2>1, <2>5, <2>7 DEF IncidentsFit, IncidentFits
  <2>10. ASSUME NEW j \in IncidentIds, j # f, row.rule = incident[j].rule,
                row.subject = incident[j].subject,
                row.rule = "failed" \/ incident[j].st \in Active
         PROVE  FALSE
    <3>1. CASE rule = "failed"
      BY <1>5, <2>5, <2>10, <3>1 DEF Taken, Rows
    <3>2. CASE rule # "failed"
      BY <1>5, <2>5, <2>10, <3>2 DEF Taken, ActiveRows, Rows
    <3>3. QED BY <3>1, <3>2
  <2>11. ASSUME NEW i \in IncidentIds, NEW j \in IncidentIds, SameGround(i, j)' PROVE i = j
    <3>1. CASE i # f /\ j # f
      <4>1. SameGround(i, j)
        BY <2>7, <2>11, <3>1 DEF SameGround
      <4>2. QED BY <2>1, <4>1 DEF IncidentsFit
    <3>2. CASE i = f /\ j # f
      BY <2>7, <2>10, <2>11, <3>2 DEF SameGround
    <3>3. CASE i # f /\ j = f
      BY <2>7, <2>10, <2>11, <3>3 DEF SameGround
    <3>4. QED BY <3>1, <3>2, <3>3
  <2>12. IncidentsFit'
    BY <2>7, <2>8, <2>9, <2>11 DEF IncidentsFit
  <2>13. ASSUME NEW i \in IncidentIds PROVE IncidentGoesOn(i)
    BY <1>1, <2>3, <2>5, <2>7 DEF IncidentGoesOn
  <2>14. "opened" \in Events /\ "opened" # "resolved" /\ outbox' = outbox
         /\ incident'[f].st # "none"
    BY <1>1, <2>5, <2>7 DEF Events, noteVars
  <2>15. AlertsFit' /\ \A a \in Alerts : AlertGoesOn(a)
    BY <2>6, <2>13, <2>14, WithAlertsFits
  <2>16. OpsGoOn
    BY <1>3, <2>13, <2>15 DEF OpsGoOn
  <2>17. EnginesFit'
    BY <1>1, <2>16, ScanFits, OneEngineMoves
  <2>18. RecoveriesFit'
    BY <1>1, <2>16, RecoveriesSame DEF OpsInv
  <2>19. QED BY <1>1, <1>3, <2>12, <2>15, <2>16, <2>17, <2>18, RowsMove
<1>6. QED BY <1>4, <1>5

\* The alert an engine works on.
LEMMA AlertWorkFits ==
  ASSUME OpsInv, NEW e \in Instances, engine[e].at \in {"enqueue", "record"}
  PROVE  /\ engine[e].alert \in Alerts /\ alert[engine[e].alert].st # "none"
         /\ engine[e].at = "record" =>
            /\ engine[e].verdict \in {"sent", "blocked"}
            /\ engine[e].verdict = "sent" => outbox[engine[e].alert].st # "none"
<1>1. EngineFits(engine[e])
  BY DEF OpsInv, EnginesFit
<1>2. QED BY <1>1, EngineParts DEF EngineFits

LEMMA EnqueueAlertFits ==
  ASSUME OpsInv, NEW e \in Instances, EnqueueAlert(e)
  PROVE  OpsInv' /\ OpsGoOn
<1>1. /\ engine[e].at = "enqueue"
      /\ UNCHANGED <<history, courier, reached, lapses, postponed, presence, lifecycle,
                     command, incident, alert, recovery, alertMapping, silences>>
  BY DEF EnqueueAlert
<1>2. PICK a \in Alerts : a = engine[e].alert /\ alert[a].st # "none"
  BY <1>1, AlertWorkFits
<1>3. a \in Keys
  BY AlertParts
<1>4. PICK content : content = <<0, alertMapping>>
  OBVIOUS
<1>5. PICK verdict : verdict = AlertVerdict(a, content)
  OBVIOUS
<1>6. /\ outbox' = IF verdict = "sent" /\ alertMapping # 0 THEN AfterEnqueue(a, content)
                   ELSE outbox
      /\ EngineGoes(e, IF verdict = "pending" THEN [at |-> "recovery"]
                       ELSE [at |-> "record", alert |-> a, verdict |-> verdict])
  BY <1>2, <1>4, <1>5 DEF EnqueueAlert
<1>7. verdict \in {"sent", "blocked", "pending"} /\ (verdict = "sent" => alertMapping # 0)
  BY <1>5 DEF AlertVerdict
<1>8. ASSUME outbox' = outbox PROVE Inv'
  BY <1>1, <1>8, StillKeeps DEF OpsInv, noteVars
<1>9. outbox' = outbox \/ (verdict = "sent" /\ EnqueueNotification(a, content))
  BY <1>1, <1>6 DEF AfterEnqueue, EnqueueNotification
<1>10. Inv'
  <2>1. CASE verdict = "sent" /\ EnqueueNotification(a, content)
    <3>1. alertMapping \in 1 .. MaxAlertMapping
      BY <1>7, <2>1, OperationsAssumption DEF OpsInv, SurroundingsFit
    <3>2. content \in Contents
      BY <1>4, <3>1, OperationsAssumption
    <3>3. QED BY <1>3, <2>1, <3>2, EnqueueKeeps DEF OpsInv
  <2>2. QED BY <1>8, <1>9, <2>1
<1>11. /\ \A k \in Keys : k # a => outbox'[k] = outbox[k]
       /\ outbox[a].st # "none" => outbox'[a].st # "none"
       /\ verdict = "sent" => outbox'[a].st # "none"
  <2>1. outbox = [k \in Keys |-> outbox[k]]
    BY RowParts DEF OpsInv, Inv, NoteTypeOK
  <2>2. PICK m : m = NewMessage(content)
    OBVIOUS
  <2>3. m.st = "pending"
    BY <2>2 DEF NewMessage, NoMessage
  <2>4. AfterEnqueue(a, content) =
            IF outbox[a].st = "none" THEN [outbox EXCEPT ![a] = m] ELSE outbox
    BY <2>2 DEF AfterEnqueue
  <2>5. QED BY <1>3, <1>6, <1>7, <2>1, <2>3, <2>4
<1>12. OpsGoOn
  <2>1. ASSUME NEW i \in IncidentIds PROVE IncidentGoesOn(i)
    BY <1>1 DEF IncidentGoesOn
  <2>2. ASSUME NEW b \in Alerts PROVE AlertGoesOn(b)
    BY <1>1, <1>11, AlertParts DEF AlertGoesOn
  <2>3. QED BY <1>1, <2>1, <2>2, CommandsSame DEF OpsGoOn
<1>13. AlertsFit'
  <2>1. ASSUME NEW b \in Alerts PROVE AlertTrue(b)'
    <3>1. AlertTrue(b) /\ b \in Keys
      BY AlertParts DEF OpsInv, AlertsFit
    <3>2. QED BY <1>1, <1>2, <1>11, <3>1 DEF AlertTrue
  <2>2. QED BY <1>1, <2>1 DEF OpsInv, AlertsFit
<1>14. EnginesFit'
  <2>1. CASE verdict = "pending"
    <3>1. EngineFits([at |-> "recovery"])'
      BY DEF EngineFits, EngineStates
    <3>2. QED BY <1>6, <1>12, <2>1, <3>1, OneEngineMoves
  <2>2. CASE verdict # "pending"
    <3>1. PICK x : x = [at |-> "record", alert |-> a, verdict |-> verdict]
      OBVIOUS
    <3>2. x \in EngineStates /\ x.at = "record" /\ x.alert = a /\ x.verdict = verdict
      BY <1>7, <2>2, <3>1 DEF EngineStates
    <3>3. EngineFits(x)'
      BY <1>1, <1>2, <1>11, <3>2 DEF EngineFits
    <3>4. QED BY <1>6, <1>12, <2>2, <3>1, <3>3, OneEngineMoves
  <2>3. QED BY <2>1, <2>2
<1>15. IncidentsFit' /\ RecoveriesFit'
  BY <1>1, <1>12, IncidentsSame, RecoveriesSame DEF OpsInv
<1>16. QED BY <1>1, <1>10, <1>12, <1>13, <1>14, <1>15, RowsMove

LEMMA RecordAlertFits ==
  ASSUME OpsInv, NEW e \in Instances, RecordAlert(e)
  PROVE  OpsInv' /\ OpsGoOn
<1>1. /\ engine[e].at = "record"
      /\ UNCHANGED <<noteVars, presence, lifecycle, command, incident, recovery, alertMapping,
                     silences>>
  BY DEF RecordAlert
<1>2. PICK a \in Alerts, verdict \in {"sent", "blocked"} :
          a = engine[e].alert /\ verdict = engine[e].verdict
          /\ (verdict = "sent" => outbox[a].st # "none")
  BY <1>1, AlertWorkFits
<1>3. Inv' /\ MessagesRest /\ CommandsGoOn
  BY <1>1, StillKeeps, CommandsSame DEF OpsInv
<1>4. ASSUME NEW at \in {"scan", "alerts", "recovery"} PROVE EngineFits([at |-> at])
                                                           /\ EngineFits([at |-> at])'
  BY DEF EngineFits, EngineStates
<1>5. CASE alert[a].st # "pending"
  <2>1. alert' = alert /\ EngineGoes(e, [at |-> "recovery"])
    BY <1>2, <1>5 DEF RecordAlert
  <2>2. SurroundingsFit'
    BY <1>1, SurroundingsSame DEF OpsInv
  <2>3. QED BY <1>1, <1>3, <1>4, <2>1, <2>2, EngineMoves
<1>6. CASE alert[a].st = "pending"
  <2>1. /\ alert' = [alert EXCEPT ![a].st = verdict] /\ EngineGoes(e, [at |-> "alerts"])
        /\ AlertsFit /\ alert \in [Alerts -> AlertRows]
    BY <1>2, <1>6 DEF RecordAlert, OpsInv, AlertsFit
  <2>2. PICK row : row = [alert[a] EXCEPT !.st = verdict]
    OBVIOUS
  <2>3. row \in AlertRows /\ row.st = verdict
    BY <2>1, <2>2 DEF AlertRows
  <2>4. /\ alert' \in [Alerts -> AlertRows] /\ alert'[a] = row
        /\ \A b \in Alerts : b # a => alert'[b] = alert[b]
    BY <2>1, <2>2, <2>3
  <2>5. ASSUME NEW b \in Alerts PROVE AlertTrue(b)' /\ AlertGoesOn(b)
    <3>1. AlertTrue(b) /\ outbox' = outbox
      BY <1>1, <2>1 DEF AlertsFit, noteVars
    <3>2. QED BY <1>1, <1>2, <1>6, <2>3, <2>4, <3>1 DEF AlertTrue, AlertGoesOn
  <2>6. ASSUME NEW i \in IncidentIds PROVE IncidentGoesOn(i)
    BY <1>1 DEF IncidentGoesOn
  <2>7. OpsGoOn
    BY <1>3, <2>5, <2>6 DEF OpsGoOn
  <2>8. EnginesFit'
    BY <1>4, <2>1, <2>7, OneEngineMoves
  <2>9. IncidentsFit' /\ RecoveriesFit' /\ AlertsFit'
    BY <1>1, <2>4, <2>5, <2>7, IncidentsSame, RecoveriesSame DEF OpsInv, AlertsFit
  <2>10. QED BY <1>1, <1>3, <2>7, <2>8, <2>9, RowsMove
<1>7. QED BY <1>5, <1>6

LEMMA RecoveryChanges ==
  ASSUME OpsInv, NEW i \in IncidentIds, NEW act \in ActionRows,
         recovery' = [recovery EXCEPT ![i] = act], recovery[i].st = "pending", act.st # "none",
         UNCHANGED <<incident, alert, outbox, command>>
  PROVE  RecoveriesFit' /\ OpsGoOn
<1>1. /\ recovery' \in [IncidentIds -> ActionRows] /\ recovery'[i] = act
      /\ \A j \in IncidentIds : j # i => recovery'[j] = recovery[j]
  BY DEF OpsInv, RecoveriesFit
<1>2. ASSUME NEW j \in IncidentIds PROVE IncidentGoesOn(j)
  BY <1>1 DEF IncidentGoesOn
<1>3. ASSUME NEW a \in Alerts PROVE AlertGoesOn(a)
  BY DEF AlertGoesOn
<1>4. RecoveriesFit'
  BY <1>1 DEF OpsInv, RecoveriesFit
<1>5. QED BY <1>2, <1>3, <1>4, CommandsSame DEF OpsGoOn

LEMMA SettleFits ==
  ASSUME OpsInv, NEW e \in Instances, SettleRecovery(e)
  PROVE  OpsInv' /\ OpsGoOn
<1>1. /\ engine[e].at = "settle"
      /\ UNCHANGED <<noteVars, presence, lifecycle, command, incident, alert, alertMapping,
                     silences>>
  BY DEF SettleRecovery
<1>2. PICK i \in IncidentIds : i = engine[e].row
  <2>1. EngineFits(engine[e])
    BY DEF OpsInv, EnginesFit
  <2>2. QED BY <1>1, <2>1, EngineParts DEF EngineFits
<1>3. PICK at \in {"scan", "recovery"} : EngineGoes(e, [at |-> at])
  BY DEF SettleRecovery
<1>4. EngineFits([at |-> at]) /\ EngineFits([at |-> at])'
  BY DEF EngineFits, EngineStates
<1>5. Inv' /\ MessagesRest /\ CommandsGoOn
  BY <1>1, StillKeeps, CommandsSame DEF OpsInv
<1>6. recovery \in [IncidentIds -> ActionRows] /\ recovery[i] \in ActionRows
  BY DEF OpsInv, RecoveriesFit
<1>7. CASE recovery[i].st # "pending"
  <2>1. recovery' = recovery
    BY <1>2, <1>7 DEF SettleRecovery
  <2>2. SurroundingsFit'
    BY <1>1, SurroundingsSame DEF OpsInv
  <2>3. QED BY <1>1, <1>3, <1>4, <1>5, <2>1, <2>2, EngineMoves
<1>8. CASE recovery[i].st = "pending"
  <2>1. \E act \in ActionRows : act.st # "none" /\ recovery' = [recovery EXCEPT ![i] = act]
    <3>1. CASE recovery' = [recovery EXCEPT ![i].st = "completed"]
      <4>1. PICK act : act = [recovery[i] EXCEPT !.st = "completed"]
        OBVIOUS
      <4>2. act \in ActionRows /\ act.st # "none"
        BY <1>6, <4>1 DEF ActionRows
      <4>3. QED BY <3>1, <4>1, <4>2
    <3>2. CASE recovery' = [recovery EXCEPT ![i].st = "blocked"]
      <4>1. PICK act : act = [recovery[i] EXCEPT !.st = "blocked"]
        OBVIOUS
      <4>2. act \in ActionRows /\ act.st # "none"
        BY <1>6, <4>1 DEF ActionRows
      <4>3. QED BY <3>2, <4>1, <4>2
    <3>3. CASE recovery' = [recovery EXCEPT ![i].attempts = @ + 1, ![i].due = FALSE]
      <4>1. PICK act : act = [recovery[i] EXCEPT !.attempts = recovery[i].attempts + 1,
                                                !.due = FALSE]
        OBVIOUS
      <4>2. act \in ActionRows /\ act.st = "pending"
        <5>1. PICK old \in ActionRows : old = recovery[i]
          BY <1>6
        <5>2. old.attempts + 1 \in Nat
          BY <5>1 DEF ActionRows
        <5>3. PICK n \in Nat : n = old.attempts + 1
          BY <5>2
        <5>4. act = [old EXCEPT !.attempts = n, !.due = FALSE]
          BY <4>1, <5>1, <5>3
        <5>5. QED BY <1>8, <5>1, <5>3, <5>4 DEF ActionRows
      <4>3. recovery' = [recovery EXCEPT ![i] = act]
        BY <1>6, <3>3, <4>1 DEF ActionRows
      <4>4. QED BY <4>2, <4>3
    <3>4. QED BY <1>2, <1>8, <3>1, <3>2, <3>3 DEF SettleRecovery
  <2>2. RecoveriesFit' /\ OpsGoOn
    BY <1>1, <1>8, <2>1, RecoveryChanges DEF noteVars
  <2>3. IncidentsFit' /\ EnginesFit'
    BY <1>1, <1>3, <1>4, <2>2, IncidentsSame, OneEngineMoves DEF OpsInv
  <2>4. AlertsFit'
    BY <1>1, <1>5, <2>2, AlertsSame, SendersRest DEF OpsInv
  <2>5. QED BY <1>1, <1>5, <2>2, <2>3, <2>4, RowsMove
<1>9. QED BY <1>7, <1>8

LEMMA ComesDueFits ==
  ASSUME OpsInv, NEW i \in IncidentIds, RecoveryComesDue(i)
  PROVE  OpsInv' /\ OpsGoOn
<1>1. UNCHANGED <<noteVars, presence, lifecycle, command, incident, alert, engine,
                  alertMapping, silences>>
  BY DEF RecoveryComesDue
<1>2. Inv' /\ MessagesRest
  BY <1>1, StillKeeps DEF OpsInv
<1>3. recovery[i] \in ActionRows /\ recovery[i].st = "pending"
      /\ recovery' = [recovery EXCEPT ![i].due = TRUE]
  BY DEF OpsInv, RecoveriesFit, RecoveryComesDue
<1>4. PICK act : act = [recovery[i] EXCEPT !.due = TRUE]
  OBVIOUS
<1>5. act \in ActionRows /\ act.st = "pending" /\ recovery' = [recovery EXCEPT ![i] = act]
  BY <1>3, <1>4 DEF ActionRows
<1>6. RecoveriesFit' /\ OpsGoOn
  BY <1>1, <1>3, <1>5, RecoveryChanges DEF noteVars
<1>7. IncidentsFit' /\ EnginesFit' /\ AlertsFit'
  BY <1>1, <1>2, <1>6, IncidentsSame, EnginesStay, AlertsSame, SendersRest DEF OpsInv
<1>8. QED BY <1>1, <1>2, <1>6, <1>7, RowsMove

LEMMA OpsInvInit == OpsInit => OpsInv
<1> SUFFICES ASSUME OpsInit PROVE OpsInv
  OBVIOUS
<1>1. Inv
  BY InvInit DEF OpsInit
<1>2. IncidentsFit
  <2>1. incident = [i \in IncidentIds |-> NoIncident]
    BY DEF OpsInit
  <2>2. incident \in [IncidentIds -> IncidentRows]
    BY <2>1 DEF NoIncident, IncidentRows
  <2>3. \A i \in IncidentIds : IncidentFits(i)
    BY <2>1 DEF IncidentFits, NoIncident
  <2>4. \A i \in IncidentIds : incident[i].st = "none" /\ ~(i <= 0)
    BY <2>1, OperationsAssumption DEF NoIncident, IncidentIds
  <2>5. \E n \in 0 .. MaxIncidents : \A i \in IncidentIds : incident[i].st # "none" <=> i <= n
    <3>1. 0 \in 0 .. MaxIncidents
      BY OperationsAssumption
    <3>2. QED BY <2>4, <3>1
  <2>6. \A i, j \in IncidentIds : SameGround(i, j) => i = j
    BY <2>1 DEF SameGround, NoIncident, Active
  <2>7. QED BY <2>2, <2>3, <2>5, <2>6 DEF IncidentsFit
<1>3. AlertsFit
  <2>1. alert = [a \in Alerts |-> NoAlert] /\ outbox = [k \in Keys |-> NoMessage]
    BY DEF OpsInit, NoteInit
  <2>2. alert \in [Alerts -> AlertRows]
    BY <2>1 DEF NoAlert, AlertRows
  <2>3. \A a \in Alerts : AlertTrue(a)
    BY <2>1, AlertParts DEF AlertTrue, NoAlert, NoMessage
  <2>4. QED BY <2>2, <2>3 DEF AlertsFit
<1>4. RecoveriesFit
  BY DEF OpsInit, RecoveriesFit, NoAction, ActionRows
<1>5. EnginesFit
  <2>1. EngineFits([at |-> "scan"])
    BY DEF EngineFits, EngineStates
  <2>2. QED BY <2>1 DEF OpsInit, EnginesFit
<1>6. SurroundingsFit
  BY OperationsAssumption DEF OpsInit, SurroundingsFit, NoCommand, CommandRows
<1>7. QED BY <1>1, <1>2, <1>3, <1>4, <1>5, <1>6 DEF OpsInv

LEMMA OpsInvKept == OpsInv /\ [OpsNext]_opsVars => OpsInv' /\ OpsGoOn
<1> SUFFICES ASSUME OpsInv, [OpsNext]_opsVars PROVE OpsInv' /\ OpsGoOn
  OBVIOUS
<1>1. CASE World \/ AlertMappingChanges \/ (DispatchNext /\ UNCHANGED opsOnlyVars)
  BY <1>1, WorldFits
<1>2. CASE EngineNext
  <2>1. CASE \E e \in Instances : Drain(e)
    BY <2>1, OffersFit, EnqueueAlertFits, RecordAlertFits, RequestFits, SettleFits DEF Drain
  <2>2. CASE \E e \in Instances : EngineErrs(e)
    BY <2>2, EngineErrsFits
  <2>3. CASE \E i \in IncidentIds : RecoveryComesDue(i)
    BY <2>3, ComesDueFits
  <2>4. QED BY <1>2, <2>1, <2>2, <2>3 DEF EngineNext
<1>3. CASE \E to \in SUBSET Addressees : Operate(to)
  BY <1>3, OperateFits DEF Operate
<1>4. CASE \E to \in SUBSET Addressees, e \in Instances : Detect(e, to)
  BY <1>4, OffersFit, OpenFits, CheckFits, ResolveFits DEF Detect
<1>5. CASE UNCHANGED opsVars
  <2>1. UNCHANGED noteVars /\ UNCHANGED opsOnlyVars
    BY <1>5 DEF opsVars
  <2>2. Inv' /\ MessagesRest
    BY <2>1, StillKeeps DEF OpsInv
  <2>3. QED
    BY <2>1, <2>2, SurroundingsMove, SurroundingsSame, CommandsSame, SendersRest
       DEF opsOnlyVars, OpsInv
<1>6. QED BY <1>1, <1>2, <1>3, <1>4, <1>5 DEF OpsNext, IncidentsNext

LEMMA OpsInvAlways == OpsSafe => []OpsInv
  BY OpsInvInit, OpsInvKept, PTL DEF OpsSafe

LEMMA OpsInvIsSound == OpsInv => OperationsAreSound
<1> SUFFICES ASSUME OpsInv PROVE OperationsAreSound
  OBVIOUS
<1>1. /\ presence \in [Devices -> {"fresh", "quiet", "offline"}]
      /\ lifecycle \in [Devices -> {"active", "revoked"}]
      /\ alert \in [Alerts -> AlertRows] /\ recovery \in [IncidentIds -> ActionRows]
      /\ alertMapping \in 0 .. MaxAlertMapping /\ silences \in 0 .. MaxSilences
  BY DEF OpsInv, SurroundingsFit, AlertsFit, RecoveriesFit
<1>2. \A c \in CommandIds :
          /\ command[c].st \in {"none", "active", "completed", "failed"}
          /\ command[c].st # "none" <=> command[c].device \in Devices
  BY DEF OpsInv, SurroundingsFit, CommandRows
<1>3. ASSUME NEW i \in IncidentIds
      PROVE  /\ incident[i].st \in {"none", "open", "acknowledged", "resolved"}
             /\ incident[i].st # "none" =>
                 incident[i].rule \in Rules /\ incident[i].subject \in Devices \cup CommandIds
             /\ incident[i].st = "resolved" <=> incident[i].code # "none"
             /\ incident[i].st \in Active =>
                 ActiveRows(incident[i].rule, incident[i].subject) = {i}
             /\ incident[i].rule = "failed" => Rows("failed", incident[i].subject) = {i}
  <2>1. incident[i] \in IncidentRows /\ IncidentFits(i)
    BY DEF OpsInv, IncidentsFit
  <2>2. \A j \in IncidentIds : SameGround(j, i) => j = i
    BY DEF OpsInv, IncidentsFit
  <2>3. incident[i].st \in Active => ActiveRows(incident[i].rule, incident[i].subject) = {i}
    BY <2>2 DEF SameGround, ActiveRows, Rows
  <2>4. incident[i].rule = "failed" => Rows("failed", incident[i].subject) = {i}
    BY <2>2 DEF SameGround, Rows
  <2>5. incident[i].st # "none" =>
            incident[i].rule \in Rules /\ incident[i].subject \in Devices \cup CommandIds
    BY <2>1 DEF IncidentFits, SubjectFits, Rules
  <2>6. QED BY <2>1, <2>3, <2>4, <2>5 DEF IncidentFits, IncidentRows
<1>4. engine \in [Instances -> EngineStates]
  BY DEF OpsInv, EnginesFit, EngineFits
<1>5. OpsTypeOK
  BY <1>1, <1>2, <1>3, <1>4 DEF OpsTypeOK, AlertRows, ActionRows
<1>6. AlertsAreTrue
  BY DEF OpsInv, AlertsFit, AlertTrue, AlertsAreTrue
<1>7. QED BY <1>5, <1>6 DEF OperationsAreSound

\* For any engines, devices, recipients and faults, a subject has one active
\* incident of a rule and an event one for all time, and what the alerts
\* announce is so, whichever engines raced over them.
THEOREM OperationsSound == OpsSafe => []OperationsAreSound
<1>1. QED BY OpsInvIsSound, OpsInvAlways, PTL

\* The engines keep the outbox's promises to all its senders.
THEOREM AlertMessagesSound == OpsSafe => []MessagesAreSound
<1>1. OpsInv => MessagesAreSound
  BY InvIsSound DEF OpsInv
<1>2. QED BY <1>1, OpsInvAlways, PTL

\* A device is healed only by a resolution that finds it back and active,
\* whatever the scan that led to it had seen.
THEOREM HealsOnlyTheActive == OpsSafe => HealedOnlyWhenActive
<1> DEFINE Heals ==
        \A i \in IncidentIds :
            /\ recovery[i].st = "none" /\ recovery'[i].st # "none" =>
                /\ incident'[i].code = "reconnect"
                /\ lifecycle[incident[i].subject] = "active"
            /\ incident[i].code = "none" /\ incident'[i].code = "reconnect" =>
                lifecycle[incident[i].subject] = "active"
<1>1. OpsInv /\ [OpsNext]_opsVars => Heals
  BY OpsInvKept DEF OpsGoOn, IncidentGoesOn
<1>2. OpsInv /\ [OpsNext]_opsVars => [Heals]_opsVars
  BY <1>1
<1>3. QED BY <1>2, OpsInvAlways, PTL DEF OpsSafe, HealedOnlyWhenActive

\* A command, a recovery and an alert that have been decided stay so, however
\* late another engine comes with its own verdict.
THEOREM DecidedForGood == OpsSafe => DecidedStays
<1> DEFINE Stays ==
        /\ \A c \in CommandIds :
            command[c].st \in {"completed", "failed"} => command'[c] = command[c]
        /\ \A i \in IncidentIds : recovery[i].st \in {"completed", "blocked"} =>
            recovery'[i].st = recovery[i].st
        /\ \A a \in Alerts : alert[a].st \in {"sent", "blocked"} => alert'[a] = alert[a]
<1>1. OpsInv /\ [OpsNext]_opsVars => Stays
  BY OpsInvKept DEF OpsGoOn, IncidentGoesOn, AlertGoesOn, CommandsGoOn
<1>2. OpsInv /\ [OpsNext]_opsVars => [Stays]_opsVars
  BY <1>1
<1>3. QED BY <1>2, OpsInvAlways, PTL DEF OpsSafe, DecidedStays
-----------------------------------------------------------------------------
(* All senders at once.                                                    *)

\* What one part may be told of another's step.
LEMMA SendersApart ==
  /\ RestOf(Keys \ Deliveries) => RestOf(Alerts)
  /\ RestOf(Keys \ Alerts) => RestOf(Deliveries)
  /\ \A k \in OutboxKeys : RestOf(Keys \ {k}) => RestOf(Alerts) /\ RestOf(Deliveries)
BY MessagingAssumption, ReportAssumption, OperationsAssumption DEF RestOf, Deliveries

\* A message is written under its key alone.
LEMMA EnqueueRests ==
  ASSUME Inv, NEW k \in Keys, NEW c, outbox' = AfterEnqueue(k, c)
  PROVE  RestOf(Keys \ {k})
<1>1. outbox = [j \in Keys |-> outbox[j]]
  BY RowParts DEF Inv, NoteTypeOK
<1>2. \A j \in Keys \ {k} : outbox'[j] = outbox[j]
  BY <1>1 DEF AfterEnqueue
<1>3. QED BY <1>2 DEF RestOf

LEMMA SameRestOf ==
  ASSUME outbox' = outbox
  PROVE  \A K \in SUBSET Keys : RestOf(K)
BY DEF RestOf

\* The planner and the runners write under the keys of deliveries.
LEMMA RunsWriteTheirs ==
  ASSUME RunInv, RunsNext
  PROVE  RestOf(Keys \ Deliveries)
<1>1. ASSUME outbox' = outbox PROVE RestOf(Keys \ Deliveries)
  BY <1>1, SameRestOf
<1>2. CASE \E R \in SUBSET Recipients :
            MaterializeNextSlot(R) \/ \E k \in ManualKeys : CreateManualRun(k, R)
  BY <1>1, <1>2 DEF MaterializeNextSlot, CreateManualRun, Create, noteVars
<1>3. CASE FiguresMove \/ MappingChanges
  BY <1>1, <1>3 DEF FiguresMove, MappingChanges, noteVars
<1>4. CASE RunTimePasses
  BY <1>1, <1>4 DEF RunTimePasses, RunLeaseExpires, RunComesDue, Faulty, noteVars
<1>5. CASE \E w \in Runners : RunnerFault(w)
  BY <1>1, <1>5 DEF RunnerFault, ReadKindFails, ComposeFails, PersistFails, RelistFails,
     EnqueueFails, RunnerFails, Faulty
<1>6. CASE \E w \in Runners : RunnerStep(w)
  <2>1. PICK w \in Runners : RunnerStep(w)
    BY <1>6
  <2>2. CASE \E p \in Recipients : EnqueueDelivery(w, p)
    <3>1. PICK p \in Recipients : EnqueueDelivery(w, p)
      BY <2>2
    <3>2. PICK key : key = <<MyRun(w), p>>
      OBVIOUS
    <3>3. key \in Deliveries /\ key \in Keys
      <4>1. PICK s : s = runner[w]
        OBVIOUS
      <4>2. s \in RunnerStates /\ s.at = "enqueue"
        BY <3>1, <4>1 DEF RunInv, Fit, EnqueueDelivery
      <4>3. MyRun(w) \in Runs
        BY <4>1, <4>2, WorkParts DEF MyRun
      <4>4. QED BY <3>2, <4>3, PairKeys DEF Deliveries
    <3>4. outbox' = outbox \/ \E c : outbox' = AfterEnqueue(key, c)
      BY <3>1, <3>2 DEF EnqueueDelivery
    <3>5. ASSUME NEW c, outbox' = AfterEnqueue(key, c) PROVE RestOf(Keys \ Deliveries)
      <4>1. RestOf(Keys \ {key})
        BY <3>3, <3>5, EnqueueRests DEF RunInv
      <4>2. QED BY <3>3, <4>1 DEF RestOf
    <3>6. QED BY <1>1, <3>4, <3>5
  <2>3. CASE (\E r \in Runs : ClaimRun(w, r)) \/ ReadRun(w) \/ Compose(w) \/ Persist(w) \/ Relist(w)
             \/ RecordDelivery(w) \/ FinishAggregate(w) \/ FinishRun(w)
    BY <1>1, <2>3 DEF ClaimRun, ReadRun, Compose, Persist, Relist, RecordDelivery,
       FinishAggregate, FinishRun, noteVars
  <2>4. QED BY <2>1, <2>2, <2>3 DEF RunnerStep
<1>7. QED BY <1>2, <1>3, <1>4, <1>5, <1>6 DEF RunsNext

\* The engines write under the keys of alerts.
LEMMA EnginesWriteTheirs ==
  ASSUME OpsInv, IncidentsNext
  PROVE  RestOf(Keys \ Alerts)
<1>1. ASSUME outbox' = outbox PROVE RestOf(Keys \ Alerts)
  BY <1>1, SameRestOf
<1>2. CASE World \/ AlertMappingChanges
  BY <1>1, <1>2 DEF World, AlertMappingChanges, DeviceContacts, DeviceSilent, RevokeDevice,
     OperatorSyncs, CommandEnds, noteVars
<1>3. CASE \E e \in Instances : Drain(e)
  <2>1. PICK e \in Instances : Drain(e)
    BY <1>3
  <2>2. CASE EnqueueAlert(e)
    <3>1. engine[e].at = "enqueue"
      BY <2>2 DEF EnqueueAlert
    <3>2. PICK a \in Alerts : a = engine[e].alert
      BY <3>1, AlertWorkFits
    <3>3. outbox' = outbox \/ \E c : outbox' = AfterEnqueue(a, c)
      BY <2>2, <3>2 DEF EnqueueAlert
    <3>4. ASSUME NEW c, outbox' = AfterEnqueue(a, c) PROVE RestOf(Keys \ Alerts)
      <4>1. RestOf(Keys \ {a})
        BY <3>4, AlertParts, EnqueueRests DEF OpsInv
      <4>2. QED BY <4>1 DEF RestOf
    <3>5. QED BY <1>1, <3>3, <3>4
  <2>3. CASE ClaimDelivery(e) \/ RecordAlert(e) \/ ClaimRecovery(e) \/ RequestSync(e) \/ SettleRecovery(e)
    BY <1>1, <2>3 DEF ClaimDelivery, RecordAlert, ClaimRecovery, RequestSync, SettleRecovery, noteVars
  <2>4. QED BY <2>1, <2>2, <2>3 DEF Drain
<1>4. CASE \E e \in Instances : EngineErrs(e)
  BY <1>1, <1>4 DEF EngineErrs, EngineFails, RequestFails
<1>5. CASE \E i \in IncidentIds : RecoveryComesDue(i)
  BY <1>1, <1>5 DEF RecoveryComesDue, noteVars
<1>6. CASE \E to \in SUBSET Addressees : Operate(to)
  BY <1>1, <1>6 DEF Operate, AcknowledgeIncident, ResolveOperator, noteVars
<1>7. CASE \E to \in SUBSET Addressees, e \in Instances : Detect(e, to)
  BY <1>1, <1>7 DEF Detect, ScanFinds, OpenIncident, CheckOffline, ResolveIncident, ScanEnds,
     noteVars
<1>8. QED BY <1>2, <1>3, <1>4, <1>5, <1>6, <1>7 DEF IncidentsNext, EngineNext

\* To the reports, and to the operations, a step of others is one of the world.
LEMMA ReportsStand ==
  ASSUME RunInv, Inv', RestOf(Deliveries), UNCHANGED reportOnlyVars
  PROVE  RunInv' /\ AllGoOn
<1>1. figures \in 1 .. MaxFigures /\ mapping \in 0 .. MaxTemplate
  BY DEF RunInv, PlanFits
<1>2. QED BY <1>1, WorldKeeps DEF reportOnlyVars

LEMMA OperationsStand ==
  ASSUME OpsInv, Inv', RestOf(Alerts), UNCHANGED opsOnlyVars
  PROVE  OpsInv' /\ OpsGoOn
<1>1. UNCHANGED <<presence, lifecycle, command, incident, alert, recovery, engine, alertMapping,
                  silences>>
  BY DEF opsOnlyVars
<1>2. CommandsGoOn /\ SurroundingsFit'
  BY <1>1, CommandsSame, SurroundingsSame DEF OpsInv
<1>3. QED BY <1>1, <1>2, SurroundingsMove

\* The invariants of the senders, together: each part keeps its own, and no
\* message of another.
MessagingInv == RunInv /\ OpsInv

LEMMA MessagingInvKept ==
  MessagingInv /\ [MessagingNext]_messagingVars => MessagingInv' /\ AllGoOn /\ OpsGoOn
<1> SUFFICES ASSUME MessagingInv, [MessagingNext]_messagingVars
             PROVE  MessagingInv' /\ AllGoOn /\ OpsGoOn
  OBVIOUS
<1>1. RunInv /\ OpsInv /\ Inv
  BY DEF MessagingInv, RunInv
<1>2. CASE RunsNext /\ UNCHANGED opsOnlyVars
  <2>1. RunInv' /\ AllGoOn /\ Inv'
    BY <1>1, <1>2, RunInvKept DEF ReportNext, RunInv
  <2>2. RestOf(Alerts)
    BY <1>1, <1>2, RunsWriteTheirs, SendersApart
  <2>3. QED BY <1>1, <1>2, <2>1, <2>2, OperationsStand DEF MessagingInv
<1>3. CASE IncidentsNext /\ UNCHANGED reportOnlyVars
  <2>1. OpsInv' /\ OpsGoOn /\ Inv'
    BY <1>1, <1>3, OpsInvKept DEF OpsNext, OpsInv
  <2>2. RestOf(Deliveries)
    BY <1>1, <1>3, EnginesWriteTheirs, SendersApart
  <2>3. QED BY <1>1, <1>3, <2>1, <2>2, ReportsStand DEF MessagingInv
<1>4. ASSUME UNCHANGED <<reportOnlyVars, opsOnlyVars>>, Inv', RestOf(Deliveries), RestOf(Alerts)
      PROVE  MessagingInv' /\ AllGoOn /\ OpsGoOn
  BY <1>1, <1>4, ReportsStand, OperationsStand DEF MessagingInv
<1>5. CASE DispatchNext /\ UNCHANGED <<reportOnlyVars, opsOnlyVars>>
  BY <1>1, <1>4, <1>5, DispatchKeeps, SendersRest
<1>6. CASE /\ \E k \in OutboxKeys, c \in Contents : EnqueueNotification(k, c)
           /\ UNCHANGED <<reportOnlyVars, opsOnlyVars>>
  <2>1. PICK k \in OutboxKeys, c \in Contents : EnqueueNotification(k, c)
    BY <1>6
  <2>2. k \in Keys /\ outbox' = AfterEnqueue(k, c)
    BY <2>1, MessagingAssumption DEF EnqueueNotification
  <2>3. Inv'
    BY <1>1, <2>1, <2>2, EnqueueKeeps
  <2>4. RestOf(Deliveries) /\ RestOf(Alerts)
    BY <1>1, <2>2, EnqueueRests, SendersApart
  <2>5. QED BY <1>4, <1>6, <2>3, <2>4
<1>7. CASE UNCHANGED messagingVars
  <2>1. UNCHANGED noteVars /\ UNCHANGED <<reportOnlyVars, opsOnlyVars>>
    BY <1>7 DEF messagingVars
  <2>2. QED BY <1>1, <1>4, <2>1, StillKeeps, SendersRest
<1>8. QED BY <1>2, <1>3, <1>5, <1>6, <1>7 DEF MessagingNext

LEMMA MessagingInvAlways == MessagingSafe => []MessagingInv
<1>1. MessagingInit => MessagingInv
  BY RunInvInit, OpsInvInit DEF MessagingInit, MessagingInv
<1>2. QED BY <1>1, MessagingInvKept, PTL DEF MessagingSafe

\* With reports, operations, operators and dispatchers at work at once, in any
\* number and with any faults, each keeps what it promises.
THEOREM MessagingSound == MessagingSafe => []MessagingIsSound
<1>1. MessagingInv => MessagingIsSound
  BY InvIsSound, RunInvIsSound, OpsInvIsSound DEF MessagingInv, RunInv, MessagingIsSound
<1>2. QED BY <1>1, MessagingInvAlways, PTL

\* Nor is anything undone that was decided: the verdicts of runs and of
\* deliveries, their snapshots, commands, recoveries and alerts stay, and only
\* an active device is healed, whatever the others do meanwhile.
THEOREM NothingDecidedIsUndone == MessagingSafe => DecisionsStay
<1> DEFINE Verdicts ==
        \A r \in Runs :
            /\ run[r].st \in {"completed", "blocked"} => run'[r].st = run[r].st
            /\ \A p \in Recipients :
                /\ delivery[<<r, p>>].st \in {"enqueued", "blocked"} =>
                    delivery'[<<r, p>>].st = delivery[<<r, p>>].st
                /\ delivery[<<r, p>>].body # 0 =>
                    delivery'[<<r, p>>].body = delivery[<<r, p>>].body
           Heals ==
        \A i \in IncidentIds :
            /\ recovery[i].st = "none" /\ recovery'[i].st # "none" =>
                /\ incident'[i].code = "reconnect"
                /\ lifecycle[incident[i].subject] = "active"
            /\ incident[i].code = "none" /\ incident'[i].code = "reconnect" =>
                lifecycle[incident[i].subject] = "active"
           Stays ==
        /\ \A c \in CommandIds :
            command[c].st \in {"completed", "failed"} => command'[c] = command[c]
        /\ \A i \in IncidentIds : recovery[i].st \in {"completed", "blocked"} =>
            recovery'[i].st = recovery[i].st
        /\ \A a \in Alerts : alert[a].st \in {"sent", "blocked"} => alert'[a] = alert[a]
<1>1. MessagingInv /\ [MessagingNext]_messagingVars => [Verdicts]_reportVars
  BY MessagingInvKept DEF AllGoOn, RunGoesOn
<1>2. MessagingInv /\ [MessagingNext]_messagingVars => [Heals]_opsVars
  <2>1. MessagingInv /\ [MessagingNext]_messagingVars => Heals
    BY MessagingInvKept DEF OpsGoOn, IncidentGoesOn
  <2>2. QED BY <2>1
<1>3. MessagingInv /\ [MessagingNext]_messagingVars => [Stays]_opsVars
  <2>1. MessagingInv /\ [MessagingNext]_messagingVars => Stays
    BY MessagingInvKept DEF OpsGoOn, IncidentGoesOn, AlertGoesOn, CommandsGoOn
  <2>2. QED BY <2>1
<1>4. QED
  BY <1>1, <1>2, <1>3, MessagingInvAlways, PTL
     DEF MessagingSafe, DecisionsStay, ReportVerdictsStay, HealedOnlyWhenActive, DecidedStays
=============================================================================
