---------------------------- MODULE Notifications ----------------------------
(***************************************************************************)
(* The notification outbox and its dispatchers (internal/notifications,    *)
(* internal/adapter/postgres/notifications.go): a message is enqueued      *)
(* under an idempotency key, a dispatcher of any instance claims it under  *)
(* a lease, marks that it starts to send, calls the provider and records   *)
(* the outcome; the provider reports the delivery by callbacks.            *)
(*                                                                         *)
(* Each statement is a transaction of its own.  Between any two, the lease *)
(* may expire and another dispatcher may claim, or the process may die.    *)
(* The provider is external: it may answer, refuse, ask to try again, or   *)
(* leave it unknown whether the message went out.                          *)
(***************************************************************************)
EXTENDS Naturals

CONSTANTS
    Keys,           \* idempotency keys
    Contents,       \* recipient, parameters and resolved template
    Dispatchers,    \* instances
    Callbacks,      \* delivery callbacks: <<status, provider timestamp>>
    MaxLapses,      \* bound: crashes, and leases that expire under a dispatcher
    MaxPostponed,   \* bound: answers that ask to try again later
    Nobody,
    Nothing

ASSUME NotificationAssumption ==
    /\ MaxLapses \in Nat /\ MaxPostponed \in Nat
    /\ Nobody \notin Dispatchers
    /\ Nothing \notin Contents \cup Callbacks \cup {<<"ACCEPTED", 0>>}
    /\ Callbacks \subseteq {"SENT", "DELIVERED", "READ", "FAILED", "UNKNOWN"} \X Nat

VARIABLES
    outbox,     \* notification_messages
    history,    \* notification_delivery_history
    courier,    \* what each dispatcher is doing
    reached,    \* history: how often the message reached the provider
    lapses,
    postponed

noteVars == <<outbox, history, courier, reached, lapses, postponed>>
-----------------------------------------------------------------------------
Settled == {"accepted", "blocked", "ambiguous"}
Waiting == {"pending", "retry"}
Answers == {"accepted", "retry", "blocked", "ambiguous"}
Generations == 0 .. MaxLapses + MaxPostponed + 1

\* live: lease_until is not over; due: next_attempt_at is; started: the
\* send-start marker; delivery: delivery_status and its time.
Messages ==
    [st : Waiting \cup Settled \cup {"none"}, content : Contents \cup {Nothing},
     owner : Dispatchers \cup {Nobody}, gen : Generations, live : BOOLEAN,
     due : BOOLEAN, started : BOOLEAN, delivery : Callbacks \cup {<<"ACCEPTED", 0>>, Nothing}]

NoMessage == [st |-> "none", content |-> Nothing, owner |-> Nobody, gen |-> 0,
              live |-> FALSE, due |-> FALSE, started |-> FALSE, delivery |-> Nothing]
NewMessage(c) == [NoMessage EXCEPT !.st = "pending", !.content = c, !.due = TRUE]

AtRest == [at |-> "idle"]
CourierStates ==
    {AtRest}
    \cup [at : {"claimed", "sending"}, key : Keys, gen : Generations]
    \cup [at : {"answered"}, key : Keys, gen : Generations, answer : Answers]

NoteInit ==
    /\ outbox = [k \in Keys |-> NoMessage]
    /\ history = [k \in Keys |-> {}]
    /\ courier = [d \in Dispatchers |-> AtRest]
    /\ reached = [k \in Keys |-> 0]
    /\ lapses \in 0 .. MaxLapses
    /\ postponed = 0
-----------------------------------------------------------------------------
\* EnqueueNotification: what the unique key makes of an insert.
EnqueueOutcome(k, c) ==
    CASE outbox[k].st = "none" -> "inserted"
      [] outbox[k].st # "none" /\ outbox[k].content = c -> "identical"
      [] OTHER -> "conflict"

AfterEnqueue(k, c) ==
    IF outbox[k].st = "none" THEN [outbox EXCEPT ![k] = NewMessage(c)] ELSE outbox

EnqueueNotification(k, c) ==
    /\ outbox[k].st = "none"
    /\ outbox' = AfterEnqueue(k, c)
    /\ UNCHANGED <<history, courier, reached, lapses, postponed>>
-----------------------------------------------------------------------------
\* Mutant: an expired lease keeps its row.
ClaimableOnce(k) ==
    outbox[k].st \in Waiting /\ outbox[k].due /\ outbox[k].owner = Nobody

Claimable(k) == outbox[k].st \in Waiting /\ outbox[k].due /\ ~outbox[k].live

\* Mutant: the marker of an earlier attempt is not looked at.
SendStartedIgnored(k) == FALSE

\* An earlier attempt may have reached the provider.
SendStarted(k) == outbox[k].started

\* ClaimNotification; with the marker set there is nothing to send.
ClaimNotification(d, k) ==
    /\ courier[d].at = "idle"
    /\ Claimable(k)
    /\ outbox' = [outbox EXCEPT ![k].owner = d, ![k].gen = @ + 1, ![k].live = TRUE]
    /\ courier' = [courier EXCEPT ![d] =
        IF SendStarted(k)
        THEN [at |-> "answered", key |-> k, gen |-> outbox[k].gen + 1, answer |-> "ambiguous"]
        ELSE [at |-> "claimed", key |-> k, gen |-> outbox[k].gen + 1]]
    /\ UNCHANGED <<history, reached, lapses, postponed>>

\* No provider is registered for the message's provider key.
ProviderUnknown(d) ==
    /\ courier[d].at = "claimed"
    /\ courier' = [courier EXCEPT ![d] =
        [at |-> "answered", key |-> courier[d].key, gen |-> courier[d].gen, answer |-> "blocked"]]
    /\ UNCHANGED <<outbox, history, reached, lapses, postponed>>

\* The row is still that of this claim (lease_until is not asked).
Holds(d) ==
    LET row == outbox[courier[d].key] IN
    row.owner = d /\ row.gen = courier[d].gen /\ row.st \in Waiting

MarkNotificationSendStarted(d) ==
    /\ courier[d].at = "claimed"
    /\ \/ /\ Holds(d)
          /\ outbox' = [outbox EXCEPT ![courier[d].key].started = TRUE]
          /\ courier' = [courier EXCEPT ![d].at = "sending"]
       \/ /\ ~Holds(d)
          /\ courier' = [courier EXCEPT ![d] = AtRest]
          /\ UNCHANGED outbox
    /\ UNCHANGED <<history, reached, lapses, postponed>>

\* SendTemplate: only an unknown outcome leaves open whether the message
\* went out.
SendTemplate(d, answer) ==
    /\ courier[d].at = "sending"
    /\ answer = "retry" => postponed < MaxPostponed
    /\ postponed' = IF answer = "retry" THEN postponed + 1 ELSE postponed
    /\ \E sent \in CASE answer = "accepted" -> {1} [] answer = "ambiguous" -> {0, 1}
                     [] OTHER -> {0} :
        reached' = [reached EXCEPT ![courier[d].key] = @ + sent]
    /\ courier' = [courier EXCEPT ![d] =
        [at |-> "answered", key |-> courier[d].key, gen |-> courier[d].gen, answer |-> answer]]
    /\ UNCHANGED <<outbox, history, lapses>>
-----------------------------------------------------------------------------
\* FinishNotificationAccepted, ...Retry, ...Blocked, ...Ambiguous: a retry
\* clears the marker and waits for its backoff.
Finished(row, answer) ==
    LET free == [row EXCEPT !.st = answer, !.owner = Nobody, !.live = FALSE] IN
    CASE answer = "retry" -> [free EXCEPT !.due = FALSE, !.started = FALSE]
      [] answer = "accepted" -> [free EXCEPT !.delivery = <<"ACCEPTED", 0>>]
      [] OTHER -> free

FinishNotification(d) ==
    /\ courier[d].at = "answered"
    /\ outbox' = IF Holds(d)
                 THEN [outbox EXCEPT ![courier[d].key] = Finished(@, courier[d].answer)]
                 ELSE outbox
    /\ courier' = [courier EXCEPT ![d] = AtRest]
    /\ UNCHANGED <<history, reached, lapses, postponed>>

\* The process dies, a statement fails, or the answer of one is lost; what
\* was done stays done.
DispatcherFails(d) ==
    /\ courier[d].at # "idle" /\ lapses < MaxLapses
    /\ lapses' = lapses + 1
    /\ courier' = [courier EXCEPT ![d] = AtRest]
    /\ UNCHANGED <<outbox, history, reached, postponed>>

UnderWay(k) ==
    \E d \in Dispatchers :
        courier[d].at # "idle" /\ courier[d].key = k /\ courier[d].gen = outbox[k].gen

\* lease_until passes.
NoteLeaseExpires(k) ==
    /\ outbox[k].live
    /\ UnderWay(k) => lapses < MaxLapses
    /\ lapses' = IF UnderWay(k) THEN lapses + 1 ELSE lapses
    /\ outbox' = [outbox EXCEPT ![k].live = FALSE]
    /\ UNCHANGED <<history, courier, reached, postponed>>

\* next_attempt_at passes.
NoteComesDue(k) ==
    /\ outbox[k].st = "retry" /\ ~outbox[k].due
    /\ outbox' = [outbox EXCEPT ![k].due = TRUE]
    /\ UNCHANGED <<history, courier, reached, lapses, postponed>>
-----------------------------------------------------------------------------
Precedence(status) ==
    CASE status = "ACCEPTED" -> 1 [] status = "SENT" -> 2 [] status = "DELIVERED" -> 3
      [] status = "READ" -> 4 [] status = "FAILED" -> 5 [] OTHER -> 0

\* Whether a callback moves the current delivery state.
AdvanceDelivery(current, event) ==
    /\ event[1] # "UNKNOWN"
    /\ \/ current[1] = "ACCEPTED"
       \/ event[2] > current[2]
       \/ event[2] = current[2] /\ Precedence(event[1]) > Precedence(current[1])

\* ApplyDeliveryStatus, under the row's lock.  A callback finds its row by
\* the provider's message id, which only an accepted row has: one that comes
\* earlier is acknowledged and dropped, and so is one repeated.
ApplyDeliveryStatus(k, event) ==
    /\ outbox[k].st = "accepted"
    /\ event \notin history[k]
    /\ history' = [history EXCEPT ![k] = @ \cup {event}]
    /\ outbox' = IF AdvanceDelivery(outbox[k].delivery, event)
                 THEN [outbox EXCEPT ![k].delivery = event] ELSE outbox
    /\ UNCHANGED <<courier, reached, lapses, postponed>>
-----------------------------------------------------------------------------
\* One drain of a dispatcher, and what it does with its message.
Dispatch(d) ==
    \/ \E k \in Keys : ClaimNotification(d, k)
    \/ ProviderUnknown(d)
    \/ MarkNotificationSendStarted(d)
    \/ \E answer \in Answers : SendTemplate(d, answer)
    \/ FinishNotification(d)

\* Leases and backoffs pass.
NoteTimePasses == \E k \in Keys : NoteLeaseExpires(k) \/ NoteComesDue(k)

DispatchNext ==
    \/ \E d \in Dispatchers : Dispatch(d) \/ DispatcherFails(d)
    \/ NoteTimePasses
    \/ \E k \in Keys, event \in Callbacks : ApplyDeliveryStatus(k, event)

NoteNext ==
    \/ \E k \in Keys, c \in Contents : EnqueueNotification(k, c)
    \/ DispatchNext

NoteSafe == NoteInit /\ [][NoteNext]_noteVars
-----------------------------------------------------------------------------
\* Every variable has its type; a row is leased only while it waits, and a
\* delivery status belongs to an accepted row.
NoteTypeOK ==
    /\ outbox \in [Keys -> Messages]
    /\ history \in [Keys -> SUBSET Callbacks]
    /\ courier \in [Dispatchers -> CourierStates]
    /\ reached \in [Keys -> Nat]
    /\ lapses \in 0 .. MaxLapses /\ postponed \in 0 .. MaxPostponed
    /\ \A k \in Keys :
        /\ outbox[k].owner # Nobody => outbox[k].st \in Waiting
        /\ outbox[k].st = "accepted" <=> outbox[k].delivery # Nothing

\* A message never reaches the provider twice, whichever dispatchers claim
\* it, when leases expire under them and where they die.
NeverSentTwice == \A k \in Keys : reached[k] <= 1

\* What the outbox says of a message is true: accepted means it went out
\* once, blocked that it never did, and a row that may be sent again has not
\* been sent.
OutcomeIsTrue ==
    \A k \in Keys :
        /\ outbox[k].st = "accepted" => reached[k] = 1
        /\ outbox[k].st \in Waiting \cup {"blocked"} /\ ~outbox[k].started => reached[k] = 0
        /\ outbox[k].st = "blocked" => reached[k] = 0

\* The delivery status is the latest that is known, by the provider's clock
\* and then by precedence, in whatever order the callbacks came.
DeliveryIsLatest ==
    \A k \in Keys :
        LET known == {e \in history[k] : e[1] # "UNKNOWN"}
            Newer(e, f) == e[2] > f[2] \/ (e[2] = f[2] /\ Precedence(e[1]) > Precedence(f[1]))
        IN  outbox[k].st = "accepted" =>
                IF known = {} THEN outbox[k].delivery = <<"ACCEPTED", 0>>
                ELSE outbox[k].delivery \in known
                     /\ \A e \in known : ~Newer(e, outbox[k].delivery)

\* What the outbox promises its senders.
MessagesAreSound == NoteTypeOK /\ NeverSentTwice /\ OutcomeIsTrue /\ DeliveryIsLatest
=============================================================================
