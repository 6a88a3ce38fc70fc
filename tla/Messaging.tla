------------------------------ MODULE Messaging ------------------------------
(***************************************************************************)
(* The notification outbox with everyone who enqueues into it at work at   *)
(* once: the runners of business reports, the engines of the operations,   *)
(* operators at the command line, and the dispatchers.                     *)
(*                                                                         *)
(* The senders share nothing but the outbox's table and, here, the bound   *)
(* on what goes wrong.  Their keys have prefixes of their own              *)
(* (businessreports.NotificationIdempotencyKey "business-report:" and      *)
(* operations.AlertIdempotencyKey "ops-alert:", each with the row ids);    *)
(* the command line takes the key it is given, which is taken not to be    *)
(* one of those.                                                           *)
(***************************************************************************)
EXTENDS ReportRuns, Operations

CONSTANT OutboxKeys     \* keys of the messages operators enqueue

Deliveries == Runs \X Recipients

ASSUME MessagingAssumption ==
    /\ OutboxKeys \subseteq Keys
    /\ OutboxKeys \cap (Deliveries \cup Alerts) = {} /\ Deliveries \cap Alerts = {}

messagingVars == <<noteVars, reportOnlyVars, opsOnlyVars>>

MessagingInit == ReportInit /\ OpsInit

MessagingNext ==
    \/ RunsNext /\ UNCHANGED opsOnlyVars
    \/ IncidentsNext /\ UNCHANGED reportOnlyVars
    \/ /\ DispatchNext \/ \E k \in OutboxKeys, c \in Contents : EnqueueNotification(k, c)
       /\ UNCHANGED <<reportOnlyVars, opsOnlyVars>>

MessagingSafe == MessagingInit /\ [][MessagingNext]_messagingVars
-----------------------------------------------------------------------------
\* What the outbox, the reports and the operations show is true of them.
MessagingIsSound == MessagesAreSound /\ RunsAreSound /\ OperationsAreSound

\* Nothing that was decided is undone, by whoever is late: no run, no recovery
\* and no alert.
DecisionsStay == ReportVerdictsStay /\ HealedOnlyWhenActive /\ DecidedStays
=============================================================================
