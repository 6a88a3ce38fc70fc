------------------------------- MODULE MCSync --------------------------------
(***************************************************************************)
(* What devices send, and how they come together with Cloud again after a  *)
(* restore.  Each behaviour plays one scene:                               *)
(*   inbox      the batches of MCSyncInbox;                                *)
(*   recovery   the walks of one device over the history of two sales,     *)
(*              while a restore or a mark by hand, late calls and lost     *)
(*              answers interfere;                                         *)
(*   again      a second restore, of the same backup or another.           *)
(***************************************************************************)
EXTENDS MCSyncInbox, SyncRecovery

CONSTANTS Scenes    \* those a run plays

VARIABLE scene

mcVars == <<scene, vars, recVars>>

Play(names, next, others) == scene \in names /\ next /\ UNCHANGED <<others, scene>>

AllOnOne == [e \in Sales |-> CHOOSE d \in Tills : TRUE]

RecoveryScenes == {"recovery", "again"}
-----------------------------------------------------------------------------
MCInit == scene \in Scenes /\ Init /\ RecInit

\* Of a single restore no later backup matters.
AsPlayed ==
    IF scene = "recovery" THEN restores' <= 1 /\ (restores = 1 => backup' = backup) ELSE lost' = 0

MCNext ==
    \/ Play({"inbox"}, Next, recVars)
    \/ Play(RecoveryScenes, RecoveryNext /\ AsPlayed, vars)

MCSafe == MCInit /\ [][MCNext]_mcVars

\* The fairness of SyncInbox; in a recovery a device goes on with its walk,
\* its calls are served and what it resends arrives.
MCSpec ==
    /\ MCSafe
    /\ \A h \in Handlers : WF_mcVars(Play({"inbox"}, HandlerStep(h), recVars))
    /\ \A e \in Events : SF_mcVars(Play({"inbox"}, Sends(e), recVars))
    /\ \A d \in Tills : SF_mcVars(Play(RecoveryScenes, Walks(d), vars))
    /\ \A x \in Works : WF_mcVars(Play(RecoveryScenes, Serve(x), vars))
    /\ \A e \in Sales : WF_mcVars(Play(RecoveryScenes, Deliver(e), vars))
-----------------------------------------------------------------------------
\* Again and again every event is answered, acknowledged or refused, although
\* batches in opposite orders deadlock and answers are lost (Ingest, and the
\* devices that send again).
EveryEventAnswered ==
    []<>(scene = "inbox" => acked \cup refused = Events)
=============================================================================
