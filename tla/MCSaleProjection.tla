-------------------------- MODULE MCSaleProjection --------------------------
(***************************************************************************)
(* Four events in received order: a v1 and a v2 event that claim the same  *)
(* sale, an invalid v3 event of that sale, and a v2 event of a sale of its *)
(* own.  Each behaviour plays one scene:                                   *)
(*   rivals    the events of the one sale and every instance, nothing is   *)
(*             rebuilt;                                                    *)
(*   rebuild   the two valid ones of them, every instance and a rebuild;   *)
(*   backlog   all events and one instance, whatever the operator does.    *)
(***************************************************************************)
EXTENDS SaleProjection

CONSTANTS s1, s2, Scenes

VARIABLE scene

mcVars == <<vars, scene>>

MCSaleOf == [e \in Events |-> IF e = 4 THEN s2 ELSE s1]
MCVersion == [e \in Events |-> CASE e = 1 -> "v1" [] e = 3 -> "v3" [] OTHER -> "v2"]
MCInvalid == {3} \cap Events

Story(name) ==
    CASE name = "rivals" -> {1, 2, 3} [] name = "rebuild" -> {1, 2} [] OTHER -> Events
Busy(w) == scene # "backlog" \/ w = CHOOSE v \in Workers : TRUE

MCInit == Init /\ scene \in Scenes

MCNext ==
    /\ \/ \E e \in Story(scene) : Ingest(e)
       \/ \E w \in Workers : Busy(w) /\ (WorkerStep(w) \/ WorkerFault(w))
       \/ \E e \in Events, p \in Processors : Passing(e, p) \/ ResetProcessing(e, p)
       \/ scene # "rivals" /\ (RebuildClear \/ RebuildReset)
    /\ UNCHANGED scene

\* The fairness of SaleProjection, for the instances of the scene.
MCSpec ==
    /\ MCInit /\ [][MCNext]_mcVars
    /\ \A w \in Workers : WF_mcVars(Busy(w) /\ WorkerStep(w) /\ UNCHANGED scene)
    /\ \A e \in Events, p \in Processors : WF_mcVars(Passing(e, p) /\ UNCHANGED scene)
    /\ WF_mcVars(RebuildReset /\ UNCHANGED scene)
=============================================================================
