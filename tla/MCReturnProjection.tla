------------------------- MODULE MCReturnProjection -------------------------
(***************************************************************************)
(* One sale of 3 pieces for 5.  Event 1 returns 2 pieces; event 2 claims   *)
(* the same return with another quantity; event 3 is a return of its own   *)
(* of 2 pieces, so that 1 and 3 do not fit together; event 4 fits the      *)
(* quantity left by event 1 and not the money; event 5 is of another       *)
(* store; event 6 is not valid.  A behaviour plays one of two scenes:      *)
(*   rivals    events 1 to 3 and every worker, nothing is rebuilt;         *)
(*   rebuild   events 1, 4, 5 and 6, one worker and rebuilds.              *)
(***************************************************************************)
EXTENDS ReturnProjection

CONSTANTS s1, r1, r2, r3, r4, Scenes

VARIABLE scene

mcVars == <<vars, scene>>

MCReturnOf == [e \in Events |-> CASE e \in {1, 2} -> r1 [] e = 3 -> r2
                                  [] e = 4 -> r3 [] OTHER -> r4]
MCSaleOf == [e \in Events |-> s1]
MCQty == [e \in Events |-> CASE e \in {1, 3} -> 2 [] OTHER -> 1]
MCRefund == [e \in Events |-> CASE e = 4 -> 4 [] OTHER -> 2]
MCSold == [s \in Sales |-> 3]
MCTotal == [s \in Sales |-> 5]
MCMismatched == {5} \cap Events

Story(name) == IF name = "rivals" THEN {1, 2, 3} ELSE {1, 4, 5, 6}
Busy(w) == scene = "rivals" \/ w = CHOOSE v \in Workers : TRUE

MCInit == Init /\ scene \in Scenes

MCNext ==
    /\ \/ \E e \in Story(scene) : IngestReturn(e) \/ Due(e)
       \/ \E s \in Sales : IngestSale(s) \/ ProjectSale(s)
       \/ \E w \in Workers : Busy(w) /\ (WorkerStep(w) \/ WorkerFault(w))
       \/ scene = "rebuild" /\ (RebuildClear \/ RebuildReset)
    /\ UNCHANGED scene

MCSafe == MCInit /\ [][MCNext]_mcVars

\* Workers are scheduled, accepted sales are projected, time passes, and a
\* rebuild once begun is finished: its UPDATE queues for the locked rows, and
\* a lock queue is served in order, so it is not overtaken for ever.
MCSpec ==
    /\ MCSafe
    /\ \A w \in Workers : WF_mcVars(Busy(w) /\ WorkerStep(w) /\ UNCHANGED scene)
    /\ \A s \in Sales : WF_mcVars(ProjectSale(s) /\ UNCHANGED scene)
    /\ \A e \in Events : WF_mcVars(Due(e) /\ UNCHANGED scene)
    /\ SF_mcVars(RebuildReset /\ UNCHANGED scene)
=============================================================================
