----------------------------- MODULE MCSyncInbox -----------------------------
(***************************************************************************)
(* Two devices.  Events 1 and 2 are device d1's; event 3 is d2's, reuses   *)
(* the id of 2 and brings another body with the same v1 hash; 1, like 4    *)
(* and 5, was accepted before exact hashes.                                *)
(***************************************************************************)
EXTENDS SyncInbox

CONSTANTS d1, d2, a, b, c

MCIdOf == [e \in Events |-> CASE e \in {1, 4} -> a [] e \in {2, 3} -> b [] OTHER -> c]
MCDeviceOf == [e \in Events |-> IF e = 3 THEN d2 ELSE d1]
MCBodyOf == [e \in Events |-> IF e = 3 THEN "other" ELSE "body"]
MCLegacyHash == [x \in Bodies |-> 0]
=============================================================================
