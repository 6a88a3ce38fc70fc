---------------------------- MODULE DeviceControl ----------------------------
(***************************************************************************)
(* Remote sync commands of one device (internal/devicecontrol/service.go,  *)
(* internal/adapter/postgres/device_control.go): the dashboard creates a   *)
(* sync_now command, the device polls for it under a lease, accepts it,    *)
(* reports that it runs and how it ended.                                  *)
(*                                                                         *)
(* Every call reads, decides and writes in statements of their own, with   *)
(* no transaction around them; calls run concurrently, so what a call has  *)
(* read may be stale when it writes.  The device is not modelled: any      *)
(* accept or report may arrive, late, repeated or contradictory.  Every    *)
(* statement is bound to the authenticated device, so one is enough.       *)
(***************************************************************************)
EXTENDS Naturals

CONSTANTS
    MaxCommands,    \* bound: commands ever created
    Keys,           \* idempotency keys
    Codes,          \* result codes of a failed sync
    Calls,          \* concurrent calls
    None

\* Commands are numbered in the order of their rows.
Commands == 1 .. MaxCommands

ASSUME ConstantsAssumption ==
    MaxCommands \in Nat /\ None \notin Commands \cup Keys \cup Codes

VARIABLES
    cmd,        \* device_control_commands
    call,       \* what each call asks
    pc,
    found,      \* the command the call answers with
    answer,
    delivered   \* history: the commands whose poll answer reached the device

vars == <<cmd, call, pc, found, answer, delivered>>
-----------------------------------------------------------------------------
Terminals == {"completed", "failed"}
Active == {"pending", "leased", "accepted", "running"}
Statuses == {"none"} \cup Active \cup Terminals

\* completed goes with SYNC_COMPLETED only, failed with the other codes.
Outcomes == {<<"completed", None>>} \cup {<<"failed", code>> : code \in Codes}

\* live: the lease still runs.  It is read of leased rows only, and kept for
\* no other.
CommandRows == [st : Statuses, key : Keys \cup {None}, code : Codes \cup {None},
                live : BOOLEAN]
NoCommand == [st |-> "none", key |-> None, code |-> None, live |-> FALSE]

Asks ==
    [op : {"create"}, key : Keys]
    \cup [op : {"poll"}]
    \cup [op : {"accept", "running"}, id : Commands]
    \cup [op : {"terminal"}, id : Commands, outcome : Outcomes]
NoCall == [op |-> "none"]

Created == {c \in Commands : cmd[c].st # "none"}
ByKey(k) == {c \in Created : cmd[c].key = k}
ActiveNow == {c \in Commands : cmd[c].st \in Active}

\* Mutant: only the key is unique.
ViolatesKeyOnly(k) == ByKey(k) # {}

\* The two unique indexes: one active command, one command per key.
Violates(k) == ActiveNow # {} \/ ByKey(k) # {}

\* Mutant: an expired lease is never claimed.
ClaimableOnce(c) == cmd[c].st = "pending"

\* ClaimControlCommand.
Claimable(c) == cmd[c].st = "pending" \/ (cmd[c].st = "leased" /\ ~cmd[c].live)

Rank(st) ==
    CASE st = "none" -> 0 [] st = "pending" -> 1 [] st = "leased" -> 2
      [] st = "accepted" -> 3 [] st = "running" -> 4 [] OTHER -> 5
-----------------------------------------------------------------------------
Init ==
    /\ cmd = [c \in Commands |-> NoCommand]
    /\ call = [x \in Calls |-> NoCall]
    /\ pc = [x \in Calls |-> "idle"]
    /\ found = [x \in Calls |-> None]
    /\ answer = [x \in Calls |-> "none"]
    /\ delivered = {}

Goto(x, label) ==
    /\ pc' = [pc EXCEPT ![x] = label]
    /\ UNCHANGED <<call, found, answer, delivered>>

Answer(x, a, c) ==
    /\ pc' = [pc EXCEPT ![x] = "answered"]
    /\ answer' = [answer EXCEPT ![x] = a]
    /\ found' = [found EXCEPT ![x] = c]
    /\ UNCHANGED <<call, delivered>>

\* The call ends; its answer has arrived, or is lost.
Hangup(x) ==
    /\ pc' = [pc EXCEPT ![x] = "idle"]
    /\ call' = [call EXCEPT ![x] = NoCall]
    /\ found' = [found EXCEPT ![x] = None]
    /\ answer' = [answer EXCEPT ![x] = "none"]
    /\ UNCHANGED cmd

Begin(x, ask) ==
    /\ pc[x] = "idle"
    /\ ask.op \in {"accept", "running", "terminal"} => ask.id \in Created
    /\ call' = [call EXCEPT ![x] = ask]
    /\ pc' = [pc EXCEPT ![x] = IF ask.op = "poll" THEN "claim" ELSE "read"]
    /\ UNCHANGED <<cmd, found, answer, delivered>>
-----------------------------------------------------------------------------
\* CreateSyncRequest.  The same key finds the command it created.
CreateFindsKey(x) ==
    /\ pc[x] = "read" /\ call[x].op = "create"
    /\ \/ /\ ByKey(call[x].key) = {}
          /\ Goto(x, "active")
       \/ \E c \in ByKey(call[x].key) : Answer(x, "ok", c)
    /\ UNCHANGED cmd

CreateFindsActive(x) ==
    /\ pc[x] = "active"
    /\ \/ ActiveNow = {} /\ Goto(x, "insert")
       \/ \E c \in ActiveNow : Answer(x, "conflict", c)
    /\ UNCHANGED cmd

CreateInserts(x) ==
    /\ pc[x] = "insert"
    /\ ~Violates(call[x].key)
    /\ \E c \in Commands \ Created :
        /\ \A d \in Commands \ Created : c <= d
        /\ cmd' = [cmd EXCEPT ![c] = [NoCommand EXCEPT !.st = "pending", !.key = call[x].key]]
        /\ Answer(x, "ok", c)

\* Another call inserted first: converge on what it left.
CreateLoses(x) ==
    /\ pc[x] = "insert"
    /\ Violates(call[x].key)
    /\ Goto(x, "rekey")
    /\ UNCHANGED cmd

CreateFindsKeyAgain(x) ==
    /\ pc[x] = "rekey"
    /\ \/ ByKey(call[x].key) = {} /\ Goto(x, "reactive")
       \/ \E c \in ByKey(call[x].key) : Answer(x, "ok", c)
    /\ UNCHANGED cmd

CreateFindsActiveAgain(x) ==
    /\ pc[x] = "reactive"
    /\ \/ ActiveNow = {} /\ Answer(x, "conflict", None)
       \/ \E c \in ActiveNow : Answer(x, "conflict", c)
    /\ UNCHANGED cmd
-----------------------------------------------------------------------------
\* PollClaim: claim and lease in one transaction.
PollLeases(x) ==
    /\ pc[x] = "claim"
    /\ \E c \in Commands :
        /\ Claimable(c)
        /\ cmd' = [cmd EXCEPT ![c].st = "leased", ![c].live = TRUE]
        /\ Answer(x, "ok", c)

\* Nothing to claim, or SKIP LOCKED passes over a row another call writes.
PollFindsNothing(x) ==
    /\ pc[x] = "claim"
    /\ \/ \A c \in Commands : ~Claimable(c)
       \/ \E y \in Calls \ {x} : pc[y] \in {"claim", "write"}
    /\ Answer(x, "ok", None)
    /\ UNCHANGED cmd

\* lease_until passes.
LeaseExpires(c) ==
    /\ cmd[c].st = "leased" /\ cmd[c].live
    /\ cmd' = [cmd EXCEPT ![c].live = FALSE]
    /\ UNCHANGED <<call, pc, found, answer, delivered>>
-----------------------------------------------------------------------------
Reports(x) == call[x].op \in {"accept", "running", "terminal"}

\* Mutant: a replay of the outcome is a conflict too.
VerdictConflict(x) == IF call[x].op = "terminal" THEN "conflict" ELSE "ok"

\* What a terminal row answers: a late accept or running is a no-op, another
\* outcome a conflict.
Verdict(x) ==
    IF call[x].op = "terminal" /\ cmd[call[x].id].st # call[x].outcome[1]
    THEN "conflict" ELSE "ok"

ReadReported(x) ==
    /\ pc[x] = "read" /\ Reports(x)
    /\ IF cmd[call[x].id].st \in Terminals
       THEN Answer(x, Verdict(x), call[x].id)
       ELSE Goto(x, "write")
    /\ UNCHANGED cmd

\* Mutant: an accept matches every active row.
MatchesActive(op) == Active

\* The statuses from which the UPDATE of an operation matches.
Matches(op) ==
    CASE op = "accept" -> {"pending", "leased", "accepted"}
      [] op = "running" -> Active
      [] op = "terminal" -> Active

NextRow(row, ask) ==
    CASE ask.op = "accept" -> [row EXCEPT !.st = "accepted", !.live = FALSE]
      [] ask.op = "running" -> [row EXCEPT !.st = "running", !.live = FALSE]
      [] ask.op = "terminal" ->
            [row EXCEPT !.st = ask.outcome[1], !.code = ask.outcome[2], !.live = FALSE]

WriteReported(x) ==
    LET c == call[x].id IN
    /\ pc[x] = "write"
    /\ \/ /\ cmd[c].st \in Matches(call[x].op)
          /\ cmd' = [cmd EXCEPT ![c] = NextRow(@, call[x])]
          /\ Answer(x, "ok", c)
       \/ /\ cmd[c].st \notin Matches(call[x].op)
          /\ Goto(x, "reread")
          /\ UNCHANGED cmd

\* Mutant: a report that matched nothing is answered as a replay.
RereadOk(x) ==
    /\ pc[x] = "reread"
    /\ Answer(x, "ok", call[x].id)
    /\ UNCHANGED cmd

\* Nothing matched: another call was first, and its row decides.
RereadReported(x) ==
    /\ pc[x] = "reread"
    /\ Answer(x, Verdict(x), call[x].id)
    /\ UNCHANGED cmd
-----------------------------------------------------------------------------
Hear(x) ==
    /\ pc[x] = "answered"
    /\ delivered' = IF call[x].op = "poll" /\ found[x] # None
                    THEN delivered \cup {found[x]} ELSE delivered
    /\ Hangup(x)

\* A statement fails before or after its effect, the process restarts, or
\* the answer is lost: whatever was written stays.
Fails(x) ==
    /\ pc[x] # "idle"
    /\ Hangup(x)
    /\ UNCHANGED delivered
-----------------------------------------------------------------------------
CallStep(x) ==
    \/ CreateFindsKey(x) \/ CreateFindsActive(x) \/ CreateInserts(x)
    \/ CreateLoses(x) \/ CreateFindsKeyAgain(x) \/ CreateFindsActiveAgain(x)
    \/ PollLeases(x) \/ PollFindsNothing(x)
    \/ ReadReported(x) \/ WriteReported(x) \/ RereadReported(x)
    \/ Hear(x)

Next ==
    \/ \E x \in Calls :
        \/ \E ask \in Asks : Begin(x, ask)
        \/ CallStep(x) \/ Fails(x)
    \/ \E c \in Commands : LeaseExpires(c)

Safe == Init /\ [][Next]_vars

DeviceHears(c) ==
    \E x \in Calls : call[x].op = "poll" /\ found[x] = c /\ Hear(x)

\* Calls are served, a device with control enabled keeps polling, neither
\* its polls nor their answers fail for ever, and the database's clock
\* passes every lease.
Spec ==
    /\ Safe
    /\ \A x \in Calls : WF_vars(CallStep(x))
    /\ SF_vars(\E x \in Calls : Begin(x, [op |-> "poll"]))
    /\ SF_vars(\E x \in Calls : PollLeases(x))
    /\ \A c \in Commands : SF_vars(DeviceHears(c)) /\ WF_vars(LeaseExpires(c))
-----------------------------------------------------------------------------
Labels == {"idle", "read", "active", "insert", "rekey", "reactive", "claim",
           "write", "reread", "answered"}

\* Every variable has its type, and an outcome goes with its code.
TypeOK ==
    /\ cmd \in [Commands -> CommandRows]
    /\ call \in [Calls -> Asks \cup {NoCall}]
    /\ pc \in [Calls -> Labels]
    /\ found \in [Calls -> Commands \cup {None}]
    /\ answer \in [Calls -> {"none", "ok", "conflict"}]
    /\ delivered \subseteq Commands
    /\ \A x \in Calls : pc[x] = "idle" <=> call[x] = NoCall
    /\ \A c \in Commands :
        cmd[c].st \in Terminals => <<cmd[c].st, cmd[c].code>> \in Outcomes

\* However many dashboards ask at once, there is one active command, and
\* one command for a key.
OneCommand ==
    /\ \A c, d \in ActiveNow : c = d
    /\ \A c, d \in Created : cmd[c].key = cmd[d].key => c = d

\* An ok is true: a created command carries the key that was asked, a report
\* answered ok has at least reached the row, and an outcome answered ok is
\* the durable one, although the row was read before it was written.
OkIsTrue ==
    \A x \in Calls : answer[x] = "ok" =>
        CASE call[x].op = "create" -> cmd[found[x]].key = call[x].key
          [] call[x].op = "accept" -> Rank(cmd[call[x].id].st) >= Rank("accepted")
          [] call[x].op = "running" -> Rank(cmd[call[x].id].st) >= Rank("running")
          [] call[x].op = "terminal" -> cmd[call[x].id].st = call[x].outcome[1]
          [] OTHER -> TRUE

\* A conflict is true as well: the command it is said of has ended otherwise.
ConflictIsTrue ==
    \A x \in Calls : answer[x] = "conflict" /\ call[x].op = "terminal" =>
        cmd[call[x].id].st \in Terminals \ {call[x].outcome[1]}

\* First terminal wins, and late accepts, reports and polls never take a
\* command back.
NeverRegresses ==
    [][\A c \in Commands :
        /\ Rank(cmd'[c].st) >= Rank(cmd[c].st)
        /\ cmd[c].st \in Terminals => cmd'[c] = cmd[c]]_vars

\* Again and again every command has been delivered, or was taken up without
\* that: neither a lost poll answer nor a restart between lease and answer
\* strands one (PollClaim).
EveryCommandIsDelivered ==
    []<>(\A c \in Created : c \in delivered \/ Rank(cmd[c].st) >= Rank("accepted"))
=============================================================================
