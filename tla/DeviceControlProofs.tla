------------------------- MODULE DeviceControlProofs -------------------------
(***************************************************************************)
(* What DeviceControl guarantees for every number of concurrent calls,     *)
(* commands, keys and result codes.                                        *)
(***************************************************************************)
EXTENDS DeviceControl, TLAPS

CmdType ==
    /\ cmd \in [Commands -> CommandRows]
    /\ \A c \in Commands :
        cmd[c].st \in Terminals => <<cmd[c].st, cmd[c].code>> \in Outcomes

CallType ==
    /\ call \in [Calls -> Asks \cup {NoCall}]
    /\ pc \in [Calls -> Labels]
    /\ found \in [Calls -> Commands \cup {None}]
    /\ answer \in [Calls -> {"none", "ok", "conflict"}]
    /\ delivered \subseteq Commands
    /\ \A x \in Calls : pc[x] = "idle" <=> call[x] = NoCall

LEMMA TypeParts == TypeOK <=> CmdType /\ CallType
  BY DEF TypeOK, CmdType, CallType

\* What a call asks, by its operation.
LEMMA AskParts ==
  ASSUME NEW ask \in Asks
  PROVE  /\ ask.op \in {"create", "poll", "accept", "running", "terminal"}
         /\ ask.op = "create" => ask.key \in Keys
         /\ ask.op \in {"accept", "running", "terminal"} => ask.id \in Commands
         /\ ask.op = "terminal" => ask.outcome \in Outcomes
         /\ ask # NoCall
<1>1. CASE ask \in [op : {"create"}, key : Keys]
  BY <1>1 DEF NoCall
<1>2. CASE ask \in [op : {"poll"}]
  BY <1>2 DEF NoCall
<1>3. CASE ask \in [op : {"accept", "running"}, id : Commands]
  BY <1>3 DEF NoCall
<1>4. CASE ask \in [op : {"terminal"}, id : Commands, outcome : Outcomes]
  BY <1>4 DEF NoCall
<1>5. QED BY <1>1, <1>2, <1>3, <1>4 DEF Asks

LEMMA CallParts ==
  ASSUME CallType, NEW x \in Calls
  PROVE  /\ call[x].op = "create" => call[x].key \in Keys
         /\ Reports(x) => call[x].id \in Commands
         /\ call[x].op = "terminal" => call[x].outcome \in Outcomes
         /\ pc[x] # "idle" => call[x] \in Asks
<1>1. CASE call[x] = NoCall
  BY <1>1 DEF CallType, NoCall, Reports
<1>2. CASE call[x] \in Asks
  BY <1>2, AskParts DEF CallType, Reports
<1>3. QED BY <1>1, <1>2 DEF CallType

LEMMA OutcomeParts ==
  ASSUME NEW o \in Outcomes
  PROVE  /\ o[1] \in Terminals /\ o[2] \in Codes \cup {None}
         /\ <<o[1], o[2]>> \in Outcomes
  BY DEF Outcomes, Terminals
-----------------------------------------------------------------------------
(* What a step does to a command: nothing, a legal move of its row, or its *)
(* creation while no other is active.                                      *)

Kept(r, s) ==
    \/ s = r
    \/ /\ r.st \in Active /\ s.st \in Active \cup Terminals
       /\ Rank(s.st) >= Rank(r.st)
       /\ Rank(r.st) >= Rank("accepted") => Rank(s.st) >= Rank("accepted")
       /\ s.key = r.key
       /\ s.st \in Active => s.code = r.code
       /\ s \in CommandRows
       /\ s.st \in Terminals => <<s.st, s.code>> \in Outcomes

Creation(x, c) ==
    /\ pc[x] = "insert"
    /\ c \in Commands \ Created
    /\ ~Violates(call[x].key)
    /\ cmd' = [cmd EXCEPT ![c] = [NoCommand EXCEPT !.st = "pending", !.key = call[x].key]]
    /\ Answer(x, "ok", c)

LEMMA PollKeeps ==
  ASSUME CmdType, NEW x \in Calls, PollLeases(x), NEW d \in Commands
  PROVE  Kept(cmd[d], cmd'[d])
<1>1. PICK c \in Commands :
        Claimable(c) /\ cmd' = [cmd EXCEPT ![c].st = "leased", ![c].live = TRUE]
  BY DEF PollLeases
<1>2. cmd[c] \in CommandRows /\ cmd[d] \in CommandRows
  BY DEF CmdType
<1>3. CASE d # c
  BY <1>1, <1>3 DEF CmdType, Kept
<1>4. CASE d = c
  <2>1. cmd'[c] = [cmd[c] EXCEPT !.st = "leased", !.live = TRUE]
    BY <1>1 DEF CmdType
  <2>2. cmd[c].st \in {"pending", "leased"}
    BY <1>1 DEF Claimable
  <2>3. cmd'[c] \in CommandRows /\ cmd'[c].st = "leased"
        /\ cmd'[c].key = cmd[c].key /\ cmd'[c].code = cmd[c].code
    BY <2>1, <1>2 DEF CommandRows, Statuses, Active
  <2>4. Rank(cmd'[c].st) >= Rank(cmd[c].st)
        /\ ~(Rank(cmd[c].st) >= Rank("accepted"))
    BY <2>2, <2>3 DEF Rank
  <2>5. QED BY <1>4, <2>2, <2>3, <2>4 DEF Kept, Active, Terminals
<1>5. QED BY <1>3, <1>4

LEMMA ExpiryKeeps ==
  ASSUME CmdType, NEW c \in Commands, LeaseExpires(c), NEW d \in Commands
  PROVE  Kept(cmd[d], cmd'[d])
<1>1. cmd[c] \in CommandRows /\ cmd[d] \in CommandRows
  BY DEF CmdType
<1>2. CASE d # c
  BY <1>2 DEF CmdType, Kept, LeaseExpires
<1>3. CASE d = c
  <2>1. cmd'[c] = [cmd[c] EXCEPT !.live = FALSE]
    BY DEF CmdType, LeaseExpires
  <2>2. cmd[c].st = "leased"
    BY DEF LeaseExpires
  <2>3. cmd'[c] \in CommandRows /\ cmd'[c].st = "leased"
        /\ cmd'[c].key = cmd[c].key /\ cmd'[c].code = cmd[c].code
    BY <2>1, <2>2, <1>1 DEF CommandRows
  <2>4. QED BY <1>3, <2>2, <2>3 DEF Kept, Active, Terminals, Rank
<1>4. QED BY <1>2, <1>3

\* A report only ever moves a row forward.
LEMMA NextRowKeeps ==
  ASSUME NEW r \in CommandRows, NEW ask \in Asks,
         ask.op \in {"accept", "running", "terminal"}, r.st \in Matches(ask.op)
  PROVE  Kept(r, NextRow(r, ask))
<1>1. CASE ask.op = "accept"
  <2>1. NextRow(r, ask) = [r EXCEPT !.st = "accepted", !.live = FALSE]
    BY <1>1 DEF NextRow
  <2>2. r.st \in {"pending", "leased", "accepted"}
    BY <1>1 DEF Matches
  <2>3. NextRow(r, ask) \in CommandRows /\ NextRow(r, ask).st = "accepted"
        /\ NextRow(r, ask).key = r.key /\ NextRow(r, ask).code = r.code
    BY <2>1 DEF CommandRows, Statuses, Active
  <2>4. Rank("accepted") >= Rank(r.st) /\ Rank("accepted") >= Rank("accepted")
    BY <2>2 DEF Rank
  <2>5. QED BY <2>2, <2>3, <2>4 DEF Kept, Active, Terminals
<1>2. CASE ask.op = "running"
  <2>1. NextRow(r, ask) = [r EXCEPT !.st = "running", !.live = FALSE]
    BY <1>2 DEF NextRow
  <2>2. r.st \in Active
    BY <1>2 DEF Matches
  <2>3. NextRow(r, ask) \in CommandRows /\ NextRow(r, ask).st = "running"
        /\ NextRow(r, ask).key = r.key /\ NextRow(r, ask).code = r.code
    BY <2>1 DEF CommandRows, Statuses, Active
  <2>4. Rank("running") >= Rank(r.st) /\ Rank("running") >= Rank("accepted")
    BY <2>2 DEF Rank, Active
  <2>5. QED BY <2>2, <2>3, <2>4 DEF Kept, Active, Terminals
<1>3. CASE ask.op = "terminal"
  <2>0. ask.outcome \in Outcomes
    BY <1>3, AskParts
  <2>o. ask.outcome[1] \in Terminals /\ ask.outcome[2] \in Codes \cup {None}
        /\ <<ask.outcome[1], ask.outcome[2]>> \in Outcomes
    BY <2>0, OutcomeParts
  <2>1. NextRow(r, ask) =
          [r EXCEPT !.st = ask.outcome[1], !.code = ask.outcome[2], !.live = FALSE]
    BY <1>3 DEF NextRow
  <2>2. r.st \in Active
    BY <1>3 DEF Matches
  <2>3. NextRow(r, ask) \in CommandRows /\ NextRow(r, ask).st = ask.outcome[1]
        /\ NextRow(r, ask).key = r.key /\ NextRow(r, ask).code = ask.outcome[2]
    BY <2>1, <2>o DEF CommandRows, Statuses
  <2>4. Rank(ask.outcome[1]) >= Rank(r.st) /\ Rank(ask.outcome[1]) >= Rank("accepted")
        /\ ask.outcome[1] \notin Active
    BY <2>2, <2>o DEF Rank, Active, Terminals
  <2>5. QED BY <2>o, <2>2, <2>3, <2>4 DEF Kept
<1>4. QED BY <1>1, <1>2, <1>3

\* The label of a call fits what it asks, and an answer is there exactly when
\* it is answered.
StageFitsAsk ==
    \A x \in Calls :
        /\ pc[x] \in {"active", "insert", "rekey", "reactive"} => call[x].op = "create"
        /\ pc[x] = "claim" => call[x].op = "poll"
        /\ pc[x] \in {"write", "reread"} => Reports(x)
        /\ answer[x] # "none" <=> pc[x] = "answered"

LEMMA WriteKeeps ==
  ASSUME CmdType, CallType, StageFitsAsk, NEW x \in Calls, WriteReported(x),
         NEW d \in Commands
  PROVE  Kept(cmd[d], cmd'[d])
<1>1. /\ pc[x] = "write" /\ Reports(x)
      /\ call[x] \in Asks /\ call[x].id \in Commands
  BY CallParts DEF WriteReported, StageFitsAsk
<1> DEFINE c == call[x].id
<1>2. CASE cmd' = cmd
  BY <1>2 DEF Kept
<1>3. CASE cmd[c].st \in Matches(call[x].op) /\ cmd' = [cmd EXCEPT ![c] = NextRow(@, call[x])]
  <2>1. CASE d # c
    BY <1>1, <1>3, <2>1 DEF CmdType, Kept
  <2>2. CASE d = c
    <3>1. cmd'[c] = NextRow(cmd[c], call[x]) /\ cmd[c] \in CommandRows
      BY <1>1, <1>3 DEF CmdType
    <3>2. Kept(cmd[c], NextRow(cmd[c], call[x]))
      BY <1>1, <1>3, <3>1, NextRowKeeps DEF Reports
    <3>3. QED BY <2>2, <3>1, <3>2
  <2>3. QED BY <2>1, <2>2
<1>4. QED BY <1>2, <1>3 DEF WriteReported

\* The steps of a call that leave every row as it is.
Unwritten(x) ==
    \/ \E ask \in Asks : Begin(x, ask)
    \/ CreateFindsKey(x) \/ CreateFindsActive(x) \/ CreateLoses(x)
    \/ CreateFindsKeyAgain(x) \/ CreateFindsActiveAgain(x)
    \/ PollFindsNothing(x) \/ ReadReported(x) \/ RereadReported(x)
    \/ Hear(x) \/ Fails(x)

LEMMA UnwrittenSteps ==
  ASSUME NEW x, Unwritten(x)
  PROVE  cmd' = cmd
  BY DEF Unwritten, Begin, CreateFindsKey, CreateFindsActive, CreateLoses,
     CreateFindsKeyAgain, CreateFindsActiveAgain, PollFindsNothing,
     ReadReported, RereadReported, Hear, Fails, Hangup

LEMMA CommandSteps ==
  ASSUME CmdType, CallType, StageFitsAsk, [Next]_vars
  PROVE  \/ \A d \in Commands : Kept(cmd[d], cmd'[d])
         \/ \E x \in Calls, c \in Commands : Creation(x, c)
<1>1. CASE cmd' = cmd
  BY <1>1 DEF Kept
<1>2. ASSUME NEW x \in Calls, PollLeases(x)
      PROVE  \A d \in Commands : Kept(cmd[d], cmd'[d])
  BY <1>2, PollKeeps
<1>3. ASSUME NEW x \in Calls, WriteReported(x)
      PROVE  \A d \in Commands : Kept(cmd[d], cmd'[d])
  BY <1>3, WriteKeeps
<1>4. ASSUME NEW c \in Commands, LeaseExpires(c)
      PROVE  \A d \in Commands : Kept(cmd[d], cmd'[d])
  BY <1>4, ExpiryKeeps
<1>5. ASSUME NEW x \in Calls, CreateInserts(x)
      PROVE  \E c \in Commands : Creation(x, c)
  BY <1>5 DEF CreateInserts, Creation
<1>6. ASSUME NEW x \in Calls, Unwritten(x)
      PROVE  cmd' = cmd
  BY <1>6, UnwrittenSteps
<1>7. CASE UNCHANGED vars
  BY <1>1, <1>7 DEF vars
<1>8. QED BY <1>1, <1>2, <1>3, <1>4, <1>5, <1>6, <1>7 DEF Next, CallStep, Unwritten

LEMMA CommandDomain ==
  ASSUME CmdType, CallType, StageFitsAsk, [Next]_vars
  PROVE  cmd' = [d \in Commands |-> cmd'[d]]
<1>1. CASE cmd' = cmd
  BY <1>1 DEF CmdType
<1>2. ASSUME NEW x \in Calls, PollLeases(x) \/ CreateInserts(x) \/ WriteReported(x)
      PROVE  cmd' = [d \in Commands |-> cmd'[d]]
  <2>1. CASE PollLeases(x)
    BY <2>1 DEF PollLeases, CmdType
  <2>2. CASE CreateInserts(x)
    BY <2>2 DEF CreateInserts, CmdType
  <2>3. CASE WriteReported(x)
    BY <2>3 DEF WriteReported, CmdType
  <2>4. QED BY <1>2, <2>1, <2>2, <2>3
<1>3. ASSUME NEW c \in Commands, LeaseExpires(c)
      PROVE  cmd' = [d \in Commands |-> cmd'[d]]
  BY <1>3 DEF LeaseExpires, CmdType
<1>4. ASSUME NEW x \in Calls, Unwritten(x)
      PROVE  cmd' = cmd
  BY <1>4, UnwrittenSteps
<1>5. QED BY <1>1, <1>2, <1>3, <1>4 DEF Next, CallStep, vars, Unwritten
-----------------------------------------------------------------------------
(* What a step does to the calls: one of them begins, goes on to a label,  *)
(* is answered, or ends.                                                   *)

Acts(x) == (\E ask \in Asks : Begin(x, ask)) \/ CallStep(x) \/ Fails(x)

GoesOn(x) ==
    \E label \in Labels \ {"idle", "answered"} :
        /\ Goto(x, label)
        /\ label \in {"active", "insert", "rekey", "reactive"} => call[x].op = "create"
        /\ label # "claim"
        /\ label \in {"write", "reread"} => Reports(x)

IsAnswered(x) ==
    \E a \in {"ok", "conflict"}, c \in Commands \cup {None} : Answer(x, a, c)

Ends(x) == Hangup(x) /\ delivered' \subseteq Commands

LEMMA GoesOnOrAnswered ==
  ASSUME CallType, StageFitsAsk, NEW x \in Calls,
         \/ CreateFindsKey(x) \/ CreateFindsActive(x) \/ CreateInserts(x)
         \/ CreateLoses(x) \/ CreateFindsKeyAgain(x) \/ CreateFindsActiveAgain(x)
         \/ PollLeases(x) \/ PollFindsNothing(x)
         \/ ReadReported(x) \/ WriteReported(x) \/ RereadReported(x)
  PROVE  pc[x] \notin {"idle", "answered"} /\ (GoesOn(x) \/ IsAnswered(x))
<1>1. CASE CreateFindsKey(x)
  <2>1. pc[x] = "read" /\ call[x].op = "create"
    BY <1>1 DEF CreateFindsKey
  <2>2. CASE Goto(x, "active")
    BY <2>1, <2>2 DEF GoesOn, Labels
  <2>3. CASE \E c \in ByKey(call[x].key) : Answer(x, "ok", c)
    BY <2>1, <2>3 DEF IsAnswered, ByKey, Created
  <2>4. QED BY <1>1, <2>1, <2>2, <2>3 DEF CreateFindsKey
<1>2. CASE CreateFindsActive(x)
  <2>1. pc[x] = "active" /\ call[x].op = "create"
    BY <1>2 DEF CreateFindsActive, StageFitsAsk
  <2>2. CASE Goto(x, "insert")
    BY <2>1, <2>2 DEF GoesOn, Labels
  <2>3. CASE \E c \in ActiveNow : Answer(x, "conflict", c)
    BY <2>1, <2>3 DEF IsAnswered, ActiveNow
  <2>4. QED BY <1>2, <2>1, <2>2, <2>3 DEF CreateFindsActive
<1>3. CASE CreateInserts(x)
  BY <1>3 DEF CreateInserts, IsAnswered
<1>4. CASE CreateLoses(x)
  <2>1. pc[x] = "insert" /\ call[x].op = "create"
    BY <1>4 DEF CreateLoses, StageFitsAsk
  <2>2. Goto(x, "rekey")
    BY <1>4 DEF CreateLoses
  <2>3. QED BY <2>1, <2>2 DEF GoesOn, Labels
<1>5. CASE CreateFindsKeyAgain(x)
  <2>1. pc[x] = "rekey" /\ call[x].op = "create"
    BY <1>5 DEF CreateFindsKeyAgain, StageFitsAsk
  <2>2. CASE Goto(x, "reactive")
    BY <2>1, <2>2 DEF GoesOn, Labels
  <2>3. CASE \E c \in ByKey(call[x].key) : Answer(x, "ok", c)
    BY <2>1, <2>3 DEF IsAnswered, ByKey, Created
  <2>4. QED BY <1>5, <2>1, <2>2, <2>3 DEF CreateFindsKeyAgain
<1>6. CASE CreateFindsActiveAgain(x)
  <2>1. CASE Answer(x, "conflict", None)
    BY <1>6, <2>1 DEF CreateFindsActiveAgain, IsAnswered
  <2>2. CASE \E c \in ActiveNow : Answer(x, "conflict", c)
    BY <1>6, <2>2 DEF CreateFindsActiveAgain, IsAnswered, ActiveNow
  <2>3. QED BY <1>6, <2>1, <2>2 DEF CreateFindsActiveAgain
<1>7. CASE PollLeases(x)
  BY <1>7 DEF PollLeases, IsAnswered
<1>8. CASE PollFindsNothing(x)
  BY <1>8 DEF PollFindsNothing, IsAnswered
<1>9. CASE ReadReported(x)
  <2>1. pc[x] = "read" /\ Reports(x) /\ call[x].id \in Commands
    BY <1>9, CallParts DEF ReadReported
  <2>2. CASE Goto(x, "write")
    BY <2>1, <2>2 DEF GoesOn, Labels
  <2>3. CASE Answer(x, Verdict(x), call[x].id)
    BY <2>1, <2>3 DEF IsAnswered, Verdict
  <2>4. QED BY <1>9, <2>1, <2>2, <2>3 DEF ReadReported
<1>10. CASE WriteReported(x)
  <2>1. pc[x] = "write" /\ Reports(x) /\ call[x].id \in Commands
    BY <1>10, CallParts DEF WriteReported, StageFitsAsk
  <2>2. CASE Goto(x, "reread")
    BY <2>1, <2>2 DEF GoesOn, Labels
  <2>3. CASE Answer(x, "ok", call[x].id)
    BY <2>1, <2>3 DEF IsAnswered
  <2>4. QED BY <1>10, <2>1, <2>2, <2>3 DEF WriteReported
<1>11. CASE RereadReported(x)
  <2>1. pc[x] = "reread" /\ Reports(x) /\ call[x].id \in Commands
    BY <1>11, CallParts DEF RereadReported, StageFitsAsk
  <2>2. Answer(x, Verdict(x), call[x].id)
    BY <1>11 DEF RereadReported
  <2>3. QED BY <2>1, <2>2 DEF IsAnswered, Verdict
<1>12. QED
  BY <1>1, <1>2, <1>3, <1>4, <1>5, <1>6, <1>7, <1>8, <1>9, <1>10, <1>11

LEMMA EndsSteps ==
  ASSUME CallType, NEW x \in Calls, Hear(x) \/ Fails(x)
  PROVE  pc[x] # "idle" /\ Ends(x)
<1>1. CASE Hear(x)
  BY <1>1 DEF Hear, Ends, CallType
<1>2. CASE Fails(x)
  BY <1>2 DEF Fails, Ends, CallType
<1>3. QED BY <1>1, <1>2

LEMMA CallShapes ==
  ASSUME CallType, StageFitsAsk, NEW x \in Calls, Acts(x)
  PROVE  \/ \E ask \in Asks : Begin(x, ask)
         \/ pc[x] \notin {"idle", "answered"} /\ (GoesOn(x) \/ IsAnswered(x))
         \/ pc[x] # "idle" /\ Ends(x)
<1>1. CASE \E ask \in Asks : Begin(x, ask)
  BY <1>1
<1>2. CASE Hear(x) \/ Fails(x)
  BY <1>2, EndsSteps
<1>3. CASE \/ CreateFindsKey(x) \/ CreateFindsActive(x) \/ CreateInserts(x)
           \/ CreateLoses(x) \/ CreateFindsKeyAgain(x) \/ CreateFindsActiveAgain(x)
           \/ PollLeases(x) \/ PollFindsNothing(x)
           \/ ReadReported(x) \/ WriteReported(x) \/ RereadReported(x)
  BY <1>3, GoesOnOrAnswered
<1>4. QED BY <1>1, <1>2, <1>3 DEF Acts, CallStep

LEMMA WhoActs ==
  ASSUME [Next]_vars
  PROVE  \/ \E x \in Calls : Acts(x)
         \/ UNCHANGED <<call, pc, found, answer, delivered>>
  BY DEF Next, Acts, LeaseExpires, vars

\* A call that does not act stays as it is.
LEMMA OthersStay ==
  ASSUME CallType, StageFitsAsk, NEW x \in Calls, Acts(x), NEW y \in Calls, y # x
  PROVE  call'[y] = call[y] /\ pc'[y] = pc[y] /\ found'[y] = found[y]
         /\ answer'[y] = answer[y]
<1>1. CASE \E ask \in Asks : Begin(x, ask)
  BY <1>1 DEF Begin, CallType
<1>2. CASE GoesOn(x)
  BY <1>2 DEF GoesOn, Goto, CallType
<1>3. CASE IsAnswered(x)
  BY <1>3 DEF IsAnswered, Answer, CallType
<1>4. CASE Ends(x)
  BY <1>4 DEF Ends, Hangup, CallType
<1>5. QED BY <1>1, <1>2, <1>3, <1>4, CallShapes

LEMMA CallTypeNext ==
  ASSUME CallType, StageFitsAsk, [Next]_vars
  PROVE  CallType' /\ StageFitsAsk'
<1>1. ASSUME NEW x \in Calls, NEW ask \in Asks, Begin(x, ask)
      PROVE  CallType' /\ StageFitsAsk'
  <2>1. ask # NoCall /\ ask.op \in {"create", "poll", "accept", "running", "terminal"}
    BY AskParts
  <2>2. /\ call' = [call EXCEPT ![x] = ask]
        /\ pc' = [pc EXCEPT ![x] = IF ask.op = "poll" THEN "claim" ELSE "read"]
        /\ found' = found /\ answer' = answer /\ delivered' = delivered
        /\ pc[x] = "idle"
    BY <1>1 DEF Begin
  <2>3. CallType'
    BY <2>1, <2>2 DEF CallType, Labels
  <2>4. StageFitsAsk'
    BY <2>1, <2>2 DEF CallType, StageFitsAsk, Reports
  <2>5. QED BY <2>3, <2>4
<1>2. ASSUME NEW x \in Calls, pc[x] \notin {"idle", "answered"}, GoesOn(x)
      PROVE  CallType' /\ StageFitsAsk'
  <2>1. PICK label \in Labels \ {"idle", "answered"} :
          /\ pc' = [pc EXCEPT ![x] = label]
          /\ UNCHANGED <<call, found, answer, delivered>>
          /\ label \in {"active", "insert", "rekey", "reactive"} => call[x].op = "create"
          /\ label # "claim"
          /\ label \in {"write", "reread"} => Reports(x)
    BY <1>2 DEF GoesOn, Goto
  <2>2. CallType'
    BY <1>2, <2>1 DEF CallType
  <2>3. StageFitsAsk'
    BY <1>2, <2>1 DEF CallType, StageFitsAsk, Reports
  <2>4. QED BY <2>2, <2>3
<1>3. ASSUME NEW x \in Calls, pc[x] \notin {"idle", "answered"}, IsAnswered(x)
      PROVE  CallType' /\ StageFitsAsk'
  <2>1. PICK a \in {"ok", "conflict"}, c \in Commands \cup {None} : Answer(x, a, c)
    BY <1>3 DEF IsAnswered
  <2>2. CallType'
    BY <1>3, <2>1 DEF Answer, CallType, Labels
  <2>3. StageFitsAsk'
    BY <1>3, <2>1 DEF Answer, CallType, StageFitsAsk, Reports
  <2>4. QED BY <2>2, <2>3
<1>4. ASSUME NEW x \in Calls, pc[x] # "idle", Ends(x)
      PROVE  CallType' /\ StageFitsAsk'
  <2>1. CallType'
    BY <1>4 DEF Ends, Hangup, CallType, Labels
  <2>2. StageFitsAsk'
    BY <1>4 DEF Ends, Hangup, CallType, StageFitsAsk, Reports
  <2>3. QED BY <2>1, <2>2
<1>5. CASE UNCHANGED <<call, pc, found, answer, delivered>>
  BY <1>5 DEF CallType, StageFitsAsk, Reports
<1>6. QED BY <1>1, <1>2, <1>3, <1>4, <1>5, WhoActs, CallShapes

LEMMA CmdTypeNext ==
  ASSUME CmdType, CallType, StageFitsAsk, [Next]_vars
  PROVE  CmdType'
<1>1. cmd' = [d \in Commands |-> cmd'[d]]
  BY CommandDomain
<1>2. CASE \A d \in Commands : Kept(cmd[d], cmd'[d])
  <2>1. ASSUME NEW d \in Commands
        PROVE  /\ cmd'[d] \in CommandRows
               /\ cmd'[d].st \in Terminals => <<cmd'[d].st, cmd'[d].code>> \in Outcomes
    BY <1>2, <2>1 DEF Kept, CmdType
  <2>2. cmd' \in [Commands -> CommandRows]
    BY <1>1, <2>1
  <2>3. QED BY <2>1, <2>2 DEF CmdType
<1>3. CASE \E x \in Calls, c \in Commands : Creation(x, c)
  <2>1. PICK x \in Calls, c \in Commands : Creation(x, c)
    BY <1>3
  <2>2. call[x].key \in Keys
    BY <2>1, CallParts DEF Creation, StageFitsAsk
  <2> DEFINE r == [NoCommand EXCEPT !.st = "pending", !.key = call[x].key]
  <2>3. r \in CommandRows /\ r.st \notin Terminals
    BY <2>2 DEF NoCommand, CommandRows, Statuses, Active, Terminals
  <2>4. cmd' = [cmd EXCEPT ![c] = r]
    BY <2>1 DEF Creation
  <2>5. QED BY <2>3, <2>4 DEF CmdType
<1>4. QED BY <1>2, <1>3, CommandSteps

LEMMA TypeInit == Init => TypeOK /\ StageFitsAsk
<1> SUFFICES ASSUME Init PROVE TypeOK /\ StageFitsAsk
  OBVIOUS
<1>1. NoCommand \in CommandRows /\ NoCommand.st \notin Terminals
  BY DEF NoCommand, CommandRows, Statuses, Terminals
<1>2. CmdType
  BY <1>1 DEF Init, CmdType
<1>3. CallType
  BY DEF Init, CallType, Labels
<1>4. StageFitsAsk
  BY DEF Init, StageFitsAsk, Reports
<1>5. QED BY <1>2, <1>3, <1>4, TypeParts

LEMMA TypeNext ==
  ASSUME TypeOK, StageFitsAsk, [Next]_vars
  PROVE  TypeOK' /\ StageFitsAsk'
<1>1. CmdType /\ CallType
  BY TypeParts
<1>2. CmdType' /\ CallType' /\ StageFitsAsk'
  BY <1>1, CmdTypeNext, CallTypeNext
<1>3. QED BY <1>2 DEF TypeOK, CmdType, CallType

\* Every reachable state is well typed, an outcome goes with its code, and a
\* call is under way exactly while it asks something (devicecontrol.go,
\* service.go).
THEOREM TypeCorrect == Safe => []TypeOK
<1>1. TypeOK /\ StageFitsAsk /\ [Next]_vars => (TypeOK /\ StageFitsAsk)'
  BY TypeNext
<1>2. QED BY TypeInit, <1>1, PTL DEF Safe
-----------------------------------------------------------------------------
(* Rows only go forward, whatever was read before they are written.        *)

Forward(r, s) ==
    /\ Rank(s.st) >= Rank(r.st)
    /\ r.st # "none" => s.st # "none" /\ s.key = r.key
    /\ r.st \in Terminals => s = r

LEMMA RowsGoForward ==
  ASSUME TypeOK, StageFitsAsk, [Next]_vars, NEW d \in Commands
  PROVE  Forward(cmd[d], cmd'[d])
<1>1. CmdType /\ CallType
  BY TypeParts
<1>2. CASE Kept(cmd[d], cmd'[d])
  BY <1>2 DEF Kept, Forward, Rank, Active, Terminals
<1>3. CASE \E x \in Calls, c \in Commands : Creation(x, c)
  <2>1. PICK x \in Calls, c \in Commands : Creation(x, c)
    BY <1>3
  <2>2. CASE d = c
    <3>1. cmd[c].st = "none"
      BY <2>1 DEF Creation, Created
    <3>2. cmd'[c].st = "pending"
      BY <1>1, <2>1 DEF Creation, CmdType, NoCommand
    <3>3. QED BY <2>2, <3>1, <3>2 DEF Forward, Rank, Terminals
  <2>3. CASE d # c
    <3>1. cmd'[d] = cmd[d]
      BY <1>1, <2>1, <2>3 DEF Creation, CmdType
    <3>2. QED BY <3>1 DEF Forward, Rank
  <2>4. QED BY <2>2, <2>3
<1>4. QED BY <1>1, <1>2, <1>3, CommandSteps

\* First terminal wins: no call and no expiry takes a command back, although
\* none of them holds a lock between its read and its write (service.go,
\* device_control.sql).
THEOREM CommandsNeverRegress == Safe => NeverRegresses
<1>1. TypeOK /\ StageFitsAsk /\ [Next]_vars =>
        [\A c \in Commands :
            /\ Rank(cmd'[c].st) >= Rank(cmd[c].st)
            /\ cmd[c].st \in Terminals => cmd'[c] = cmd[c]]_vars
  BY RowsGoForward DEF Forward
<1>2. TypeOK /\ StageFitsAsk /\ [Next]_vars => (TypeOK /\ StageFitsAsk)'
  BY TypeNext
<1>3. QED BY TypeInit, <1>1, <1>2, PTL DEF Safe, NeverRegresses

LEMMA OneCommandNext ==
  ASSUME TypeOK, StageFitsAsk, OneCommand, [Next]_vars
  PROVE  OneCommand'
<1>1. CmdType /\ CallType
  BY TypeParts
<1>2. CASE \A d \in Commands : Kept(cmd[d], cmd'[d])
  <2>1. ActiveNow' \subseteq ActiveNow
    BY <1>2 DEF ActiveNow, Kept
  <2>2. Created' = Created
    BY <1>2 DEF Created, Kept, Active, Terminals
  <2>3. \A d \in Created : cmd'[d].key = cmd[d].key
    BY <1>2 DEF Created, Kept
  <2>4. QED BY <2>1, <2>2, <2>3 DEF OneCommand
<1>3. CASE \E x \in Calls, c \in Commands : Creation(x, c)
  <2>1. PICK x \in Calls, c \in Commands : Creation(x, c)
    BY <1>3
  <2> DEFINE k == call[x].key
  <2>2. ActiveNow = {} /\ ByKey(k) = {}
    BY <2>1 DEF Creation, Violates
  <2>3. cmd'[c].key = k /\ \A d \in Commands \ {c} : cmd'[d] = cmd[d]
    BY <1>1, <2>1 DEF Creation, CmdType, NoCommand
  <2>4. ActiveNow' \subseteq {c} /\ Created' \subseteq Created \cup {c}
    BY <2>2, <2>3 DEF ActiveNow, Created
  <2>5. \A d \in Created' \ {c} : d \in Created /\ cmd'[d].key = cmd[d].key /\ cmd[d].key # k
    BY <2>2, <2>3, <2>4 DEF ByKey, Created
  <2>6. QED BY <2>3, <2>4, <2>5 DEF OneCommand
<1>4. QED BY <1>1, <1>2, <1>3, CommandSteps

\* However many calls create at once and whatever they had read, one command
\* is active and a key has one command: the indexes decide (migration 17).
THEOREM OneCommandAtATime == Safe => []OneCommand
<1>1. Init => OneCommand
  BY DEF Init, OneCommand, ActiveNow, Created, NoCommand, Active
<1>2. TypeOK /\ StageFitsAsk /\ OneCommand /\ [Next]_vars
        => (TypeOK /\ StageFitsAsk /\ OneCommand)'
  BY TypeNext, OneCommandNext
<1>3. QED BY TypeInit, <1>1, <1>2, PTL DEF Safe
-----------------------------------------------------------------------------
(* Answers.  What a call has established about its command stays true      *)
(* while it is under way, because rows only go forward.                    *)

CallHolds(x) ==
    /\ Reports(x) => call[x].id \in Created
    /\ pc[x] = "reread" => cmd[call[x].id].st \notin Matches(call[x].op)
    /\ answer[x] = "ok" /\ call[x].op = "create" =>
        found[x] \in Created /\ cmd[found[x]].key = call[x].key
    /\ answer[x] = "ok" /\ call[x].op = "accept" =>
        Rank(cmd[call[x].id].st) >= Rank("accepted")
    /\ answer[x] = "ok" /\ call[x].op = "running" =>
        Rank(cmd[call[x].id].st) >= Rank("running")
    /\ answer[x] = "ok" /\ call[x].op = "terminal" =>
        cmd[call[x].id].st = call[x].outcome[1]
    /\ answer[x] = "conflict" /\ call[x].op = "terminal" =>
        cmd[call[x].id].st \in Terminals \ {call[x].outcome[1]}

IInv == TypeOK /\ StageFitsAsk /\ \A x \in Calls : CallHolds(x)

LEMMA TrueAnswers == IInv => OkIsTrue /\ ConflictIsTrue
<1> SUFFICES ASSUME IInv, NEW x \in Calls
             PROVE  /\ answer[x] = "ok" =>
                        CASE call[x].op = "create" -> cmd[found[x]].key = call[x].key
                          [] call[x].op = "accept" ->
                                Rank(cmd[call[x].id].st) >= Rank("accepted")
                          [] call[x].op = "running" ->
                                Rank(cmd[call[x].id].st) >= Rank("running")
                          [] call[x].op = "terminal" ->
                                cmd[call[x].id].st = call[x].outcome[1]
                          [] OTHER -> TRUE
                    /\ answer[x] = "conflict" /\ call[x].op = "terminal" =>
                        cmd[call[x].id].st \in Terminals \ {call[x].outcome[1]}
  BY DEF OkIsTrue, ConflictIsTrue
<1>1. CallHolds(x)
  BY DEF IInv
<1>2. QED BY <1>1 DEF CallHolds

LEMMA RankOrder ==
  ASSUME NEW st \in Statuses
  PROVE  /\ Rank(st) \in Nat
         /\ Rank(st) >= Rank("running") <=> st \in {"running"} \cup Terminals
         /\ st \in Terminals => Rank(st) >= Rank("accepted") /\ Rank(st) >= Rank("running")
  BY DEF Rank, Statuses, Active, Terminals

LEMMA MatchesOf ==
  ASSUME NEW st \in Statuses \ {"none"}
  PROVE  /\ st \notin Matches("accept") <=> st \in {"running"} \cup Terminals
         /\ st \notin Matches("running") <=> st \in Terminals
         /\ st \notin Matches("terminal") <=> st \in Terminals
  BY DEF Matches, Statuses, Active, Terminals

LEMMA ReportOps ==
  ASSUME NEW x
  PROVE  Reports(x) <=> \/ call[x].op = "accept" \/ call[x].op = "running"
                         \/ call[x].op = "terminal"
  BY DEF Reports

\* A call that does not act keeps what it has established.
LEMMA HoldsStays ==
  ASSUME TypeOK, StageFitsAsk, [Next]_vars, NEW x \in Calls, CallHolds(x),
         call'[x] = call[x], pc'[x] = pc[x], found'[x] = found[x], answer'[x] = answer[x]
  PROVE  CallHolds(x)'
<1>1. CmdType /\ CallType /\ CmdType' /\ CallType'
  BY TypeParts, TypeNext DEF TypeOK, CmdType, CallType
<1>2. \A d \in Commands :
        /\ Forward(cmd[d], cmd'[d])
        /\ cmd[d].st \in Statuses /\ cmd'[d].st \in Statuses
  BY <1>1, RowsGoForward DEF CmdType, CommandRows
<1>3. CASE Reports(x)
  <2> DEFINE c == call[x].id
  <2>1. c \in Created /\ c \in Commands
    BY <1>3 DEF CallHolds, Created
  <2>2. Forward(cmd[c], cmd'[c]) /\ cmd[c].st \in Statuses /\ cmd'[c].st \in Statuses
        /\ cmd[c].st # "none" /\ cmd'[c].st # "none"
    BY <1>2, <2>1 DEF Created, Forward
  <2>3. c \in Created'
    BY <2>1, <2>2 DEF Created
  <2>4. call[x].op # "create"
    BY <1>3 DEF Reports
  <2>5. ASSUME pc[x] = "reread"
        PROVE  cmd'[c].st \notin Matches(call[x].op)
    <3>1. cmd[c].st \notin Matches(call[x].op)
      BY <2>5 DEF CallHolds
    <3>2. CASE call[x].op = "accept"
      <4>1. Rank(cmd[c].st) >= Rank("running")
        BY <2>2, <3>1, <3>2, MatchesOf, RankOrder
      <4>2. Rank(cmd'[c].st) >= Rank("running")
        BY <2>2, <4>1, RankOrder DEF Forward, Rank
      <4>3. QED BY <2>2, <3>2, <4>2, MatchesOf, RankOrder
    <3>3. CASE call[x].op \in {"running", "terminal"}
      <4>1. cmd[c].st \in Terminals
        BY <2>2, <3>1, <3>3, MatchesOf
      <4>2. QED BY <2>2, <3>1, <4>1 DEF Forward
    <3>4. QED BY <1>3, <3>2, <3>3, ReportOps
  <2>6. Rank(cmd[c].st) >= Rank("accepted") => Rank(cmd'[c].st) >= Rank("accepted")
    BY <2>2 DEF Forward, Rank
  <2>7. Rank(cmd[c].st) >= Rank("running") => Rank(cmd'[c].st) >= Rank("running")
    BY <2>2 DEF Forward, Rank
  <2>8. cmd[c].st \in Terminals => cmd'[c] = cmd[c]
    BY <2>2 DEF Forward
  <2>9. call[x].op = "terminal" => call[x].outcome[1] \in Terminals
    BY <1>1, CallParts, OutcomeParts
  <2>10. QED
    BY <1>3, <2>3, <2>4, <2>5, <2>6, <2>7, <2>8, <2>9 DEF CallHolds, Reports
<1>4. CASE ~Reports(x)
  <2>1. pc[x] # "reread"
    BY <1>4 DEF StageFitsAsk
  <2>2. ASSUME answer[x] = "ok", call[x].op = "create"
        PROVE  found[x] \in Created' /\ cmd'[found[x]].key = call[x].key
    <3>1. found[x] \in Created /\ cmd[found[x]].key = call[x].key
      BY <2>2 DEF CallHolds
    <3>2. QED BY <1>2, <3>1 DEF Created, Forward
  <2>3. QED BY <1>4, <2>1, <2>2 DEF CallHolds, Reports
<1>5. QED BY <1>3, <1>4

\* Created commands stay.
LEMMA CreatedStays ==
  ASSUME TypeOK, StageFitsAsk, [Next]_vars
  PROVE  Created \subseteq Created'
  BY RowsGoForward DEF Forward, Created

LEMMA BeginHolds ==
  ASSUME TypeOK, StageFitsAsk, NEW x \in Calls, NEW ask \in Asks, Begin(x, ask)
  PROVE  CallHolds(x)'
<1>1. CallType
  BY TypeParts
<1>2. /\ call'[x] = ask /\ pc'[x] \in {"claim", "read"}
      /\ answer'[x] = "none" /\ cmd' = cmd
  BY <1>1 DEF Begin, CallType, StageFitsAsk
<1>3. Created' = Created
  BY <1>2 DEF Created
<1>4. ask.op \in {"accept", "running", "terminal"} => ask.id \in Created
  BY DEF Begin
<1>5. QED BY <1>2, <1>3, <1>4 DEF CallHolds, Reports

\* A call that goes on to any label but the reread has nothing to answer for.
LEMMA GotoHolds ==
  ASSUME TypeOK, StageFitsAsk, [Next]_vars, NEW x \in Calls, CallHolds(x),
         pc[x] # "answered", NEW label, label # "reread", Goto(x, label)
  PROVE  CallHolds(x)'
<1>1. CallType
  BY TypeParts
<1>2. call' = call /\ pc'[x] = label /\ answer'[x] = "none"
  BY <1>1 DEF Goto, CallType, StageFitsAsk
<1>3. Created \subseteq Created'
  BY CreatedStays
<1>4. QED BY <1>2, <1>3 DEF CallHolds, Reports

\* A create or a poll answers for nothing but the command it created or found.
LEMMA CreateAnswerHolds ==
  ASSUME TypeOK, StageFitsAsk, NEW x \in Calls, call[x].op \in {"create", "poll"},
         NEW a, NEW c, Answer(x, a, c),
         a = "ok" /\ call[x].op = "create" => c \in Created' /\ cmd'[c].key = call[x].key
  PROVE  CallHolds(x)'
<1>1. CallType
  BY TypeParts
<1>2. call' = call /\ pc'[x] = "answered" /\ answer'[x] = a /\ found'[x] = c
  BY <1>1 DEF Answer, CallType
<1>3. QED BY <1>2 DEF CallHolds, Reports

LEMMA CreateHolds ==
  ASSUME TypeOK, StageFitsAsk, [Next]_vars, NEW x \in Calls, CallHolds(x),
         \/ CreateFindsKey(x) \/ CreateFindsActive(x) \/ CreateInserts(x)
         \/ CreateLoses(x) \/ CreateFindsKeyAgain(x) \/ CreateFindsActiveAgain(x)
  PROVE  CallHolds(x)'
<1>1. CmdType /\ CallType
  BY TypeParts
<1>2. call[x].op = "create" /\ pc[x] # "answered"
  BY DEF CreateFindsKey, CreateFindsActive, CreateInserts, CreateLoses,
     CreateFindsKeyAgain, CreateFindsActiveAgain, StageFitsAsk
<1>3. CASE \E label \in {"active", "insert", "rekey", "reactive"} : Goto(x, label)
  BY <1>2, <1>3, GotoHolds
<1>4. CASE cmd' = cmd /\ \E c \in ByKey(call[x].key) : Answer(x, "ok", c)
  <2>1. PICK c \in ByKey(call[x].key) : Answer(x, "ok", c)
    BY <1>4
  <2>2. c \in Created' /\ cmd'[c].key = call[x].key
    BY <1>4, <2>1 DEF ByKey, Created
  <2>3. QED BY <1>2, <2>1, <2>2, CreateAnswerHolds
<1>5. CASE \E c : Answer(x, "conflict", c)
  BY <1>2, <1>5, CreateAnswerHolds
<1>6. CASE CreateInserts(x)
  <2>1. PICK c \in Commands \ Created :
          /\ cmd' = [cmd EXCEPT ![c] = [NoCommand EXCEPT !.st = "pending", !.key = call[x].key]]
          /\ Answer(x, "ok", c)
    BY <1>6 DEF CreateInserts
  <2>2. cmd'[c].st = "pending" /\ cmd'[c].key = call[x].key
    BY <1>1, <2>1 DEF CmdType, NoCommand
  <2>3. c \in Created'
    BY <2>2 DEF Created
  <2>4. QED BY <1>2, <2>1, <2>2, <2>3, CreateAnswerHolds
<1>7. QED
  BY <1>3, <1>4, <1>5, <1>6 DEF CreateFindsKey, CreateFindsActive, CreateLoses,
     CreateFindsKeyAgain, CreateFindsActiveAgain

LEMMA PollHolds ==
  ASSUME TypeOK, StageFitsAsk, NEW x \in Calls, PollLeases(x) \/ PollFindsNothing(x)
  PROVE  CallHolds(x)'
<1>1. call[x].op = "poll"
  BY DEF PollLeases, PollFindsNothing, StageFitsAsk
<1>2. \E c : Answer(x, "ok", c)
  BY DEF PollLeases, PollFindsNothing
<1>3. QED BY <1>1, <1>2, CreateAnswerHolds

\* The verdict on a row that can take no more of this report is true.
LEMMA VerdictHolds ==
  ASSUME TypeOK, StageFitsAsk, NEW x \in Calls, CallHolds(x), Reports(x),
         cmd[call[x].id].st \notin Matches(call[x].op),
         cmd' = cmd, Answer(x, Verdict(x), call[x].id)
  PROVE  CallHolds(x)'
<1>1. CmdType /\ CallType
  BY TypeParts
<1> DEFINE c == call[x].id
<1>2. c \in Created /\ c \in Commands /\ cmd[c].st \in Statuses \ {"none"}
  BY <1>1 DEF CallHolds, CmdType, CommandRows, Created
<1>3. /\ call' = call /\ pc'[x] = "answered" /\ answer'[x] = Verdict(x)
      /\ Created' = Created
  BY <1>1 DEF Answer, CallType, Created
<1>4. CASE call[x].op = "accept"
  <2>1. Rank(cmd[c].st) >= Rank("accepted")
    <3>1. cmd[c].st \in {"running"} \cup Terminals
      BY <1>2, <1>4, MatchesOf
    <3>2. QED BY <3>1 DEF Rank, Terminals
  <2>2. QED BY <1>2, <1>3, <1>4, <2>1 DEF CallHolds, Reports
<1>5. CASE call[x].op = "running"
  <2>1. Rank(cmd[c].st) >= Rank("running")
    BY <1>2, <1>5, MatchesOf, RankOrder
  <2>2. QED BY <1>2, <1>3, <1>5, <2>1 DEF CallHolds, Reports
<1>6. CASE call[x].op = "terminal"
  <2>1. cmd[c].st \in Terminals
    BY <1>2, <1>6, MatchesOf
  <2>2. Verdict(x) = IF cmd[c].st # call[x].outcome[1] THEN "conflict" ELSE "ok"
    BY <1>6 DEF Verdict
  <2>3. QED BY <1>2, <1>3, <1>6, <2>1, <2>2 DEF CallHolds, Reports
<1>7. QED BY <1>4, <1>5, <1>6, ReportOps

LEMMA NextRowStatus ==
  ASSUME NEW r \in CommandRows, NEW ask
  PROVE  /\ ask.op = "accept" => NextRow(r, ask).st = "accepted"
         /\ ask.op = "running" => NextRow(r, ask).st = "running"
         /\ ask.op = "terminal" => NextRow(r, ask).st = ask.outcome[1]
<1>1. ASSUME ask.op = "accept" PROVE NextRow(r, ask).st = "accepted"
  <2>1. NextRow(r, ask) = [r EXCEPT !.st = "accepted", !.live = FALSE]
    BY <1>1 DEF NextRow
  <2>2. QED BY <2>1 DEF CommandRows
<1>2. ASSUME ask.op = "running" PROVE NextRow(r, ask).st = "running"
  <2>1. NextRow(r, ask) = [r EXCEPT !.st = "running", !.live = FALSE]
    BY <1>2 DEF NextRow
  <2>2. QED BY <2>1 DEF CommandRows
<1>3. ASSUME ask.op = "terminal" PROVE NextRow(r, ask).st = ask.outcome[1]
  <2>1. NextRow(r, ask) =
          [r EXCEPT !.st = ask.outcome[1], !.code = ask.outcome[2], !.live = FALSE]
    BY <1>3 DEF NextRow
  <2>2. QED BY <2>1 DEF CommandRows
<1>4. QED BY <1>1, <1>2, <1>3

\* So is the ok of a report whose UPDATE matched.
LEMMA WriteHolds ==
  ASSUME TypeOK, StageFitsAsk, [Next]_vars, NEW x \in Calls, CallHolds(x), Reports(x),
         cmd[call[x].id].st \in Matches(call[x].op),
         cmd' = [cmd EXCEPT ![call[x].id] = NextRow(@, call[x])],
         Answer(x, "ok", call[x].id)
  PROVE  CallHolds(x)'
<1>1. CmdType /\ CallType
  BY TypeParts
<1> DEFINE c == call[x].id
<1>2. c \in Created /\ c \in Commands /\ cmd[c] \in CommandRows
  BY <1>1 DEF CallHolds, CmdType, Created
<1>3. /\ call' = call /\ pc'[x] = "answered" /\ answer'[x] = "ok"
      /\ c \in Created' /\ cmd'[c] = NextRow(cmd[c], call[x])
  BY <1>1, <1>2, CreatedStays DEF Answer, CallType, CmdType
<1>4. CASE call[x].op = "accept"
  <2>1. cmd'[c].st = "accepted"
    BY <1>2, <1>3, <1>4, NextRowStatus
  <2>2. Rank(cmd'[c].st) >= Rank("accepted")
    BY <2>1 DEF Rank
  <2>3. QED BY <1>3, <1>4, <2>2 DEF CallHolds, Reports
<1>5. CASE call[x].op = "running"
  <2>1. cmd'[c].st = "running"
    BY <1>2, <1>3, <1>5, NextRowStatus
  <2>2. Rank(cmd'[c].st) >= Rank("running")
    BY <2>1 DEF Rank
  <2>3. QED BY <1>3, <1>5, <2>2 DEF CallHolds, Reports
<1>6. CASE call[x].op = "terminal"
  <2>1. cmd'[c].st = call[x].outcome[1]
    BY <1>2, <1>3, <1>6, NextRowStatus
  <2>2. QED BY <1>3, <1>6, <2>1 DEF CallHolds, Reports
<1>7. QED BY <1>4, <1>5, <1>6, ReportOps

LEMMA ReportHolds ==
  ASSUME TypeOK, StageFitsAsk, [Next]_vars, NEW x \in Calls, CallHolds(x),
         ReadReported(x) \/ WriteReported(x) \/ RereadReported(x)
  PROVE  CallHolds(x)'
<1>1. CmdType /\ CallType
  BY TypeParts
<1>2. Reports(x) /\ pc[x] # "answered"
  BY DEF ReadReported, WriteReported, RereadReported, StageFitsAsk
<1> DEFINE c == call[x].id
<1>3. c \in Created /\ c \in Commands /\ cmd[c].st \in Statuses \ {"none"}
  BY <1>1, <1>2 DEF CallHolds, CmdType, CommandRows, Created
<1>4. CASE ReadReported(x)
  <2>1. CASE cmd[c].st \in Terminals
    <3>1. cmd[c].st \notin Matches(call[x].op)
      BY <1>2, <1>3, <2>1, MatchesOf, ReportOps
    <3>2. cmd' = cmd /\ Answer(x, Verdict(x), c)
      BY <1>4, <2>1 DEF ReadReported
    <3>3. QED BY <1>2, <3>1, <3>2, VerdictHolds
  <2>2. CASE cmd[c].st \notin Terminals
    <3>1. Goto(x, "write")
      BY <1>4, <2>2 DEF ReadReported
    <3>2. QED BY <1>2, <3>1, GotoHolds
  <2>3. QED BY <2>1, <2>2
<1>5. CASE WriteReported(x)
  <2>1. CASE cmd[c].st \in Matches(call[x].op)
    <3>1. cmd' = [cmd EXCEPT ![c] = NextRow(@, call[x])] /\ Answer(x, "ok", c)
      BY <1>5, <2>1 DEF WriteReported
    <3>2. QED BY <1>2, <2>1, <3>1, WriteHolds
  <2>2. CASE cmd[c].st \notin Matches(call[x].op)
    <3>1. Goto(x, "reread") /\ cmd' = cmd
      BY <1>5, <2>2 DEF WriteReported
    <3>2. call' = call /\ pc'[x] = "reread" /\ answer'[x] = "none" /\ Created' = Created
      BY <1>1, <1>2, <3>1 DEF Goto, CallType, StageFitsAsk, Created
    <3>3. QED BY <1>2, <1>3, <2>2, <3>1, <3>2 DEF CallHolds, Reports
  <2>3. QED BY <2>1, <2>2
<1>6. CASE RereadReported(x)
  <2>1. cmd' = cmd /\ Answer(x, Verdict(x), c) /\ cmd[c].st \notin Matches(call[x].op)
    BY <1>6 DEF RereadReported, CallHolds
  <2>2. QED BY <1>2, <2>1, VerdictHolds
<1>7. QED BY <1>4, <1>5, <1>6

LEMMA EndHolds ==
  ASSUME TypeOK, NEW x \in Calls, Hangup(x)
  PROVE  CallHolds(x)'
<1>1. CallType
  BY TypeParts
<1>2. call'[x] = NoCall /\ pc'[x] = "idle" /\ answer'[x] = "none"
  BY <1>1 DEF Hangup, CallType
<1>3. QED BY <1>2 DEF CallHolds, Reports, NoCall

LEMMA ActorHolds ==
  ASSUME TypeOK, StageFitsAsk, [Next]_vars, NEW x \in Calls, CallHolds(x), Acts(x)
  PROVE  CallHolds(x)'
<1>1. CASE \E ask \in Asks : Begin(x, ask)
  BY <1>1, BeginHolds
<1>2. CASE Fails(x) \/ Hear(x)
  BY <1>2, EndHolds DEF Fails, Hear
<1>3. CASE \/ CreateFindsKey(x) \/ CreateFindsActive(x) \/ CreateInserts(x)
           \/ CreateLoses(x) \/ CreateFindsKeyAgain(x) \/ CreateFindsActiveAgain(x)
  BY <1>3, CreateHolds
<1>4. CASE PollLeases(x) \/ PollFindsNothing(x)
  BY <1>4, PollHolds
<1>5. CASE ReadReported(x) \/ WriteReported(x) \/ RereadReported(x)
  BY <1>5, ReportHolds
<1>6. QED BY <1>1, <1>2, <1>3, <1>4, <1>5 DEF Acts, CallStep

LEMMA HoldsNext ==
  ASSUME IInv, [Next]_vars
  PROVE  IInv'
<1>1. TypeOK /\ StageFitsAsk /\ TypeOK' /\ StageFitsAsk' /\ CallType
  BY TypeNext, TypeParts DEF IInv
<1>2. ASSUME NEW y \in Calls
      PROVE  CallHolds(y)'
  <2>1. CallHolds(y)
    BY DEF IInv
  <2>2. CASE UNCHANGED <<call, pc, found, answer, delivered>>
    BY <1>1, <2>1, <2>2, HoldsStays
  <2>3. ASSUME NEW x \in Calls, Acts(x)
        PROVE  CallHolds(y)'
    <3>1. CASE y = x
      BY <1>1, <2>1, <2>3, <3>1, ActorHolds
    <3>2. CASE y # x
      <4>1. call'[y] = call[y] /\ pc'[y] = pc[y] /\ found'[y] = found[y]
            /\ answer'[y] = answer[y]
        BY <1>1, <2>3, <3>2, OthersStay
      <4>2. QED BY <1>1, <2>1, <4>1, HoldsStays
    <3>3. QED BY <3>1, <3>2
  <2>4. QED BY <2>2, <2>3, WhoActs
<1>3. QED BY <1>1, <1>2 DEF IInv

LEMMA HoldsInit == Init => IInv
<1>1. Init => TypeOK /\ StageFitsAsk
  BY TypeInit
<1>2. Init => \A x \in Calls : CallHolds(x)
  BY DEF Init, CallHolds, Reports, NoCall
<1>3. QED BY <1>1, <1>2 DEF IInv

\* An ok is true in every reachable state: the call's row still says what the
\* call was told, although read, write and answer are statements of their own
\* (service.go, Accept, ReportRunning, ReportTerminal, CreateSyncRequest).
THEOREM OkAnswersAreTrue == Safe => []OkIsTrue
<1>1. IInv /\ [Next]_vars => IInv'
  BY HoldsNext
<1>2. IInv => OkIsTrue
  BY TrueAnswers
<1>3. QED BY HoldsInit, <1>1, <1>2, PTL DEF Safe

\* A terminal report is refused only when the command has durably ended
\* otherwise, however the reports overtook one another (service.go,
\* ReportTerminal).
THEOREM ConflictAnswersAreTrue == Safe => []ConflictIsTrue
<1>1. IInv /\ [Next]_vars => IInv'
  BY HoldsNext
<1>2. IInv => ConflictIsTrue
  BY TrueAnswers
<1>3. QED BY HoldsInit, <1>1, <1>2, PTL DEF Safe
=============================================================================
