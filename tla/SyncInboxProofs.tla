--------------------------- MODULE SyncInboxProofs ---------------------------
(***************************************************************************)
(* What SyncInbox guarantees for any devices, events, handlers and faults: *)
(* the answers are true, nothing is visible before its commit, a row has   *)
(* the store of its device, and accepted events stay as they are; and what *)
(* SyncRecovery guarantees after a restore of Cloud's database: a device   *)
(* whose mark is cleared has sold nothing that Cloud lacks.                *)
(***************************************************************************)
EXTENDS SyncInbox, SyncRecovery, FiniteSetTheorems, WellFoundedInduction, TLAPS

\* A batch is of one device, whose binding it read when it had one, and names
\* no id twice.
BatchOK(h) ==
    /\ \A e, f \in EventsOf(h) : DeviceOf[e] = DeviceOf[f] /\ (IdOf[e] = IdOf[f] => e = f)
    /\ \A e \in EventsOf(h) : store[h] \in {NoStore, binding[DeviceOf[e]]}

\* What a transaction has done is what it has passed; only an open one has
\* anything uncommitted, and its answer follows from the rows it met.
WorkOK(h) ==
    /\ wrote[h] \subseteq EventsOf(h)
    /\ \A i \in raised[h] : inbox[i] # NoRow
    /\ pc[h] # "insert" => wrote[h] = {} /\ raised[h] = {}
    /\ pc[h] = "insert" =>
        \A i \in 1 .. pos[h] - 1 : batch[h][i] \in wrote[h] \/ Holds(batch[h][i])
    /\ pc[h] = "answer" /\ answer[h] = "ok" => \A e \in EventsOf(h) : Holds(e)
    /\ pc[h] = "answer" /\ answer[h] = "reuse" =>
        pos[h] <= Len(batch[h]) /\ inbox[IdOf[Event(h)]] # NoRow /\ ~Holds(Event(h))

HandlersAreOK == \A h \in Handlers : BatchOK(h) /\ WorkOK(h)

OutboxesAreOwn == \A d \in Devices : \A e \in outbox[d] : DeviceOf[e] = d

Inv ==
    /\ TypeOK /\ InvisibleUntilCommit /\ StoreIsTrusted /\ AnswersAreTrue
    /\ HandlersAreOK /\ OutboxesAreOwn

\* What no step undoes.
RowsStay ==
    \A i \in Ids : inbox[i] # NoRow =>
        /\ inbox'[i] # NoRow
        /\ inbox'[i] = [inbox[i] EXCEPT !.exact = inbox'[i].exact]
        /\ inbox[i].exact => inbox'[i].exact
BindingsStay == \A d \in Devices : binding[d] # NoStore => binding'[d] = binding[d]
-----------------------------------------------------------------------------
LEMMA Parts ==
  ASSUME TypeOK, NEW h \in Handlers
  PROVE  /\ batch[h] \in Seq(Events) /\ Len(batch[h]) \in Nat
         /\ pos[h] \in Nat /\ pos[h] >= 1 /\ pos[h] <= Len(batch[h]) + 1
         /\ EventsOf(h) \subseteq Events /\ wrote[h] \subseteq Events
         /\ \A i \in 1 .. Len(batch[h]) : batch[h][i] \in EventsOf(h) /\ batch[h][i] \in Events
         /\ \A e \in EventsOf(h) : \E i \in 1 .. Len(batch[h]) : e = batch[h][i]
         /\ AtEvent(h) => Event(h) \in EventsOf(h) /\ Event(h) \in Events
<1>1. /\ batch[h] \in Seq(Events) /\ pos[h] \in 1 .. Len(batch[h]) + 1
      /\ wrote[h] \subseteq Events
  BY DEF TypeOK
<1>2. Len(batch[h]) \in Nat /\ DOMAIN batch[h] = 1 .. Len(batch[h])
      /\ \A i \in 1 .. Len(batch[h]) : batch[h][i] \in Events
  BY <1>1
<1>3. pos[h] \in Nat /\ pos[h] >= 1 /\ pos[h] <= Len(batch[h]) + 1
  BY <1>1, <1>2
<1>4. QED BY <1>1, <1>2, <1>3 DEF EventsOf, AtEvent, Event

\* A row as a commit makes it.
NewRow(e, s) == Row(e, s, TRUE)

LEMMA NewRowParts ==
  ASSUME NEW e \in Events, NEW s \in Stores \cup {NoStore}
  PROVE  /\ NewRow(e, s) \in Rows /\ NewRow(e, s) # NoRow
         /\ NewRow(e, s).dev = DeviceOf[e] /\ NewRow(e, s).body = BodyOf[e]
         /\ NewRow(e, s).store = s
<1>1. NewRow(e, s) \in Rows
  BY ConstantsAssumption DEF NewRow, Row, Rows
<1>2. NewRow(e, s) # NoRow
  BY <1>1, RowAssumption
<1>3. NewRow(e, s).dev = DeviceOf[e] /\ NewRow(e, s).body = BodyOf[e] /\ NewRow(e, s).store = s
  BY DEF NewRow, Row
<1>4. QED BY <1>1, <1>2, <1>3

LEMMA LegacyRowParts ==
  ASSUME NEW e \in Events
  PROVE  Row(e, NoStore, FALSE) \in Rows /\ Row(e, NoStore, FALSE).store = NoStore
  BY ConstantsAssumption DEF Row, Rows

\* A row that is there says the same of an event after every step.
LEMMA HoldsStays ==
  ASSUME TypeOK, RowsStay, NEW e \in Events, inbox[IdOf[e]] # NoRow
  PROVE  inbox'[IdOf[e]] # NoRow /\ (Holds(e)' <=> Holds(e))
<1>1. IdOf[e] \in Ids /\ inbox[IdOf[e]] \in Rows
  BY ConstantsAssumption DEF TypeOK
<1>2. inbox'[IdOf[e]].dev = inbox[IdOf[e]].dev /\ inbox'[IdOf[e]].body = inbox[IdOf[e]].body
      /\ inbox'[IdOf[e]] # NoRow
  BY <1>1 DEF RowsStay, Rows
<1>3. QED BY <1>2 DEF Holds

\* The handlers that do not move keep what is theirs.
LEMMA OthersKeep ==
  ASSUME TypeOK, RowsStay, BindingsStay, NEW g \in Handlers, BatchOK(g), WorkOK(g),
         binding \in [Devices -> Stores \cup {NoStore}],
         pc'[g] = pc[g], batch'[g] = batch[g], pos'[g] = pos[g], store'[g] = store[g],
         wrote'[g] = wrote[g], raised'[g] = raised[g], answer'[g] = answer[g]
  PROVE  BatchOK(g)' /\ WorkOK(g)'
<1>1. EventsOf(g)' = EventsOf(g) /\ EventsOf(g) \subseteq Events
  BY Parts DEF EventsOf
<1>2. BatchOK(g)'
  <2>1. \A e \in EventsOf(g) : store[g] \in {NoStore, binding'[DeviceOf[e]]}
    BY <1>1, ConstantsAssumption DEF BatchOK, BindingsStay
  <2>2. QED BY <1>1, <2>1 DEF BatchOK
<1>3. WorkOK(g)'
  <2>1. raised[g] \subseteq Ids
    BY DEF TypeOK
  <2>2. \A e \in Events : Holds(e) => Holds(e)'
    BY HoldsStays DEF Holds
  <2>3. \A i \in 1 .. pos[g] - 1 : batch[g][i] \in Events
    BY Parts
  <2>4. ASSUME pc[g] = "answer", answer[g] = "reuse"
        PROVE  pos[g] <= Len(batch[g]) /\ inbox'[IdOf[Event(g)]] # NoRow /\ ~Holds(Event(g))'
               /\ Event(g)' = Event(g)
    <3>1. pos[g] <= Len(batch[g]) /\ inbox[IdOf[Event(g)]] # NoRow /\ ~Holds(Event(g))
      BY <2>4 DEF WorkOK
    <3>2. Event(g) \in Events /\ Event(g)' = Event(g)
      BY <3>1, Parts DEF Event
    <3>3. QED BY <3>1, <3>2, HoldsStays DEF Holds
  <2>5. \A i \in raised[g] : inbox'[i] # NoRow
    BY <2>1 DEF WorkOK, RowsStay
  <2>6. pc[g] = "insert" =>
            \A i \in 1 .. pos[g] - 1 : batch[g][i] \in wrote[g] \/ Holds(batch[g][i])'
    BY <2>2, <2>3 DEF WorkOK
  <2>7. QED BY <1>1, <2>2, <2>4, <2>5, <2>6 DEF WorkOK
<1>4. QED BY <1>2, <1>3
-----------------------------------------------------------------------------
(* The answers and rows that are there outlast a step of the inbox.        *)

LEMMA AnswersStay ==
  ASSUME TypeOK, RowsStay, AnswersAreTrue, acked' = acked, refused' = refused
  PROVE  AnswersAreTrue'
<1>1. acked \subseteq Events /\ refused \subseteq Events
  BY DEF TypeOK
<1>2. QED
  BY <1>1, HoldsStays DEF AnswersAreTrue, AckedIsDurable, RefusedForCause, Holds

LEMMA RowsStayed ==
  ASSUME TypeOK, inbox' = inbox
  PROVE  RowsStay
<1> SUFFICES ASSUME NEW i \in Ids, inbox[i] # NoRow
             PROVE  inbox[i] = [inbox[i] EXCEPT !.exact = inbox[i].exact]
  BY DEF RowsStay
<1>1. inbox[i] \in Rows
  BY DEF TypeOK
<1>2. QED BY <1>1 DEF Rows

\* A handler that has no request has nothing to keep.
LEMMA IdleIsOK ==
  ASSUME NEW h \in Handlers, pc'[h] = "idle", batch'[h] = <<>>, wrote'[h] = {}, raised'[h] = {}
  PROVE  BatchOK(h)' /\ WorkOK(h)'
<1>1. EventsOf(h)' = {}
  BY DEF EventsOf
<1>2. QED BY <1>1 DEF BatchOK, WorkOK

Alone(h) ==
    \A g \in Handlers \ {h} :
        /\ pc'[g] = pc[g] /\ batch'[g] = batch[g] /\ pos'[g] = pos[g] /\ store'[g] = store[g]
        /\ wrote'[g] = wrote[g] /\ raised'[g] = raised[g] /\ answer'[g] = answer[g]

\* What is left to prove of a step of one handler.
LEMMA StepKeeps ==
  ASSUME Inv, NEW h \in Handlers, Alone(h), TypeOK', RowsStay, binding' = binding,
         \A d \in Devices : outbox'[d] \subseteq outbox[d],
         InvisibleUntilCommit', StoreIsTrusted', AnswersAreTrue', BatchOK(h)', WorkOK(h)'
  PROVE  Inv'
<1>1. BindingsStay /\ TypeOK /\ binding \in [Devices -> Stores \cup {NoStore}]
  BY DEF BindingsStay, Inv, TypeOK
<1>2. HandlersAreOK'
  <2> SUFFICES ASSUME NEW g \in Handlers PROVE BatchOK(g)' /\ WorkOK(g)'
    BY DEF HandlersAreOK
  <2>1. CASE g = h
    BY <2>1
  <2>2. CASE g # h
    <3>1. /\ pc'[g] = pc[g] /\ batch'[g] = batch[g] /\ pos'[g] = pos[g]
          /\ store'[g] = store[g] /\ wrote'[g] = wrote[g] /\ raised'[g] = raised[g]
          /\ answer'[g] = answer[g]
      BY <2>2 DEF Alone
    <3>2. BatchOK(g) /\ WorkOK(g)
      BY DEF Inv, HandlersAreOK
    <3>3. QED BY <1>1, <3>1, <3>2, OthersKeep
  <2>3. QED BY <2>1, <2>2
<1>3. OutboxesAreOwn'
  BY DEF Inv, OutboxesAreOwn
<1>4. QED BY <1>2, <1>3 DEF Inv

\* A step that leaves inbox and binding alone.
LEMMA TrustStays ==
  ASSUME StoreIsTrusted, inbox' = inbox, binding' = binding
  PROVE  StoreIsTrusted'
  BY DEF StoreIsTrusted

\* Of the handlers one may have given up what it wrote.
LEMMA InvisibleStays ==
  ASSUME InvisibleUntilCommit, inbox' = inbox,
         \A g \in Handlers : wrote'[g] \subseteq wrote[g]
  PROVE  InvisibleUntilCommit'
  BY DEF InvisibleUntilCommit
-----------------------------------------------------------------------------
LEMMA BatchParts ==
  ASSUME NEW d, NEW S \in SUBSET Events, NEW b \in Batches(S)
  PROVE  /\ b \in Seq(Events) /\ Len(b) \in Nat /\ Len(b) >= 1 /\ b # <<>>
         /\ \A i \in DOMAIN b : b[i] \in S
         /\ \A i, j \in DOMAIN b : i # j => IdOf[b[i]] # IdOf[b[j]]
<1>1. PICK n \in 1 .. MaxBatch : b \in [1 .. n -> S]
  BY DEF Batches
<1>2. n \in Nat /\ n >= 1
  BY <1>1, ConstantsAssumption
<1>3. b \in Seq(S) /\ Len(b) = n /\ DOMAIN b = 1 .. n
  BY <1>1, <1>2
<1>4. b \in Seq(Events)
  BY <1>3
<1>5. QED BY <1>1, <1>2, <1>3, <1>4 DEF Batches

LEMMA ReceiveKeeps ==
  ASSUME Inv, NEW h \in Handlers, NEW d \in Devices, NEW b \in Batches(outbox[d]),
         Receive(h, d, b)
  PROVE  Inv' /\ RowsStay
<1>1. /\ pc[h] = "idle" /\ pc' = [pc EXCEPT ![h] = "insert"]
      /\ batch' = [batch EXCEPT ![h] = b] /\ store' = [store EXCEPT ![h] = binding[d]]
      /\ UNCHANGED <<inbox, binding, outbox, acked, refused, pos, wrote, raised, answer, faults>>
  BY DEF Receive, device
<1>2. outbox[d] \subseteq Events /\ \A e \in outbox[d] : DeviceOf[e] = d
  BY DEF Inv, TypeOK, OutboxesAreOwn
<1>3. /\ b \in Seq(Events) /\ Len(b) \in Nat /\ Len(b) >= 1 /\ b # <<>>
      /\ \A i \in DOMAIN b : b[i] \in outbox[d]
      /\ \A i, j \in DOMAIN b : i # j => IdOf[b[i]] # IdOf[b[j]]
  BY <1>2, BatchParts
<1>4. /\ pc'[h] = "insert" /\ batch'[h] = b /\ store'[h] = binding[d] /\ pos'[h] = 1
      /\ wrote'[h] = {} /\ raised'[h] = {} /\ Alone(h)
  <2>1. batch[h] = <<>> /\ pos[h] = 1
    BY <1>1, Parts DEF Inv, TypeOK
  <2>2. wrote[h] = {} /\ raised[h] = {}
    BY <1>1 DEF Inv, HandlersAreOK, WorkOK
  <2>3. QED BY <1>1, <2>1, <2>2 DEF Inv, TypeOK, Alone
<1>5. TypeOK'
  <2>1. \A g \in Handlers : /\ batch'[g] \in Seq(Events) /\ pos'[g] \in 1 .. Len(batch'[g]) + 1
                            /\ pc'[g] = "idle" <=> batch'[g] = <<>>
    BY <1>1, <1>3, <1>4 DEF Inv, TypeOK, Alone
  <2>2. binding[d] \in Stores \cup {NoStore}
    BY DEF Inv, TypeOK
  <2>3. QED BY <1>1, <2>1, <2>2 DEF Inv, TypeOK
<1>6. RowsStay
  BY <1>1, RowsStayed DEF Inv
<1>7. InvisibleUntilCommit' /\ StoreIsTrusted' /\ AnswersAreTrue'
  BY <1>1, <1>6, InvisibleStays, TrustStays, AnswersStay DEF Inv
<1>8. BatchOK(h)'
  <2>1. EventsOf(h)' = {b[i] : i \in DOMAIN b}
    BY <1>4 DEF EventsOf
  <2>2. QED BY <1>1, <1>2, <1>3, <1>4, <2>1 DEF BatchOK
<1>9. WorkOK(h)'
  BY <1>4 DEF WorkOK
<1>10. QED BY <1>1, <1>4, <1>5, <1>6, <1>7, <1>8, <1>9, StepKeeps

LEMMA BindKeeps ==
  ASSUME Inv, NEW d \in Devices, NEW s \in Stores, Bind(d, s)
  PROVE  Inv' /\ RowsStay
<1>1. /\ binding[d] = NoStore /\ binding' = [binding EXCEPT ![d] = s]
      /\ UNCHANGED <<inbox, outbox, acked, refused, pc, batch, pos, store, wrote, raised,
                     answer, faults>>
  BY DEF Bind, device, request
<1>2. BindingsStay /\ binding \in [Devices -> Stores \cup {NoStore}]
  BY <1>1 DEF BindingsStay, Inv, TypeOK
<1>3. RowsStay
  BY <1>1, RowsStayed DEF Inv
<1>4. TypeOK'
  BY <1>1 DEF Inv, TypeOK
<1>5. StoreIsTrusted'
  <2>1. \A i \in Ids : inbox[i] # NoRow => inbox[i].dev \in Devices
    BY DEF Inv, TypeOK, Rows
  <2>2. QED BY <1>1, <1>2, <2>1 DEF Inv, StoreIsTrusted, BindingsStay
<1>6. InvisibleUntilCommit' /\ AnswersAreTrue' /\ OutboxesAreOwn'
  BY <1>1, <1>3, InvisibleStays, AnswersStay DEF Inv, OutboxesAreOwn
<1>7. HandlersAreOK'
  <2> SUFFICES ASSUME NEW g \in Handlers PROVE BatchOK(g)' /\ WorkOK(g)'
    BY DEF HandlersAreOK
  <2>1. BatchOK(g) /\ WorkOK(g)
    BY DEF Inv, HandlersAreOK
  <2>2. QED BY <1>1, <1>2, <1>3, <2>1, OthersKeep DEF Inv
<1>8. QED BY <1>3, <1>4, <1>5, <1>6, <1>7 DEF Inv
-----------------------------------------------------------------------------
LEMMA InsertKeeps ==
  ASSUME Inv, NEW h \in Handlers, InsertEvent(h)
  PROVE  Inv' /\ RowsStay
<1> DEFINE ev == Event(h)
<1>1. /\ AtEvent(h) /\ inbox[IdOf[ev]] = NoRow /\ WaitsFor(h) = {}
      /\ wrote' = [wrote EXCEPT ![h] = @ \cup {ev}] /\ pos' = [pos EXCEPT ![h] = @ + 1]
      /\ UNCHANGED <<inbox, binding, outbox, acked, refused, pc, batch, store, raised,
                     answer, faults>>
  BY DEF InsertEvent, Advance, Known, device
<1>2. /\ pc[h] = "insert" /\ ev \in EventsOf(h) /\ ev \in Events
      /\ pos[h] \in Nat /\ pos[h] >= 1 /\ pos[h] <= Len(batch[h]) /\ Len(batch[h]) \in Nat
  BY <1>1, Parts DEF AtEvent, Inv
<1>3. /\ wrote'[h] = wrote[h] \cup {ev} /\ pos'[h] = pos[h] + 1 /\ Alone(h)
      /\ EventsOf(h)' = EventsOf(h)
  BY <1>1 DEF Inv, TypeOK, Alone, EventsOf
<1>4. TypeOK'
  <2>1. \A g \in Handlers : pos'[g] \in 1 .. Len(batch'[g]) + 1
    BY <1>1, <1>2, <1>3 DEF Inv, TypeOK, Alone
  <2>2. wrote' \in [Handlers -> SUBSET Events]
    BY <1>1, <1>2 DEF Inv, TypeOK
  <2>3. QED BY <1>1, <2>1, <2>2 DEF Inv, TypeOK
<1>5. RowsStay
  BY <1>1, RowsStayed DEF Inv
<1>6. StoreIsTrusted' /\ AnswersAreTrue'
  BY <1>1, <1>5, TrustStays, AnswersStay DEF Inv
<1>7. InvisibleUntilCommit'
  <2>1. \A g \in Handlers \ {h} : \A f \in wrote[g] : IdOf[f] # IdOf[ev]
    BY <1>1 DEF WaitsFor
  <2>2. QED BY <1>1, <1>3, <2>1 DEF Inv, InvisibleUntilCommit, Alone
<1>8. BatchOK(h)'
  BY <1>1, <1>3 DEF Inv, HandlersAreOK, BatchOK
<1>9. WorkOK(h)'
  <2>1. WorkOK(h)
    BY DEF Inv, HandlersAreOK
  <2>2. ASSUME NEW i \in 1 .. pos'[h] - 1
        PROVE  batch[h][i] \in wrote'[h] \/ Holds(batch[h][i])'
    <3>1. i \in 1 .. pos[h] - 1 \/ i = pos[h]
      BY <1>2, <1>3
    <3>2. QED BY <1>1, <1>2, <1>3, <2>1, <3>1 DEF WorkOK, Event, Holds
  <2>3. QED BY <1>1, <1>2, <1>3, <2>1, <2>2 DEF WorkOK
<1>10. QED BY <1>1, <1>3, <1>4, <1>5, <1>6, <1>7, <1>8, <1>9, StepKeeps

LEMMA RecogniseKeeps ==
  ASSUME Inv, NEW h \in Handlers, Recognise(h)
  PROVE  Inv' /\ RowsStay
<1> DEFINE ev == Event(h)
<1>1. /\ AtEvent(h) /\ inbox[IdOf[ev]] # NoRow /\ Same(inbox[IdOf[ev]], ev)
      /\ raised' = [raised EXCEPT ![h] = IF Upgrades(h) THEN @ \cup {IdOf[ev]} ELSE @]
      /\ pos' = [pos EXCEPT ![h] = @ + 1]
      /\ UNCHANGED <<inbox, binding, outbox, acked, refused, pc, batch, store, wrote,
                     answer, faults>>
  BY DEF Recognise, Advance, Known, device
<1>2. /\ pc[h] = "insert" /\ ev \in EventsOf(h) /\ ev \in Events /\ IdOf[ev] \in Ids
      /\ pos[h] \in Nat /\ pos[h] >= 1 /\ pos[h] <= Len(batch[h]) /\ Len(batch[h]) \in Nat
  BY <1>1, Parts, ConstantsAssumption DEF AtEvent, Inv
<1>3. /\ raised'[h] \subseteq raised[h] \cup {IdOf[ev]} /\ pos'[h] = pos[h] + 1 /\ Alone(h)
      /\ EventsOf(h)' = EventsOf(h)
  BY <1>1 DEF Inv, TypeOK, Alone, EventsOf
<1>4. TypeOK'
  <2>1. \A g \in Handlers : pos'[g] \in 1 .. Len(batch'[g]) + 1
    BY <1>1, <1>2, <1>3 DEF Inv, TypeOK, Alone
  <2>2. raised' \in [Handlers -> SUBSET Ids]
    BY <1>1, <1>2 DEF Inv, TypeOK
  <2>3. QED BY <1>1, <2>1, <2>2 DEF Inv, TypeOK
<1>5. RowsStay
  BY <1>1, RowsStayed DEF Inv
<1>6. InvisibleUntilCommit' /\ StoreIsTrusted' /\ AnswersAreTrue'
  BY <1>1, <1>5, InvisibleStays, TrustStays, AnswersStay DEF Inv
<1>7. BatchOK(h)'
  BY <1>1, <1>3 DEF Inv, HandlersAreOK, BatchOK
<1>8. WorkOK(h)'
  <2>1. WorkOK(h)
    BY DEF Inv, HandlersAreOK
  <2>2. Holds(ev)
    BY <1>1 DEF Same, Holds
  <2>3. ASSUME NEW i \in 1 .. pos'[h] - 1
        PROVE  batch[h][i] \in wrote[h] \/ Holds(batch[h][i])'
    <3>1. i \in 1 .. pos[h] - 1 \/ i = pos[h]
      BY <1>2, <1>3
    <3>2. batch[h][i] \in wrote[h] \/ Holds(batch[h][i])
      BY <1>2, <2>1, <2>2, <3>1 DEF WorkOK, Event
    <3>3. QED BY <1>1, <3>2 DEF Holds
  <2>4. QED BY <1>1, <1>2, <1>3, <2>1, <2>3 DEF WorkOK
<1>9. QED BY <1>1, <1>3, <1>4, <1>5, <1>6, <1>7, <1>8, StepKeeps
-----------------------------------------------------------------------------
(* The ends of a transaction and of a request.                             *)

\* It fails, or is refused for a row of another identity.
LEMMA EndKeeps ==
  ASSUME Inv, NEW h \in Handlers, NEW a \in {"reuse", "unavailable"}, EndTransaction(h, a),
         pc[h] \in {"insert", "aborted"},
         a = "reuse" => AtEvent(h) /\ Known(h) # NoRow /\ ~Same(Known(h), Event(h)),
         UNCHANGED <<inbox, binding, device>>, faults' \in 0 .. MaxFaults
  PROVE  Inv' /\ RowsStay
<1>1. /\ pc' = [pc EXCEPT ![h] = "answer"] /\ answer' = [answer EXCEPT ![h] = a]
      /\ wrote' = [wrote EXCEPT ![h] = {}] /\ raised' = [raised EXCEPT ![h] = {}]
      /\ UNCHANGED <<inbox, binding, outbox, acked, refused, batch, pos, store>>
  BY DEF EndTransaction, device
<1>2. /\ pc'[h] = "answer" /\ answer'[h] = a /\ wrote'[h] = {} /\ raised'[h] = {}
      /\ Alone(h) /\ EventsOf(h)' = EventsOf(h) /\ Event(h)' = Event(h)
  BY <1>1 DEF Inv, TypeOK, Alone, EventsOf, Event
<1>3. TypeOK'
  BY <1>1 DEF Inv, TypeOK, Kinds
<1>4. RowsStay
  BY <1>1, RowsStayed DEF Inv
<1>5. \A g \in Handlers : wrote'[g] \subseteq wrote[g]
  BY <1>2 DEF Alone
<1>6. InvisibleUntilCommit' /\ StoreIsTrusted' /\ AnswersAreTrue'
  BY <1>1, <1>4, <1>5, InvisibleStays, TrustStays, AnswersStay DEF Inv
<1>7. BatchOK(h)'
  BY <1>1, <1>2 DEF Inv, HandlersAreOK, BatchOK
<1>8. WorkOK(h)'
  BY <1>1, <1>2 DEF WorkOK, AtEvent, Known, Same, Holds
<1>9. QED BY <1>1, <1>2, <1>3, <1>4, <1>6, <1>7, <1>8, StepKeeps

\* An upgrade fails: the transaction can only be rolled back.
LEMMA AbortKeeps ==
  ASSUME Inv, NEW h \in Handlers, AbortedByUpgrade(h), pc[h] = "insert",
         faults' \in 0 .. MaxFaults
  PROVE  Inv' /\ RowsStay
<1>1. /\ pc' = [pc EXCEPT ![h] = "aborted"]
      /\ wrote' = [wrote EXCEPT ![h] = {}] /\ raised' = [raised EXCEPT ![h] = {}]
      /\ UNCHANGED <<inbox, binding, outbox, acked, refused, batch, pos, store, answer>>
  BY DEF AbortedByUpgrade, device
<1>2. /\ pc'[h] = "aborted" /\ wrote'[h] = {} /\ raised'[h] = {}
      /\ Alone(h) /\ EventsOf(h)' = EventsOf(h)
  BY <1>1 DEF Inv, TypeOK, Alone, EventsOf
<1>3. TypeOK'
  BY <1>1 DEF Inv, TypeOK
<1>4. RowsStay
  BY <1>1, RowsStayed DEF Inv
<1>5. \A g \in Handlers : wrote'[g] \subseteq wrote[g]
  BY <1>2 DEF Alone
<1>6. InvisibleUntilCommit' /\ StoreIsTrusted' /\ AnswersAreTrue'
  BY <1>1, <1>4, <1>5, InvisibleStays, TrustStays, AnswersStay DEF Inv
<1>7. BatchOK(h)'
  BY <1>1, <1>2 DEF Inv, HandlersAreOK, BatchOK
<1>8. WorkOK(h)'
  BY <1>2 DEF WorkOK
<1>9. QED BY <1>1, <1>2, <1>3, <1>4, <1>6, <1>7, <1>8, StepKeeps

\* The request ends, answered or not; a device drops what is settled.
LEMMA LeaveKeeps ==
  ASSUME Inv, NEW h \in Handlers, EndRequest(h), UNCHANGED <<inbox, binding>>,
         TypeOK', AnswersAreTrue', \A d \in Devices : outbox'[d] \subseteq outbox[d]
  PROVE  Inv' /\ RowsStay
<1>1. /\ pc' = [pc EXCEPT ![h] = "idle"] /\ batch' = [batch EXCEPT ![h] = <<>>]
      /\ pos' = [pos EXCEPT ![h] = 1] /\ store' = [store EXCEPT ![h] = NoStore]
      /\ wrote' = [wrote EXCEPT ![h] = {}] /\ raised' = [raised EXCEPT ![h] = {}]
      /\ answer' = [answer EXCEPT ![h] = "none"]
  BY DEF EndRequest
<1>2. /\ pc'[h] = "idle" /\ batch'[h] = <<>> /\ wrote'[h] = {} /\ raised'[h] = {} /\ Alone(h)
  BY <1>1 DEF Inv, TypeOK, Alone
<1>3. RowsStay
  BY RowsStayed DEF Inv
<1>4. \A g \in Handlers : wrote'[g] \subseteq wrote[g]
  BY <1>2 DEF Alone
<1>5. InvisibleUntilCommit' /\ StoreIsTrusted'
  BY <1>4, InvisibleStays, TrustStays DEF Inv
<1>6. QED BY <1>2, <1>3, <1>5, IdleIsOK, StepKeeps

LEMMA LeaveTypes ==
  ASSUME Inv, NEW h \in Handlers, EndRequest(h), UNCHANGED <<inbox, binding>>,
         acked' \subseteq Events, refused' \subseteq Events,
         outbox' \in [Devices -> SUBSET Events], faults' \in 0 .. MaxFaults
  PROVE  TypeOK'
<1>1. batch' \in [Handlers -> Seq(Events)] /\ pos' \in [Handlers -> Nat]
  BY DEF Inv, TypeOK, EndRequest
<1>2. \A g \in Handlers : /\ pos'[g] \in 1 .. Len(batch'[g]) + 1
                          /\ pc'[g] = "idle" <=> batch'[g] = <<>>
  BY DEF Inv, TypeOK, EndRequest
<1>3. QED BY <1>1, <1>2 DEF Inv, TypeOK, EndRequest, Kinds

LEMMA AnsweredKeeps ==
  ASSUME Inv, NEW h \in Handlers, Answered(h)
  PROVE  Inv' /\ RowsStay
<1>1. /\ pc[h] = "answer" /\ EndRequest(h) /\ UNCHANGED <<inbox, binding, faults>>
      /\ acked' = IF answer[h] = "ok" THEN acked \cup EventsOf(h) ELSE acked
      /\ refused' = IF answer[h] = "reuse" THEN refused \cup {Event(h)} ELSE refused
      /\ outbox' = [d \in Devices |-> outbox[d] \ (acked' \cup refused')]
  BY DEF Answered
<1>2. WorkOK(h)
  BY DEF Inv, HandlersAreOK
<1>3. EventsOf(h) \subseteq Events /\ (answer[h] = "reuse" => Event(h) \in Events)
  BY <1>1, <1>2, Parts DEF WorkOK, Event, Inv
<1>4. acked' \subseteq Events /\ refused' \subseteq Events
      /\ outbox' \in [Devices -> SUBSET Events] /\ faults' \in 0 .. MaxFaults
  BY <1>1, <1>3 DEF Inv, TypeOK
<1>5. TypeOK'
  BY <1>1, <1>4, LeaveTypes
<1>6. AnswersAreTrue'
  <2>1. \A e \in acked' : Holds(e)
    BY <1>1, <1>2 DEF Inv, AnswersAreTrue, AckedIsDurable, WorkOK
  <2>2. \A e \in refused' : inbox[IdOf[e]] # NoRow /\ ~Holds(e)
    BY <1>1, <1>2 DEF Inv, AnswersAreTrue, RefusedForCause, WorkOK
  <2>3. QED BY <1>1, <2>1, <2>2 DEF AnswersAreTrue, AckedIsDurable, RefusedForCause, Holds
<1>7. QED BY <1>1, <1>5, <1>6, LeaveKeeps

LEMMA UnansweredKeeps ==
  ASSUME Inv, NEW h \in Handlers, Unanswered(h)
  PROVE  Inv' /\ RowsStay
<1>1. /\ EndRequest(h) /\ faults' \in 0 .. MaxFaults
      /\ UNCHANGED <<inbox, binding, outbox, acked, refused>>
  BY ConstantsAssumption DEF Unanswered, Fault, device, Inv, TypeOK
<1>2. TypeOK'
  BY <1>1, LeaveTypes DEF Inv, TypeOK
<1>3. AnswersAreTrue'
  BY <1>1 DEF Inv, AnswersAreTrue, AckedIsDurable, RefusedForCause, Holds
<1>4. QED BY <1>1, <1>2, <1>3, LeaveKeeps
-----------------------------------------------------------------------------
(* The rows of a transaction become visible.                               *)

LEMMA CommittedParts ==
  ASSUME Inv, NEW h \in Handlers, pc[h] = "insert"
  PROVE  /\ Committed(h) \in [Ids -> Rows \cup {NoRow}]
         /\ \A e \in wrote[h] : Committed(h)[IdOf[e]] = NewRow(e, store[h])
         /\ \A i \in Ids : inbox[i] # NoRow =>
                \/ Committed(h)[i] = inbox[i]
                \/ Committed(h)[i] = [inbox[i] EXCEPT !.exact = TRUE]
         /\ \A i \in Ids : inbox[i] = NoRow /\ (\A e \in wrote[h] : IdOf[e] # i) =>
                Committed(h)[i] = NoRow
<1>1. /\ wrote[h] \subseteq Events /\ store[h] \in Stores \cup {NoStore}
      /\ \A e \in wrote[h] : IdOf[e] \in Ids /\ inbox[IdOf[e]] = NoRow
      /\ \A i \in raised[h] : inbox[i] # NoRow
      /\ \A e, f \in wrote[h] : IdOf[e] = IdOf[f] => e = f
  BY Parts, ConstantsAssumption
     DEF Inv, TypeOK, InvisibleUntilCommit, HandlersAreOK, BatchOK, WorkOK
<1>2. ASSUME NEW e \in wrote[h] PROVE Committed(h)[IdOf[e]] = NewRow(e, store[h])
  <2>1. (CHOOSE f \in wrote[h] : IdOf[f] = IdOf[e]) = e
    BY <1>1, <1>2
  <2>2. IdOf[e] \in Ids
    BY <1>1, <1>2
  <2>3. QED BY <1>2, <2>1, <2>2 DEF Committed, NewRow
<1>3. ASSUME NEW i \in Ids, \A e \in wrote[h] : IdOf[e] # i
      PROVE  Committed(h)[i] =
                IF i \in raised[h] THEN [inbox[i] EXCEPT !.exact = TRUE] ELSE inbox[i]
  BY <1>3 DEF Committed
<1>4. ASSUME NEW i \in Ids PROVE Committed(h)[i] \in Rows \cup {NoRow}
  <2>1. CASE \E e \in wrote[h] : IdOf[e] = i
    BY <1>1, <1>2, <2>1, NewRowParts
  <2>2. CASE \A e \in wrote[h] : IdOf[e] # i
    <3>1. inbox[i] \in Rows => [inbox[i] EXCEPT !.exact = TRUE] \in Rows
      BY DEF Rows
    <3>2. inbox[i] \in Rows \cup {NoRow}
      BY DEF Inv, TypeOK
    <3>3. QED BY <1>1, <1>3, <2>2, <3>1, <3>2
  <2>3. QED BY <2>1, <2>2
<1>5. Committed(h) \in [Ids -> Rows \cup {NoRow}]
  <2>1. Committed(h) = [i \in Ids |-> Committed(h)[i]]
    BY DEF Committed
  <2>2. QED BY <1>4, <2>1
<1>6. QED BY <1>1, <1>2, <1>3, <1>5

LEMMA CommitKeeps ==
  ASSUME Inv, NEW h \in Handlers, Inserted(h), NEW a \in {"ok", "unavailable"},
         inbox' = Committed(h), EndTransaction(h, a),
         UNCHANGED <<binding, device>>, faults' \in 0 .. MaxFaults
  PROVE  Inv' /\ RowsStay
<1>1. /\ pc[h] = "insert" /\ pos[h] = Len(batch[h]) + 1 /\ Len(batch[h]) \in Nat
      /\ pc' = [pc EXCEPT ![h] = "answer"] /\ answer' = [answer EXCEPT ![h] = a]
      /\ wrote' = [wrote EXCEPT ![h] = {}] /\ raised' = [raised EXCEPT ![h] = {}]
      /\ UNCHANGED <<binding, outbox, acked, refused, batch, pos, store>>
  BY Parts DEF EndTransaction, device, Inserted, Inv
<1>2. /\ pc'[h] = "answer" /\ answer'[h] = a /\ wrote'[h] = {} /\ raised'[h] = {}
      /\ Alone(h) /\ EventsOf(h)' = EventsOf(h)
  BY <1>1 DEF Inv, TypeOK, Alone, EventsOf
<1>3. /\ inbox' \in [Ids -> Rows \cup {NoRow}]
      /\ \A e \in wrote[h] : inbox'[IdOf[e]] = NewRow(e, store[h])
      /\ \A i \in Ids : inbox[i] # NoRow =>
                inbox'[i] = inbox[i] \/ inbox'[i] = [inbox[i] EXCEPT !.exact = TRUE]
      /\ \A i \in Ids : inbox[i] = NoRow /\ (\A e \in wrote[h] : IdOf[e] # i) =>
                inbox'[i] = NoRow
  BY <1>1, CommittedParts
<1>4. TypeOK'
  BY <1>1, <1>3 DEF Inv, TypeOK, Kinds
<1>5. \A i \in Ids : inbox[i] # NoRow =>
        /\ inbox'[i] # NoRow /\ inbox'[i].dev = inbox[i].dev /\ inbox'[i].store = inbox[i].store
        /\ inbox'[i] = [inbox[i] EXCEPT !.exact = inbox'[i].exact]
        /\ inbox[i].exact => inbox'[i].exact
  <2> SUFFICES ASSUME NEW i \in Ids, inbox[i] # NoRow
               PROVE  /\ inbox'[i] # NoRow /\ inbox'[i].dev = inbox[i].dev
                      /\ inbox'[i].store = inbox[i].store
                      /\ inbox'[i] = [inbox[i] EXCEPT !.exact = inbox'[i].exact]
                      /\ inbox[i].exact => inbox'[i].exact
    OBVIOUS
  <2>1. inbox[i] \in Rows
    BY DEF Inv, TypeOK
  <2>2. [inbox[i] EXCEPT !.exact = TRUE] \in Rows
    BY <2>1 DEF Rows
  <2>3. QED BY <1>3, <2>1, <2>2, RowAssumption DEF Rows
<1>6. RowsStay
  BY <1>5 DEF RowsStay
<1>7. \A e \in wrote[h] : /\ e \in Events /\ IdOf[e] \in Ids /\ e \in EventsOf(h)
                          /\ inbox'[IdOf[e]] # NoRow
                          /\ inbox'[IdOf[e]].dev = DeviceOf[e]
                          /\ inbox'[IdOf[e]].body = BodyOf[e]
                          /\ inbox'[IdOf[e]].store = store[h]
  <2>1. \A e \in wrote[h] : e \in Events /\ IdOf[e] \in Ids /\ e \in EventsOf(h)
    BY Parts, ConstantsAssumption DEF Inv, TypeOK, HandlersAreOK, WorkOK
  <2>2. store[h] \in Stores \cup {NoStore}
    BY DEF Inv, TypeOK
  <2>3. QED BY <1>3, <2>1, <2>2, NewRowParts
<1>8. StoreIsTrusted'
  <2> SUFFICES ASSUME NEW i \in Ids, inbox'[i] # NoRow
               PROVE  inbox'[i].store \in {NoStore, binding[inbox'[i].dev]}
    BY <1>1 DEF StoreIsTrusted
  <2>1. CASE inbox[i] # NoRow
    BY <1>5, <2>1 DEF Inv, StoreIsTrusted
  <2>2. CASE inbox[i] = NoRow
    <3>1. PICK e \in wrote[h] : IdOf[e] = i
      BY <1>3, <2>2
    <3>2. QED BY <1>7, <3>1 DEF Inv, HandlersAreOK, BatchOK
  <2>3. QED BY <2>1, <2>2
<1>9. InvisibleUntilCommit'
  <2> SUFFICES ASSUME NEW g \in Handlers, NEW e \in wrote'[g]
               PROVE  /\ inbox'[IdOf[e]] = NoRow
                      /\ \A k \in Handlers \ {g} : \A f \in wrote'[k] : IdOf[f] # IdOf[e]
    BY DEF InvisibleUntilCommit
  <2>1. g # h /\ e \in wrote[g] /\ e \in Events /\ IdOf[e] \in Ids
    BY <1>2, Parts, ConstantsAssumption DEF Alone, Inv
  <2>2. /\ inbox[IdOf[e]] = NoRow
        /\ \A k \in Handlers \ {g} : \A f \in wrote[k] : IdOf[f] # IdOf[e]
    BY <2>1 DEF Inv, InvisibleUntilCommit
  <2>3. \A k \in Handlers : wrote'[k] \subseteq wrote[k]
    BY <1>2 DEF Alone
  <2>4. QED BY <1>3, <2>1, <2>2, <2>3
<1>10. AnswersAreTrue'
  BY <1>1, <1>6, AnswersStay DEF Inv
<1>11. BatchOK(h)'
  BY <1>1, <1>2 DEF Inv, HandlersAreOK, BatchOK
<1>12. WorkOK(h)'
  <2>1. ASSUME NEW e \in EventsOf(h) PROVE Holds(e)'
    <3>1. PICK i \in 1 .. Len(batch[h]) : e = batch[h][i]
      BY <2>1, Parts DEF Inv
    <3>2. e \in Events /\ (e \in wrote[h] \/ Holds(e))
      <4>1. WorkOK(h) /\ i \in 1 .. pos[h] - 1 /\ e \in Events
        BY <1>1, <3>1, Parts DEF Inv, HandlersAreOK
      <4>2. QED BY <1>1, <3>1, <4>1 DEF WorkOK
    <3>3. CASE e \in wrote[h]
      BY <1>7, <3>3 DEF Holds
    <3>4. CASE Holds(e)
      <4>1. inbox[IdOf[e]] # NoRow /\ TypeOK
        BY <3>4 DEF Holds, Inv
      <4>2. QED BY <1>6, <3>2, <3>4, <4>1, HoldsStays
    <3>5. QED BY <3>2, <3>3, <3>4
  <2>2. QED BY <1>1, <1>2, <2>1 DEF WorkOK
<1>13. \A d \in Devices : outbox'[d] \subseteq outbox[d]
  BY <1>1
<1>14. QED
  BY <1>1, <1>2, <1>4, <1>6, <1>8, <1>9, <1>10, <1>11, <1>12, <1>13, StepKeeps
-----------------------------------------------------------------------------
LEMMA InvInit == Init => Inv
<1> SUFFICES ASSUME Init PROVE Inv
  OBVIOUS
<1>1. \A i \in Ids :
        inbox[i] # NoRow => inbox[i] \in Rows /\ inbox[i].store = NoStore
  <2> SUFFICES ASSUME NEW i \in Ids, inbox[i] # NoRow
               PROVE  inbox[i] \in Rows /\ inbox[i].store = NoStore
    OBVIOUS
  <2>1. \E e \in Legacy : IdOf[e] = i
    BY DEF Init
  <2>2. PICK e \in Events : inbox[i] = Row(e, NoStore, FALSE)
    BY <2>1, ConstantsAssumption DEF Init
  <2>3. QED BY <2>2, LegacyRowParts
<1>2. TypeOK
  <2>1. inbox \in [Ids -> Rows \cup {NoRow}]
    BY <1>1 DEF Init
  <2>2. batch \in [Handlers -> Seq(Events)] /\ pos \in [Handlers -> Nat]
        /\ \A h \in Handlers : pos[h] \in 1 .. Len(batch[h]) + 1
    BY DEF Init
  <2>3. /\ outbox \in [Devices -> SUBSET Events] /\ binding \in [Devices -> Stores \cup {NoStore}]
        /\ acked \subseteq Events /\ refused \subseteq Events /\ faults \in 0 .. MaxFaults
    BY ConstantsAssumption DEF Init
  <2>4. QED BY <2>1, <2>2, <2>3 DEF Init, TypeOK, Kinds
<1>3. StoreIsTrusted
  BY <1>1 DEF StoreIsTrusted
<1>4. HandlersAreOK
  BY DEF Init, HandlersAreOK, BatchOK, WorkOK, EventsOf
<1>5. QED
  BY <1>2, <1>3, <1>4 DEF Init, Inv, InvisibleUntilCommit, AnswersAreTrue, AckedIsDurable,
                          RefusedForCause, OutboxesAreOwn

LEMMA InvKept == Inv /\ [Next]_vars => Inv' /\ RowsStay
<1> SUFFICES ASSUME Inv, [Next]_vars PROVE Inv' /\ RowsStay
  OBVIOUS
<1>0. faults \in 0 .. MaxFaults
      /\ \A h \in Handlers : Fault => faults' \in 0 .. MaxFaults
  BY ConstantsAssumption DEF Inv, TypeOK, Fault
<1>1. ASSUME NEW h \in Handlers, HandlerStep(h)
      PROVE  Inv' /\ RowsStay
  <2>1. CASE InsertEvent(h)
    BY <2>1, InsertKeeps
  <2>2. CASE Recognise(h)
    BY <2>2, RecogniseKeeps
  <2>3. CASE Refuse(h)
    BY <1>0, <2>3, EndKeeps DEF Refuse, AtEvent
  <2>4. CASE DeadlockVictim(h)
    <3>1. pc[h] = "insert"
      <4>1. PICK g \in Handlers : h \in WaitsFor(g)
        BY <2>4 DEF DeadlockVictim, Deadlocked
      <4>2. wrote[h] # {} \/ raised[h] # {}
        BY <4>1 DEF WaitsFor
      <4>3. QED BY <4>2 DEF Inv, HandlersAreOK, WorkOK
    <3>2. faults' \in 0 .. MaxFaults
      BY <1>0, <2>4 DEF DeadlockVictim
    <3>3. CASE AbortedByUpgrade(h)
      BY <3>1, <3>2, <3>3, AbortKeeps
    <3>4. CASE EndTransaction(h, "unavailable") /\ UNCHANGED <<inbox, binding, device>>
      BY <3>1, <3>2, <3>4, EndKeeps
    <3>5. QED BY <2>4, <3>3, <3>4 DEF DeadlockVictim
  <2>5. CASE Aborted(h)
    BY <1>0, <2>5, EndKeeps DEF Aborted
  <2>6. CASE Commit(h)
    BY <1>0, <2>6, CommitKeeps DEF Commit
  <2>7. CASE Answered(h)
    BY <2>7, AnsweredKeeps
  <2>8. QED BY <1>1, <2>1, <2>2, <2>3, <2>4, <2>5, <2>6, <2>7 DEF HandlerStep
<1>2. ASSUME NEW h \in Handlers, HandlerFault(h)
      PROVE  Inv' /\ RowsStay
  <2>1. CASE StatementFails(h)
    BY <1>0, <2>1, EndKeeps DEF StatementFails, AtEvent
  <2>2. CASE UpgradeFails(h)
    BY <1>0, <2>2, AbortKeeps DEF UpgradeFails, AtEvent
  <2>3. CASE CommitFails(h)
    <3>1. /\ Inserted(h) /\ faults' \in 0 .. MaxFaults /\ EndTransaction(h, "unavailable")
          /\ UNCHANGED <<binding, device>> /\ pc[h] = "insert"
      BY <1>0, <2>3 DEF CommitFails, Inserted
    <3>2. CASE inbox' = inbox
      BY <3>1, <3>2, EndKeeps
    <3>3. CASE inbox' = Committed(h)
      BY <3>1, <3>3, CommitKeeps
    <3>4. QED BY <2>3, <3>2, <3>3 DEF CommitFails
  <2>4. CASE Unanswered(h)
    BY <2>4, UnansweredKeeps
  <2>5. QED BY <1>2, <2>1, <2>2, <2>3, <2>4 DEF HandlerFault
<1>3. CASE UNCHANGED vars
  <2>1. UNCHANGED <<inbox, binding, outbox, acked, refused, pc, batch, pos, store, wrote,
                    raised, answer, faults>>
    BY <1>3 DEF vars, device, request
  <2>2. TypeOK' /\ InvisibleUntilCommit' /\ StoreIsTrusted' /\ OutboxesAreOwn'
    BY <2>1 DEF Inv, TypeOK, InvisibleUntilCommit, StoreIsTrusted, OutboxesAreOwn
  <2>3. RowsStay
    BY <2>1, RowsStayed DEF Inv
  <2>4. AnswersAreTrue'
    BY <2>1, <2>3, AnswersStay DEF Inv
  <2>5. HandlersAreOK'
    BY <2>1 DEF Inv, HandlersAreOK, BatchOK, WorkOK, EventsOf, Event, Holds
  <2>6. QED BY <2>2, <2>3, <2>4, <2>5 DEF Inv
<1>4. CASE \E h \in Handlers, d \in Devices : \E b \in Batches(outbox[d]) : Receive(h, d, b)
  BY <1>4, ReceiveKeeps
<1>5. CASE \E d \in Devices, s \in Stores : Bind(d, s)
  BY <1>5, BindKeeps
<1>6. QED BY <1>1, <1>2, <1>3, <1>4, <1>5 DEF Next, Quiet

LEMMA InvAlways == Safe => []Inv
<1>1. Inv /\ [Next]_vars => Inv'
  BY InvKept
<1>2. QED BY <1>1, InvInit, PTL DEF Safe

\* An event a device was answered ok for is committed under its own identity,
\* and one that was refused for good has its id held by a committed row of
\* another, whatever fails, deadlocks or is sent again.
THEOREM AnswersTrue == Safe => []AnswersAreTrue
<1>1. Inv => AnswersAreTrue
  BY DEF Inv
<1>2. QED BY <1>1, InvAlways, PTL

\* No row is visible before its commit, no two transactions insert one id, and
\* a row names the store its device is bound to or none.
THEOREM InboxSound == Safe => []InboxIsSound
<1>1. Inv => InboxIsSound
  BY DEF Inv, InboxIsSound
<1>2. QED BY <1>1, InvAlways, PTL

\* Accepted events are immutable: no step removes or rewrites a row, and its
\* hash version only rises.
THEOREM AcceptedStays == Safe => NeverRewritten
<1>1. Inv /\ [Next]_vars => [RowsStay]_vars
  BY InvKept
<1>2. Safe => [][RowsStay]_vars
  BY <1>1, InvAlways, PTL DEF Safe
<1>3. NeverRewritten <=> [][RowsStay]_vars
  BY PTL DEF NeverRewritten, RowsStay
<1>4. QED BY <1>2, <1>3, PTL
-----------------------------------------------------------------------------
(* The recovery of a Store.                                                *)

Ledgers ==
    [required : BOOLEAN, gen : Nat, last : Nat, pages : Nat, events : Nat, declared : Nat,
     complete : BOOLEAN, missing : Nat]
Walkers ==
    [gen : Nat, left : SUBSET Sales, declared : Nat, on : Works \cup {0}, clean : BOOLEAN]
PageOps == {"verify", "hashes", "record"}
PageTasks ==
    [op : PageOps, dev : Tills, gen : Nat, page : (SUBSET Sales) \ {{}}, declared : Nat,
     end : BOOLEAN, missing : SUBSET Sales]
Tasks ==
    {NoTask} \cup [op : {"begin", "complete"}, dev : Tills] \cup PageTasks
    \cup [op : {"clear"}, dev : Tills, gen : Nat, events : Nat]

RecTypeOK ==
    /\ held \in [Sales -> Tills \cup {NoDevice}]
    /\ ledger \in [Tills -> Ledgers] /\ backup.ledger \in [Tills -> Ledgers]
    /\ backup.held \in [Sales -> Tills \cup {NoDevice}]
    /\ row \in [Sales -> {"none", "pending", "delivered"}]
    /\ walk \in [Tills -> Walkers] /\ task \in [Works -> Tasks]
    /\ restores \in Nat

\* No call and no walk is ahead of its ledger, and what a page is not said to
\* lack Cloud has.
TaskOK(t) ==
    t.op \in PageOps =>
        /\ t.gen <= ledger[t.dev].gen
        /\ t.op = "record" => t.page \ t.missing \subseteq Held

\* S is the history the pass of this generation was begun with, R the events
\* of it that were verified.  What is not in S came later, and is there.
RowsCovered(d, S) ==
    \A e \in Sales \ S : SoldAt[e] = d /\ row[e] = "delivered" => e \in Held

Verified(l, S, R) ==
    /\ R \subseteq S /\ l.events = Cardinality(R) /\ \A e \in R : e <= l.last
    /\ l.missing = 0 => R \subseteq Held
    /\ l.pages # 0 => l.declared >= Cardinality(S)

WalkFits(d, S) ==
    walk[d].gen = ledger[d].gen =>
        walk[d].left \subseteq S /\ walk[d].declared \in {0, Cardinality(S)}

TaskFits(t, d, S) ==
    t.op \in PageOps /\ t.dev = d /\ t.gen = ledger[d].gen =>
        t.page \subseteq S /\ t.declared \in {0, Cardinality(S)}

KnownFits(d, S) == WalkFits(d, S) /\ \A x \in Works : TaskFits(task[x], d, S)

SnapshotFits(d) ==
    \E S, R \in SUBSET Sales :
        RowsCovered(d, S) /\ Verified(ledger[d], S, R) /\ KnownFits(d, S)

\* Before the first mark nothing is under way.
Untouched ==
    /\ \A d \in Tills : ~ledger[d].required /\ walk[d] = NotWalking
    /\ \A x \in Works : task[x] = NoTask

RecInv ==
    /\ RecTypeOK /\ RecoveredIsWhole
    /\ restores = 0 => Untouched
    /\ \A d \in Tills : walk[d].gen <= ledger[d].gen
    /\ \A x \in Works : TaskOK(task[x])
    /\ \A d \in Tills : SnapshotFits(d)

\* The calls of an abandoned timeline are only gone if Retail drops its walk
\* at a restore, or there is but one.
OneTimeline == WalksSurvive => MaxRestores <= 1

-----------------------------------------------------------------------------
LEMMA SalesFacts ==
  /\ Sales \subseteq Nat /\ IsFiniteSet(Sales)
  /\ \A S \in SUBSET Sales : IsFiniteSet(S) /\ Cardinality(S) \in Nat
<1>1. Sales \subseteq Nat /\ IsFiniteSet(Sales)
  BY FS_Interval, RecoveryAssumption DEF Sales
<1>2. QED BY <1>1, FS_Subset, FS_CardinalityType

LEMMA Least ==
  ASSUME NEW T \in SUBSET Nat, T # {}
  PROVE  \E e \in T : \A o \in T : e <= o
<1> DEFINE Below == {ss \in Nat \X Nat : ss[1] < ss[2]}
<1>1. IsWellFoundedOn(Below, Nat)
  BY NatLessThanWellFounded DEF OpToRel
<1> HIDE DEF Below
<1>2. \E e \in T : \A o \in T : ~(<<o, e>> \in Below)
  BY <1>1, WFMin
<1>3. \A m, n \in Nat : m < n => <<m, n>> \in Below
  BY DEF Below
<1>4. \A m, n \in Nat : ~(m < n) => n <= m
  OBVIOUS
<1>5. QED BY <1>2, <1>3, <1>4

LEMMA Extremes ==
  ASSUME NEW T \in SUBSET Sales, T # {}
  PROVE  /\ Smallest(T) \in T /\ \A o \in T : Smallest(T) <= o
         /\ Last(T) \in T /\ \A o \in T : o <= Last(T)
<1>1. Smallest(T) \in T /\ \A o \in T : Smallest(T) <= o
  <2>1. \E e \in T : \A o \in T : e <= o
    BY Least, SalesFacts
  <2>2. QED BY <2>1 DEF Smallest
<1>2. \E e \in T : \A o \in T : o <= e
  <2> DEFINE D == {n \in Nat : \E e \in T : n = MaxSales - e}
  <2>1. \A e \in T : e \in Nat /\ MaxSales - e \in Nat /\ MaxSales \in Nat
    BY RecoveryAssumption DEF Sales
  <2>2. D \in SUBSET Nat /\ D # {}
    BY <2>1
  <2>3. PICK n \in D : \A o \in D : n <= o
    <3> HIDE DEF D
    <3>1. QED BY <2>2, Least
  <2>4. PICK e \in T : n = MaxSales - e
    BY <2>3
  <2>5. ASSUME NEW o \in T PROVE o <= e
    <3>1. MaxSales - o \in D
      BY <2>1
    <3>2. MaxSales - e <= MaxSales - o
      BY <2>3, <2>4, <3>1
    <3>3. QED BY <2>1, <3>2
  <2>6. QED BY <2>5
<1>3. QED BY <1>1, <1>2 DEF Last

LEMMA TaskParts ==
  ASSUME NEW t \in Tasks
  PROVE  /\ t.op \in PageOps => t \in PageTasks
         /\ t.op \in {"begin", "complete", "clear"} \cup PageOps => t # NoTask /\ t.dev \in Tills
         /\ t # NoTask => t.op \in {"begin", "complete", "clear"} \cup PageOps
BY DEF Tasks, PageTasks, PageOps, NoTask

LEMMA PageParts ==
  ASSUME NEW t \in PageTasks
  PROVE  /\ t.op \in PageOps /\ t.dev \in Tills /\ t.gen \in Nat /\ t.page \in SUBSET Sales
         /\ t.page # {} /\ t.declared \in Nat /\ t.end \in BOOLEAN /\ t.missing \in SUBSET Sales
         /\ t \in Tasks
BY DEF Tasks, PageTasks

\* How a step may change what Retail knows of its pass without learning a
\* generation: it drops the pass, or sends part of what is left.
WalkKept(v) ==
    \/ walk'[v].left = {} /\ walk'[v].declared = 0 /\ walk'[v].gen = 0
    \/ /\ walk'[v].gen = walk[v].gen /\ walk'[v].left \subseteq walk[v].left
       /\ walk'[v].declared \in {0, walk[v].declared}

TaskKept(x) ==
    task'[x].op \in PageOps =>
        /\ task[x].op \in PageOps
        /\ task'[x].dev = task[x].dev /\ task'[x].gen = task[x].gen
        /\ task'[x].page = task[x].page /\ task'[x].declared = task[x].declared

LEMMA WalkStays ==
  ASSUME NEW v, NEW S, ledger'[v].gen = ledger[v].gen, WalkKept(v), WalkFits(v, S)
  PROVE  WalkFits(v, S)'
BY DEF WalkFits, WalkKept

LEMMA KnownStays ==
  ASSUME NEW v, NEW S, ledger'[v].gen = ledger[v].gen, WalkKept(v),
         \A x \in Works : TaskKept(x), KnownFits(v, S)
  PROVE  KnownFits(v, S)'
<1>1. ASSUME NEW x \in Works PROVE TaskFits(task[x], v, S)'
  <2>1. TaskFits(task[x], v, S)
    BY DEF KnownFits
  <2>2. QED BY <2>1 DEF TaskKept, TaskFits
<1>2. QED BY <1>1, WalkStays DEF KnownFits

\* The rows and the events of a step that neither restores nor loses any.
RowsKept ==
    /\ Held \subseteq Held'
    /\ \A e \in Sales : row'[e] = "delivered" => row[e] = "delivered" \/ e \in Held'

SameAccount(v) ==
    /\ ledger'[v].gen = ledger[v].gen /\ ledger'[v].events = ledger[v].events
    /\ ledger'[v].last = ledger[v].last /\ ledger'[v].missing = ledger[v].missing
    /\ ledger'[v].pages = ledger[v].pages /\ ledger'[v].declared = ledger[v].declared

LEMMA SnapshotStays ==
  ASSUME NEW v \in Tills, SnapshotFits(v), RowsKept, SameAccount(v),
         \A S \in SUBSET Sales : KnownFits(v, S) => KnownFits(v, S)'
  PROVE  SnapshotFits(v)'
<1>1. PICK S \in SUBSET Sales, R \in SUBSET Sales :
          RowsCovered(v, S) /\ Verified(ledger[v], S, R) /\ KnownFits(v, S)
  BY DEF SnapshotFits
<1>2. RowsCovered(v, S)'
  BY <1>1 DEF RowsCovered, RowsKept
<1>3. Verified(ledger[v], S, R)'
  BY <1>1 DEF Verified, RowsKept, SameAccount
<1>4. KnownFits(v, S)'
  BY <1>1
<1>5. QED BY <1>2, <1>3, <1>4 DEF SnapshotFits

LEMMA WholeStays ==
  ASSUME RecoveredIsWhole, RecTypeOK, RowsKept,
         \A d \in Tills : ~ledger'[d].required => ~ledger[d].required
  PROVE  RecoveredIsWhole'
<1>1. ASSUME NEW e \in Sales, row'[e] = "delivered", ~ledger'[SoldAt[e]].required
      PROVE  e \in Held'
  <2>1. SoldAt[e] \in Tills
    BY RecoveryAssumption
  <2>2. QED BY <1>1, <2>1 DEF RecoveredIsWhole, RowsKept
<1>2. QED BY <1>1 DEF RecoveredIsWhole

LEMMA TaskStaysOK ==
  ASSUME RecTypeOK, RecTypeOK', NEW t \in Tasks, TaskOK(t),
         \A v \in Tills : ledger[v].gen <= ledger'[v].gen, Held \subseteq Held'
  PROVE  TaskOK(t)'
<1> SUFFICES ASSUME t.op \in PageOps
             PROVE  /\ t.gen <= ledger'[t.dev].gen
                    /\ t.op = "record" => t.page \ t.missing \subseteq Held'
  BY DEF TaskOK
<1>1. t.dev \in Tills /\ t.gen \in Nat
  BY TaskParts, PageParts
<1>2. ledger[t.dev].gen \in Nat /\ ledger'[t.dev].gen \in Nat
  BY <1>1 DEF RecTypeOK, Ledgers
<1>3. t.gen <= ledger[t.dev].gen /\ ledger[t.dev].gen <= ledger'[t.dev].gen
  BY <1>1 DEF TaskOK
<1>4. QED BY <1>1, <1>2, <1>3 DEF TaskOK

\* A step that leaves the accounts of all passes alone.
LEMMA SameAccounts ==
  ASSUME RecInv, RecTypeOK', RowsKept, restores' = 0 => Untouched',
         \A v \in Tills :
            SameAccount(v) /\ WalkKept(v) /\ (~ledger'[v].required => ~ledger[v].required),
         \A x \in Works : TaskOK(task[x])',
         \A v \in Tills, S \in SUBSET Sales : KnownFits(v, S) => KnownFits(v, S)'
  PROVE  RecInv'
<1>1. RecoveredIsWhole'
  BY WholeStays DEF RecInv
<1>2. ASSUME NEW v \in Tills PROVE walk'[v].gen <= ledger'[v].gen /\ SnapshotFits(v)'
  <2>1. SnapshotFits(v)'
    BY SnapshotStays DEF RecInv
  <2>2. walk[v].gen <= ledger[v].gen /\ ledger'[v].gen \in Nat /\ ledger'[v].gen = ledger[v].gen
    BY DEF RecInv, RecTypeOK, Ledgers, SameAccount
  <2>3. walk'[v].gen <= ledger'[v].gen
    BY <2>2 DEF WalkKept
  <2>4. QED BY <2>1, <2>3
<1>3. QED BY <1>1, <1>2 DEF RecInv

\* A step that is about the pass of one device.
LEMMA OneAccount ==
  ASSUME RecInv, RecTypeOK', RowsKept, restores' # 0, RecoveredIsWhole',
         NEW d \in Tills, SnapshotFits(d)', walk'[d].gen <= ledger'[d].gen,
         ledger[d].gen <= ledger'[d].gen,
         \A v \in Tills \ {d} : ledger'[v] = ledger[v] /\ WalkKept(v),
         \A x \in Works : task'[x] \in {task[x], NoTask}
  PROVE  RecInv'
<1>1. \A v \in Tills : ledger[v].gen \in Nat
  BY DEF RecInv, RecTypeOK, Ledgers
<1>2. ASSUME NEW x \in Works PROVE TaskOK(task[x])' /\ TaskKept(x)
  <2>1. PICK t \in Tasks : t = task[x] /\ TaskOK(t)
    BY DEF RecInv, RecTypeOK
  <2>2. \A v \in Tills : ledger[v].gen <= ledger'[v].gen
    BY <1>1
  <2>3. TaskOK(t)'
    BY <2>1, <2>2, TaskStaysOK DEF RecInv, RowsKept
  <2>4. QED BY <2>1, <2>3 DEF TaskOK, TaskKept, NoTask, PageOps
<1>3. ASSUME NEW v \in Tills PROVE walk'[v].gen <= ledger'[v].gen /\ SnapshotFits(v)'
  <2>1. CASE v = d
    BY <2>1
  <2>2. CASE v # d
    <3>1. ledger'[v] = ledger[v] /\ WalkKept(v)
      BY <2>2
    <3>2. walk'[v].gen <= ledger'[v].gen
      BY <1>1, <3>1 DEF WalkKept, RecInv
    <3>3. \A S \in SUBSET Sales : KnownFits(v, S) => KnownFits(v, S)'
      BY <1>2, <3>1, KnownStays
    <3>4. SnapshotFits(v)'
      BY <3>1, <3>3, SnapshotStays DEF RecInv, SameAccount
    <3>5. QED BY <3>2, <3>4
  <2>3. QED BY <2>1, <2>2
<1>4. QED BY <1>2, <1>3 DEF RecInv

\* A step of the shop or of the backup.
LEMMA IdleFits ==
  ASSUME RecInv, UNCHANGED <<ledger, walk, task, restores>>, RowsKept, RecTypeOK'
  PROVE  RecInv'
<1>1. restores' = 0 => Untouched'
  BY DEF RecInv, Untouched
<1>2. ASSUME NEW v \in Tills
      PROVE  SameAccount(v) /\ WalkKept(v) /\ (~ledger'[v].required => ~ledger[v].required)
  BY DEF SameAccount, WalkKept
<1>3. ASSUME NEW x \in Works PROVE TaskOK(task[x])' /\ TaskKept(x)
  <2>1. PICK t \in Tasks : t = task[x] /\ TaskOK(t)
    BY DEF RecInv, RecTypeOK
  <2>2. \A v \in Tills : ledger[v].gen <= ledger'[v].gen
    BY DEF RecInv, RecTypeOK, Ledgers
  <2>3. TaskOK(t)'
    BY <2>1, <2>2, TaskStaysOK DEF RecInv, RowsKept
  <2>4. QED BY <2>1, <2>3 DEF TaskOK, TaskKept
<1>4. \A v \in Tills, S \in SUBSET Sales : KnownFits(v, S) => KnownFits(v, S)'
  BY <1>2, <1>3, KnownStays DEF SameAccount
<1>5. QED BY <1>1, <1>2, <1>3, <1>4, SameAccounts

LEMMA ShopFits ==
  ASSUME RecInv, NEW e \in Sales, Sell(e) \/ Deliver(e)
  PROVE  RecInv'
<1>1. RecTypeOK
  BY DEF RecInv
<1>2. UNCHANGED <<ledger, backup, walk, task, restores>>
  BY DEF Sell, Deliver, database
<1>3. row' \in [Sales -> {"none", "pending", "delivered"}]
  BY <1>1 DEF Sell, Deliver, RecTypeOK
<1>4. SoldAt[e] \in Tills /\ SoldAt[e] # NoDevice
  BY RecoveryAssumption
<1>5. held' \in [Sales -> Tills \cup {NoDevice}]
  BY <1>1, <1>4 DEF Sell, Deliver, RecTypeOK, database
<1>6. RowsKept
  <2>1. CASE Sell(e)
    BY <1>1, <2>1 DEF RowsKept, Sell, Held, database, RecTypeOK
  <2>2. CASE Deliver(e)
    <3>1. \A o \in Sales : o # e => held'[o] = held[o] /\ row'[o] = row[o]
      BY <1>1, <2>2 DEF Deliver, RecTypeOK
    <3>2. e \in Held'
      BY <1>1, <1>4, <2>2 DEF Deliver, Held, RecTypeOK
    <3>3. QED BY <3>1, <3>2 DEF RowsKept, Held
  <2>3. QED BY <2>1, <2>2
<1>7. RecTypeOK'
  BY <1>1, <1>2, <1>3, <1>5 DEF RecTypeOK
<1>8. QED BY <1>2, <1>6, <1>7, IdleFits

LEMMA BackupFits ==
  ASSUME RecInv, Backup
  PROVE  RecInv'
<1>1. UNCHANGED <<held, ledger, row, walk, task, restores>>
      /\ backup'.held = held /\ backup'.ledger = ledger
  BY DEF Backup, database
<1>2. RecTypeOK'
  BY <1>1 DEF RecInv, RecTypeOK
<1>3. RowsKept
  BY <1>1 DEF RowsKept, Held
<1>4. QED BY <1>1, <1>2, <1>3, IdleFits

LEMMA MarkedParts ==
  ASSUME NEW l \in Ledgers
  PROVE  /\ Marked(l) \in Ledgers /\ Marked(l).required /\ Marked(l).gen = l.gen + 1
         /\ Marked(l).events = 0 /\ Marked(l).pages = 0
<1>1. PICK n \in Nat : n = l.gen + 1
  BY DEF Ledgers
<1>2. PICK yes \in BOOLEAN : yes = TRUE
  OBVIOUS
<1>3. PICK none \in Ledgers : none = NoLedger
  BY DEF NoLedger, Ledgers
<1>4. none.events = 0 /\ none.pages = 0
  BY <1>3 DEF NoLedger
<1>5. PICK m : m = [none EXCEPT !.required = yes, !.gen = n]
  OBVIOUS
<1>6. Marked(l) = m
  BY <1>1, <1>2, <1>3, <1>5 DEF Marked
<1>7. m \in Ledgers /\ m.gen = n /\ m.events = 0 /\ m.pages = 0
  BY <1>1, <1>3, <1>4, <1>5 DEF Ledgers
<1>8. m.required
  BY <1>2, <1>3, <1>5 DEF Ledgers
<1>9. QED BY <1>1, <1>6, <1>7, <1>8

\* A pass that nobody knows of.
LEMMA UnknownPass ==
  ASSUME NEW d, NEW S \in SUBSET Sales, RowsCovered(d, S)',
         ledger'[d].events = 0, ledger'[d].pages = 0,
         WalkFits(d, S)', \A x \in Works : task'[x].op \in PageOps /\ task'[x].dev = d =>
                              task'[x].gen # ledger'[d].gen
  PROVE  SnapshotFits(d)'
<1>1. Verified(ledger[d], S, {})'
  BY FS_EmptySet DEF Verified
<1>2. KnownFits(d, S)'
  BY DEF KnownFits, TaskFits
<1>3. QED BY <1>1, <1>2 DEF SnapshotFits

LEMMA RestoreFits ==
  ASSUME RecInv, OneTimeline, Restore
  PROVE  RecInv'
<1>1. RecTypeOK /\ restores' = restores + 1 /\ restores < MaxRestores
  BY DEF RecInv, Restore
<1>2. restores' \in Nat /\ restores' # 0
  BY <1>1 DEF RecTypeOK
<1>3. walk' = [d \in Tills |-> NotWalking]
  <2>1. CASE ~WalksSurvive
    BY <2>1 DEF Restore
  <2>2. CASE WalksSurvive
    <3>1. restores = 0
      BY <1>1, <2>2, RecoveryAssumption DEF OneTimeline, RecTypeOK
    <3>2. \A d \in Tills : walk[d] = NotWalking
      BY <3>1 DEF RecInv, Untouched
    <3>3. QED BY <3>2 DEF Restore
  <2>3. QED BY <2>1, <2>2
<1>4. /\ task' = [x \in Works |-> NoTask] /\ held' = backup.held /\ UNCHANGED <<backup, row>>
      /\ ledger' = [d \in Tills |-> Marked(backup.ledger[d])]
  BY DEF Restore
<1>5. ASSUME NEW d \in Tills
      PROVE  /\ ledger'[d] \in Ledgers /\ ledger'[d].required /\ ledger'[d].gen \in Nat
             /\ ledger'[d].gen # 0 /\ ledger'[d].events = 0 /\ ledger'[d].pages = 0
  <2>1. PICK l \in Ledgers : l = backup.ledger[d]
    BY <1>1 DEF RecTypeOK
  <2>2. ledger'[d] = Marked(l) /\ l.gen \in Nat
    BY <1>4, <2>1 DEF Ledgers
  <2>3. QED BY <2>2, MarkedParts
<1>6. RecTypeOK'
  <2>1. ledger' \in [Tills -> Ledgers]
    BY <1>4, <1>5
  <2>2. walk' \in [Tills -> Walkers] /\ task' \in [Works -> Tasks]
    BY <1>3, <1>4 DEF Walkers, NotWalking, Tasks
  <2>3. QED BY <1>1, <1>2, <1>4, <2>1, <2>2 DEF RecTypeOK
<1>7. RecoveredIsWhole'
  BY <1>5, RecoveryAssumption DEF RecoveredIsWhole
<1>8. ASSUME NEW d \in Tills PROVE SnapshotFits(d)' /\ walk'[d].gen <= ledger'[d].gen
  <2>1. walk'[d].gen = 0 /\ walk'[d].left = {} /\ walk'[d].declared = 0
    BY <1>3 DEF NotWalking
  <2>2. WalkFits(d, Sales)'
    BY <2>1 DEF WalkFits
  <2>3. RowsCovered(d, Sales)'
    BY DEF RowsCovered
  <2>4. \A x \in Works : task'[x].op \notin PageOps
    BY <1>4 DEF NoTask, PageOps
  <2>5. SnapshotFits(d)'
    BY <1>5, <2>2, <2>3, <2>4, UnknownPass
  <2>6. QED BY <1>5, <2>1, <2>5
<1>9. \A x \in Works : TaskOK(task[x])'
  BY <1>4 DEF TaskOK, NoTask, PageOps
<1>10. QED BY <1>2, <1>6, <1>7, <1>8, <1>9 DEF RecInv

LEMMA MarkFits ==
  ASSUME RecInv, NEW d \in Tills, MarkRestoreRequired(d)
  PROVE  RecInv'
<1>1. /\ RecTypeOK /\ restores' = restores + 1 /\ ledger' = [ledger EXCEPT ![d] = Marked(@)]
      /\ UNCHANGED <<held, backup, row, walk, task>>
  BY DEF RecInv, MarkRestoreRequired
<1>2. PICK l \in Ledgers : l = ledger[d]
  BY <1>1 DEF RecTypeOK
<1>3. PICK m \in Ledgers : m = Marked(l) /\ m.required /\ m.gen = l.gen + 1 /\ m.events = 0
                           /\ m.pages = 0
  BY MarkedParts
<1>4. l.gen \in Nat /\ ledger' \in [Tills -> Ledgers] /\ ledger'[d] = m
      /\ \A v \in Tills : v # d => ledger'[v] = ledger[v]
  BY <1>1, <1>2, <1>3 DEF RecTypeOK, Ledgers
<1>5. restores' \in Nat /\ restores' # 0
  BY <1>1 DEF RecTypeOK
<1>6. RecTypeOK'
  BY <1>1, <1>4, <1>5 DEF RecTypeOK
<1>7. RowsKept
  BY <1>1 DEF RowsKept, Held
<1>8. RecoveredIsWhole'
  <2>1. \A v \in Tills : ~ledger'[v].required => ~ledger[v].required
    BY <1>3, <1>4
  <2>2. QED BY <1>7, <2>1, WholeStays DEF RecInv
<1>9. walk'[d].gen <= l.gen /\ walk'[d].gen \in Nat
  BY <1>1, <1>2 DEF RecInv, RecTypeOK, Walkers
<1>10. SnapshotFits(d)'
  <2>1. WalkFits(d, Sales)' /\ RowsCovered(d, Sales)'
    BY <1>3, <1>4, <1>9 DEF WalkFits, RowsCovered
  <2>2. ASSUME NEW x \in Works, task[x].op \in PageOps, task[x].dev = d
        PROVE  task[x].gen # ledger'[d].gen
    <3>1. task[x].gen <= l.gen /\ task[x].gen \in Nat
      BY <1>1, <1>2, <2>2, TaskParts, PageParts DEF RecInv, RecTypeOK, TaskOK
    <3>2. QED BY <1>3, <1>4, <3>1
  <2>3. QED BY <1>1, <1>3, <1>4, <2>1, <2>2, UnknownPass
<1>11. ledger[d].gen <= ledger'[d].gen /\ walk'[d].gen <= ledger'[d].gen
  BY <1>2, <1>3, <1>4, <1>9
<1>12. \A v \in Tills : WalkKept(v)
  BY <1>1 DEF WalkKept
<1>13. QED BY <1>1, <1>4, <1>5, <1>6, <1>7, <1>8, <1>10, <1>11, <1>12, OneAccount

LEMMA NotWalkingParts ==
  /\ NotWalking \in Walkers
  /\ NotWalking.left = {} /\ NotWalking.declared = 0 /\ NotWalking.gen = 0
<1>1. NotWalking \in Walkers
  BY DEF NotWalking, Walkers
<1>2. NotWalking.left = {} /\ NotWalking.declared = 0 /\ NotWalking.gen = 0
  BY DEF NotWalking
<1>3. QED BY <1>1, <1>2

\* Before the first mark no device walks.
LEMMA UntouchedRests ==
  ASSUME RecInv, NEW d \in Tills, ledger[d].required \/ walk[d].gen # 0 \/ walk[d].on # 0
  PROVE  restores # 0
BY DEF RecInv, Untouched, NotWalking

LEMMA UntouchedServes ==
  ASSUME RecInv, NEW x \in Works, task[x] # NoTask
  PROVE  restores # 0
BY DEF RecInv, Untouched

\* A step of the walks and calls that leaves the ledger alone.
LEMMA TalkFits ==
  ASSUME RecInv, restores # 0, UNCHANGED <<database, backup, restores>>,
         walk' \in [Tills -> Walkers], task' \in [Works -> Tasks],
         row' \in [Sales -> {"none", "pending", "delivered"}],
         \A e \in Sales : row'[e] = "delivered" => row[e] = "delivered",
         \A v \in Tills : WalkKept(v),
         \A x \in Works : task'[x] # task[x] => TaskOK(task[x])',
         \A v \in Tills, S \in SUBSET Sales : KnownFits(v, S) => KnownFits(v, S)'
  PROVE  RecInv'
<1>1. held' = held /\ ledger' = ledger
  BY DEF database
<1>2. RecTypeOK'
  BY <1>1 DEF RecInv, RecTypeOK
<1>3. RowsKept
  BY <1>1 DEF RowsKept, Held
<1>4. ASSUME NEW x \in Works PROVE TaskOK(task[x])'
  <2>1. CASE task'[x] # task[x]
    BY <2>1
  <2>2. CASE task'[x] = task[x]
    <3>1. PICK t \in Tasks : t = task[x] /\ TaskOK(t)
      BY DEF RecInv, RecTypeOK
    <3>2. \A v \in Tills : ledger[v].gen <= ledger'[v].gen
      BY <1>1 DEF RecInv, RecTypeOK, Ledgers
    <3>3. TaskOK(t)'
      BY <1>2, <1>3, <3>1, <3>2, TaskStaysOK DEF RecInv, RowsKept
    <3>4. QED BY <2>2, <3>1, <3>3 DEF TaskOK
  <2>3. QED BY <2>1, <2>2
<1>5. ASSUME NEW v \in Tills
      PROVE  SameAccount(v) /\ WalkKept(v) /\ (~ledger'[v].required => ~ledger[v].required)
  BY <1>1 DEF SameAccount
<1>6. restores' # 0
  OBVIOUS
<1>7. QED BY <1>2, <1>3, <1>4, <1>5, <1>6, SameAccounts

LEMMA SendFits ==
  ASSUME RecInv, restores # 0, NEW d \in Tills, NEW x \in Works, NEW ask \in Tasks,
         NEW w \in Walkers, Send(d, x, ask, w), TaskOK(ask), ask.op # "record",
         ask.op \in PageOps => ask.dev = d,
         \A S \in SUBSET Sales : WalkFits(d, S) => TaskFits(ask, d, S),
         \/ w.left = {} /\ w.declared = 0 /\ w.gen = 0
         \/ /\ w.gen = walk[d].gen /\ w.left \subseteq walk[d].left
            /\ w.declared \in {0, walk[d].declared}
  PROVE  RecInv'
<1>1. /\ task' = [task EXCEPT ![x] = ask] /\ walk' = [walk EXCEPT ![d] = [w EXCEPT !.on = x]]
      /\ UNCHANGED <<database, backup, row, restores>>
  BY DEF Send
<1>2. /\ walk \in [Tills -> Walkers] /\ task \in [Works -> Tasks]
      /\ row \in [Sales -> {"none", "pending", "delivered"}]
  BY DEF RecInv, RecTypeOK
<1>3. PICK u \in Walkers : /\ u = [w EXCEPT !.on = x]
                           /\ u.gen = w.gen /\ u.left = w.left /\ u.declared = w.declared
  <2>1. PICK u : u = [w EXCEPT !.on = x]
    OBVIOUS
  <2>2. QED BY <2>1 DEF Walkers
<1>4. /\ walk' \in [Tills -> Walkers] /\ walk'[d] = u
      /\ \A v \in Tills : v # d => walk'[v] = walk[v]
  BY <1>1, <1>2, <1>3
<1>5. /\ task' \in [Works -> Tasks] /\ task'[x] = ask
      /\ \A y \in Works : y # x => task'[y] = task[y]
  BY <1>1, <1>2
<1>6. \A v \in Tills : WalkKept(v)
  BY <1>3, <1>4 DEF WalkKept
<1>7. ledger' = ledger /\ held' = held
  BY <1>1 DEF database
<1>8. TaskOK(task[x])'
  BY <1>5, <1>7 DEF TaskOK
<1>9. ASSUME NEW v \in Tills, NEW S \in SUBSET Sales, KnownFits(v, S)
      PROVE  KnownFits(v, S)'
  <2>1. WalkFits(v, S)'
    BY <1>6, <1>7, <1>9, WalkStays DEF KnownFits
  <2>2. TaskFits(ask, v, S)
    BY <1>9 DEF KnownFits, TaskFits
  <2>3. ASSUME NEW y \in Works PROVE TaskFits(task[y], v, S)'
    BY <1>5, <1>7, <1>9, <2>2 DEF KnownFits, TaskFits
  <2>4. QED BY <2>1, <2>3 DEF KnownFits
<1>10. QED BY <1>1, <1>2, <1>4, <1>5, <1>6, <1>8, <1>9, TalkFits

LEMMA AskFits ==
  ASSUME RecInv, NEW d \in Tills, NEW x \in Works,
         AskBegin(d, x) \/ AskVerify(d, x) \/ AskComplete(d, x)
  PROVE  RecInv'
<1>1. walk[d] \in Walkers /\ walk[d].gen <= ledger[d].gen
  BY DEF RecInv, RecTypeOK
<1>2. restores # 0
  BY UntouchedRests DEF AskBegin, AskVerify, AskComplete
<1>3. PICK old \in Walkers : old = walk[d]
  BY <1>1
<1>4. CASE AskBegin(d, x)
  <2>1. PICK ask : ask = [op |-> "begin", dev |-> d]
    OBVIOUS
  <2>2. ask \in Tasks /\ ask.op = "begin"
    BY <2>1 DEF Tasks
  <2>3. TaskOK(ask) /\ \A S \in SUBSET Sales : TaskFits(ask, d, S)
    BY <2>2 DEF TaskOK, TaskFits, PageOps
  <2>4. PICK w \in Walkers : w = NotWalking /\ w.left = {} /\ w.declared = 0 /\ w.gen = 0
    BY NotWalkingParts
  <2>5. Send(d, x, ask, w)
    BY <1>4, <2>1, <2>4 DEF AskBegin
  <2>6. QED BY <1>2, <2>2, <2>3, <2>4, <2>5, SendFits DEF PageOps
<1>5. CASE AskComplete(d, x)
  <2>1. PICK ask : ask = [op |-> "complete", dev |-> d]
    OBVIOUS
  <2>2. ask \in Tasks /\ ask.op = "complete"
    BY <2>1 DEF Tasks
  <2>3. TaskOK(ask) /\ \A S \in SUBSET Sales : TaskFits(ask, d, S)
    BY <2>2 DEF TaskOK, TaskFits, PageOps
  <2>4. Send(d, x, ask, old)
    BY <1>3, <1>5, <2>1 DEF AskComplete
  <2>5. QED BY <1>2, <1>3, <2>2, <2>3, <2>4, SendFits DEF PageOps
<1>6. CASE AskVerify(d, x)
  <2>1. PICK page \in Slices(walk[d].left) :
            Send(d, x, [op |-> "verify", dev |-> d, gen |-> walk[d].gen, page |-> page,
                        declared |-> walk[d].declared, end |-> page = walk[d].left,
                        missing |-> {}],
                 [walk[d] EXCEPT !.left = @ \ page, !.declared = 0])
    BY <1>6 DEF AskVerify
  <2>2. old.left \in SUBSET Sales /\ old.gen \in Nat /\ old.declared \in Nat
    BY DEF Walkers
  <2>3. page \subseteq old.left /\ page # {} /\ page \in SUBSET Sales
    BY <1>3, <2>2 DEF Slices
  <2>4. PICK end \in BOOLEAN : end = (page = walk[d].left)
    OBVIOUS
  <2>5. PICK ask : ask = [op |-> "verify", dev |-> d, gen |-> old.gen, page |-> page,
                          declared |-> old.declared, end |-> end, missing |-> {}]
    OBVIOUS
  <2>6. /\ ask \in PageTasks /\ ask.op = "verify" /\ ask.dev = d /\ ask.gen = old.gen
        /\ ask.page = page /\ ask.declared = old.declared
    BY <2>2, <2>3, <2>5 DEF PageTasks, PageOps
  <2>7. PICK left : left = old.left \ page
    OBVIOUS
  <2>8. PICK w : w = [old EXCEPT !.left = left, !.declared = 0]
    OBVIOUS
  <2>9. w \in Walkers /\ w.gen = old.gen /\ w.left = left /\ w.declared = 0
    BY <2>2, <2>7, <2>8 DEF Walkers
  <2>10. Send(d, x, ask, w)
    BY <1>3, <2>1, <2>4, <2>5, <2>7, <2>8
  <2>11. TaskOK(ask)
    BY <1>1, <1>3, <2>6 DEF TaskOK
  <2>12. \A S \in SUBSET Sales : WalkFits(d, S) => TaskFits(ask, d, S)
    BY <1>3, <2>3, <2>6 DEF WalkFits, TaskFits
  <2>13. ask \in Tasks /\ ask.op # "record"
    BY <2>6, PageParts
  <2>14. \/ w.left = {} /\ w.declared = 0 /\ w.gen = 0
         \/ /\ w.gen = walk[d].gen /\ w.left \subseteq walk[d].left
            /\ w.declared \in {0, walk[d].declared}
    BY <1>3, <2>7, <2>9
  <2>15. QED
    BY <1>2, <2>6, <2>9, <2>10, <2>11, <2>12, <2>13, <2>14, SendFits
<1>7. QED BY <1>4, <1>5, <1>6

LEMMA DropFits ==
  ASSUME RecInv, NEW d \in Tills, WalkEnds(d) \/ GiveUp(d)
  PROVE  RecInv'
<1>1. /\ walk' = [walk EXCEPT ![d] = NotWalking]
      /\ UNCHANGED <<database, backup, row, task, restores>>
  BY DEF WalkEnds, GiveUp
<1>2. restores # 0
  BY UntouchedRests DEF WalkEnds, GiveUp
<1>3. PICK w \in Walkers : w = NotWalking /\ w.left = {} /\ w.declared = 0 /\ w.gen = 0
  BY NotWalkingParts
<1>4. /\ walk \in [Tills -> Walkers] /\ task \in [Works -> Tasks]
      /\ row \in [Sales -> {"none", "pending", "delivered"}]
  BY DEF RecInv, RecTypeOK
<1>5. walk' \in [Tills -> Walkers] /\ \A v \in Tills : WalkKept(v)
  BY <1>1, <1>3, <1>4 DEF WalkKept
<1>6. \A v \in Tills, S \in SUBSET Sales : KnownFits(v, S) => KnownFits(v, S)'
  BY <1>1, <1>5, KnownStays DEF TaskKept, database
<1>7. QED BY <1>1, <1>2, <1>4, <1>5, <1>6, TalkFits

\* However the answer fares, the call is over; the walk is what it makes of it
\* or what was there.
LEMMA ReplyParts ==
  ASSUME RecTypeOK, NEW x \in Works, NEW d \in Tills, task[x].dev = d, NEW w \in Walkers,
         NEW missing \in SUBSET Sales, Reply(x, w, missing)
  PROVE  /\ task' \in [Works -> Tasks] /\ \A y \in Works : task'[y] \in {task[y], NoTask}
         /\ walk' \in [Tills -> Walkers] /\ \A v \in Tills : v # d => walk'[v] = walk[v]
         /\ row' \in [Sales -> {"none", "pending", "delivered"}]
         /\ \A e \in Sales : row'[e] = "delivered" => row[e] = "delivered"
         /\ missing = {} => row' = row
         /\ \/ walk'[d].gen = w.gen /\ walk'[d].left = w.left /\ walk'[d].declared = w.declared
            \/ WalkKept(d)
<1>1. /\ walk \in [Tills -> Walkers] /\ task \in [Works -> Tasks]
      /\ row \in [Sales -> {"none", "pending", "delivered"}]
  BY DEF RecTypeOK
<1>2. task' = [task EXCEPT ![x] = NoTask]
  BY DEF Reply
<1>3. task' \in [Works -> Tasks] /\ \A y \in Works : task'[y] \in {task[y], NoTask}
  BY <1>1, <1>2 DEF Tasks
<1>4. PICK u \in Walkers : /\ u = [w EXCEPT !.on = 0]
                           /\ u.gen = w.gen /\ u.left = w.left /\ u.declared = w.declared
  <2>1. PICK u : u = [w EXCEPT !.on = 0]
    OBVIOUS
  <2>2. QED BY <2>1 DEF Walkers
<1>5. PICK o \in Walkers : /\ o = [walk[d] EXCEPT !.on = 0]
                           /\ o.gen = walk[d].gen /\ o.left = walk[d].left
                           /\ o.declared = walk[d].declared
  <2>1. PICK old \in Walkers : old = walk[d]
    BY <1>1
  <2>2. PICK o : o = [old EXCEPT !.on = 0]
    OBVIOUS
  <2>3. QED BY <2>1, <2>2 DEF Walkers
<1>6. CASE /\ walk' = [walk EXCEPT ![d] = u]
           /\ row' = [e \in Sales |-> IF e \in missing /\ row[e] = "delivered"
                                       THEN "pending" ELSE row[e]]
  <2>1. walk' \in [Tills -> Walkers] /\ \A v \in Tills : v # d => walk'[v] = walk[v]
    BY <1>1, <1>6
  <2>2. row' \in [Sales -> {"none", "pending", "delivered"}]
        /\ \A e \in Sales : row'[e] = "delivered" => row[e] = "delivered"
    BY <1>1, <1>6
  <2>3. missing = {} => row' = row
    BY <1>1, <1>6
  <2>4. walk'[d] = u
    BY <1>1, <1>6
  <2>5. QED BY <1>3, <1>4, <2>1, <2>2, <2>3, <2>4
<1>7. CASE /\ \E v \in {NotWalking, o} : walk' = [walk EXCEPT ![d] = v]
           /\ row' = row
  <2>1. walk' \in [Tills -> Walkers] /\ \A v \in Tills : v # d => walk'[v] = walk[v]
    BY <1>1, <1>7, NotWalkingParts
  <2>2. walk'[d] \in {NotWalking, o}
    BY <1>1, <1>7
  <2>3. WalkKept(d)
    BY <1>5, <2>2, NotWalkingParts DEF WalkKept
  <2>4. QED BY <1>1, <1>3, <1>7, <2>1, <2>3
<1>8. CASE walk' = walk /\ row' = row
  BY <1>1, <1>3, <1>8 DEF WalkKept
<1>9. QED BY <1>4, <1>5, <1>6, <1>7, <1>8 DEF Reply

LEMMA TurnAwayFits ==
  ASSUME RecInv, NEW x \in Works, task[x] # NoTask, TurnAway(x),
         UNCHANGED <<held, backup, restores>>
  PROVE  RecInv'
<1>1. RecTypeOK /\ task[x] \in Tasks
  BY DEF RecInv, RecTypeOK
<1>2. PICK d \in Tills : d = task[x].dev
  BY <1>1, TaskParts
<1>3. Reply(x, NotWalking, {}) /\ UNCHANGED <<database, backup, restores>>
  BY DEF TurnAway, database
<1>4. /\ task' \in [Works -> Tasks] /\ \A y \in Works : task'[y] \in {task[y], NoTask}
      /\ walk' \in [Tills -> Walkers] /\ \A v \in Tills : v # d => walk'[v] = walk[v]
      /\ row' \in [Sales -> {"none", "pending", "delivered"}]
      /\ \A e \in Sales : row'[e] = "delivered" => row[e] = "delivered"
      /\ \/ walk'[d].gen = 0 /\ walk'[d].left = {} /\ walk'[d].declared = 0
         \/ WalkKept(d)
  BY <1>1, <1>2, <1>3, NotWalkingParts, ReplyParts
<1>5. \A v \in Tills : WalkKept(v)
  BY <1>4 DEF WalkKept
<1>6. \A y \in Works : TaskKept(y) /\ (task'[y] # task[y] => TaskOK(task[y])')
  BY <1>4 DEF TaskKept, TaskOK, NoTask, PageOps
<1>7. \A v \in Tills, S \in SUBSET Sales : KnownFits(v, S) => KnownFits(v, S)'
  BY <1>3, <1>5, <1>6, KnownStays DEF database
<1>8. QED BY <1>3, <1>4, <1>5, <1>6, <1>7, UntouchedServes, TalkFits

\* The call goes on with its page.
LEMMA GoOnFits ==
  ASSUME RecInv, NEW x \in Works, task[x] # NoTask, NEW next \in Tasks, GoOn(x, next),
         UNCHANGED <<held, backup, restores>>,
         next.op \in PageOps =>
            /\ task[x].op \in PageOps
            /\ next.dev = task[x].dev /\ next.gen = task[x].gen
            /\ next.page = task[x].page /\ next.declared = task[x].declared
            /\ next.op = "record" => next.page \ next.missing \subseteq Held
  PROVE  RecInv'
<1>1. /\ task' = [task EXCEPT ![x] = next] /\ UNCHANGED <<database, backup, walk, row, restores>>
      /\ walk \in [Tills -> Walkers] /\ task \in [Works -> Tasks]
      /\ row \in [Sales -> {"none", "pending", "delivered"}]
  BY DEF GoOn, database, RecInv, RecTypeOK
<1>2. /\ task' \in [Works -> Tasks] /\ task'[x] = next
      /\ \A y \in Works : y # x => task'[y] = task[y]
  BY <1>1
<1>3. \A y \in Works : TaskKept(y)
  BY <1>2 DEF TaskKept
<1>4. \A v \in Tills : WalkKept(v)
  BY <1>1 DEF WalkKept
<1>5. ledger' = ledger /\ held' = held
  BY <1>1 DEF database
<1>6. TaskOK(task[x])'
  <2>1. TaskOK(task[x])
    BY DEF RecInv
  <2>2. Held' = Held
    BY <1>5 DEF Held
  <2>3. next.op \in PageOps => next.gen <= ledger[next.dev].gen
    BY <2>1 DEF TaskOK
  <2>4. QED BY <1>2, <1>5, <2>2, <2>3 DEF TaskOK
<1>7. \A v \in Tills, S \in SUBSET Sales : KnownFits(v, S) => KnownFits(v, S)'
  BY <1>3, <1>4, <1>5, KnownStays
<1>8. QED BY <1>1, <1>2, <1>4, <1>6, <1>7, UntouchedServes, TalkFits

LEMMA ReadsFit ==
  ASSUME RecInv, NEW x \in Works, UNCHANGED <<held, backup, restores>>,
         VerifyReadsLedger(x) \/ VerifyReadsEvents(x) \/ CompleteReadsLedger(x)
  PROVE  RecInv'
<1>1. task[x] \in Tasks
  BY DEF RecInv, RecTypeOK
<1>2. PICK t \in Tasks : t = task[x]
  BY <1>1
<1>3. task[x] # NoTask
  BY DEF VerifyReadsLedger, VerifyReadsEvents, CompleteReadsLedger, NoTask
<1>4. CASE TurnAway(x)
  BY <1>3, <1>4, TurnAwayFits
<1>5. CASE VerifyReadsLedger(x) /\ ~TurnAway(x)
  <2>1. t.op = "verify" /\ GoOn(x, [t EXCEPT !.op = "hashes"])
    BY <1>2, <1>5 DEF VerifyReadsLedger
  <2>2. t \in PageTasks
    BY <2>1, TaskParts DEF PageOps
  <2>3. PICK next : next = [t EXCEPT !.op = "hashes"]
    OBVIOUS
  <2>4. /\ next \in PageTasks /\ next.op = "hashes" /\ next.dev = t.dev /\ next.gen = t.gen
        /\ next.page = t.page /\ next.declared = t.declared
    BY <2>2, <2>3 DEF PageTasks, PageOps
  <2>5. next \in Tasks
    BY <2>4, PageParts
  <2>6. QED BY <1>2, <1>3, <2>1, <2>3, <2>4, <2>5, GoOnFits DEF PageOps
<1>6. CASE VerifyReadsEvents(x)
  <2>1. PICK missing \in SUBSET Sales : missing = t.page \ Held
    <3>1. t.op = "hashes"
      BY <1>2, <1>6 DEF VerifyReadsEvents
    <3>2. t.page \in SUBSET Sales
      BY <3>1, TaskParts, PageParts DEF PageOps
    <3>3. QED BY <3>2
  <2>2. t.op = "hashes" /\ GoOn(x, [t EXCEPT !.op = "record", !.missing = missing])
    BY <1>2, <1>6, <2>1 DEF VerifyReadsEvents
  <2>3. t \in PageTasks
    BY <2>2, TaskParts DEF PageOps
  <2>4. PICK next : next = [t EXCEPT !.op = "record", !.missing = missing]
    OBVIOUS
  <2>5. /\ next \in PageTasks /\ next.op = "record" /\ next.dev = t.dev /\ next.gen = t.gen
        /\ next.page = t.page /\ next.declared = t.declared /\ next.missing = missing
    BY <2>3, <2>4 DEF PageTasks, PageOps
  <2>6. next \in Tasks
    BY <2>5, PageParts
  <2>7. next.page \ next.missing \subseteq Held
    BY <2>1, <2>5
  <2>8. QED BY <1>2, <1>3, <2>2, <2>4, <2>5, <2>6, <2>7, GoOnFits DEF PageOps
<1>7. CASE CompleteReadsLedger(x) /\ ~TurnAway(x)
  <2>1. PICK l \in Ledgers : l = ledger[t.dev]
    <3>1. t.op = "complete"
      BY <1>2, <1>7 DEF CompleteReadsLedger
    <3>2. t.dev \in Tills
      BY <3>1, TaskParts
    <3>3. QED BY <3>2 DEF RecInv, RecTypeOK
  <2>2. t.op = "complete"
        /\ GoOn(x, [op |-> "clear", dev |-> t.dev, gen |-> l.gen, events |-> l.events])
    BY <1>2, <1>7, <2>1 DEF CompleteReadsLedger
  <2>3. PICK next : next = [op |-> "clear", dev |-> t.dev, gen |-> l.gen, events |-> l.events]
    OBVIOUS
  <2>4. l.gen \in Nat /\ l.events \in Nat /\ t.dev \in Tills
    BY <2>2, TaskParts DEF Ledgers
  <2>5. next \in Tasks /\ next.op = "clear"
    BY <2>3, <2>4 DEF Tasks
  <2>6. QED BY <1>3, <2>2, <2>3, <2>5, GoOnFits DEF PageOps
<1>8. QED BY <1>4, <1>5, <1>6, <1>7

LEMMA BeginFits ==
  ASSUME RecInv, NEW x \in Works, UNCHANGED <<held, backup, restores>>, BeginVerifyPass(x)
  PROVE  RecInv'
<1>1. RecTypeOK /\ task[x] \in Tasks /\ task[x].op = "begin"
  BY DEF RecInv, RecTypeOK, BeginVerifyPass
<1>2. task[x] # NoTask
  BY <1>1 DEF NoTask
<1>3. PICK d \in Tills : d = task[x].dev
  BY <1>1, TaskParts
<1>4. CASE TurnAway(x)
  BY <1>2, <1>4, TurnAwayFits
<1>5. CASE ~TurnAway(x)
  <2>1. PICK l \in Ledgers : l = ledger[d]
    BY <1>1 DEF RecTypeOK
  <2>2. PICK m \in Ledgers : m = Marked(l) /\ m.required /\ m.gen = l.gen + 1 /\ m.events = 0
                             /\ m.pages = 0
    BY MarkedParts
  <2>3. PICK floor \in Nat : floor = Cardinality(HeldFrom(d))
    BY SalesFacts DEF HeldFrom
  <2>4. PICK own \in SUBSET Sales : own = Retained(d)
    BY DEF Retained
  <2>5. PICK size \in Nat : size = Cardinality(own)
    BY SalesFacts
  <2>6. l.gen \in Nat /\ m.gen \in Nat
    BY DEF Ledgers
  <2>7. /\ Beginnable(l)
        /\ ledger' = [ledger EXCEPT ![d] = [m EXCEPT !.declared = floor]]
        /\ Reply(x, [NotWalking EXCEPT !.gen = m.gen, !.left = own, !.declared = size], {})
    <3>1. Marked(ledger[d]) = m /\ ledger[d].gen + 1 = m.gen
      BY <2>1, <2>2
    <3>2. QED BY <1>1, <1>3, <1>5, <2>1, <2>2, <2>3, <2>4, <2>5, <3>1 DEF BeginVerifyPass
  <2>8. PICK n \in Ledgers : /\ n = [m EXCEPT !.declared = floor] /\ n.required
                             /\ n.gen = m.gen /\ n.events = 0 /\ n.pages = 0
    <3>1. PICK n : n = [m EXCEPT !.declared = floor]
      OBVIOUS
    <3>2. QED BY <2>2, <2>3, <3>1 DEF Ledgers
  <2>9. PICK none \in Walkers : none = NotWalking
    BY NotWalkingParts
  <2>10. PICK w \in Walkers :
            /\ w = [NotWalking EXCEPT !.gen = m.gen, !.left = own, !.declared = size]
            /\ w.gen = m.gen /\ w.left = own /\ w.declared = size
    <3>1. PICK g \in Nat : g = m.gen
      BY <2>6
    <3>2. PICK w : w = [none EXCEPT !.gen = g, !.left = own, !.declared = size]
      OBVIOUS
    <3>3. w \in Walkers
      BY <3>2 DEF Walkers
    <3>4. w.gen = g /\ w.left = own /\ w.declared = size
      BY <3>2 DEF Walkers
    <3>5. QED BY <2>9, <3>1, <3>2, <3>3, <3>4
  <2>11. /\ ledger' \in [Tills -> Ledgers] /\ ledger'[d] = n
         /\ \A v \in Tills : v # d => ledger'[v] = ledger[v]
    BY <1>1, <2>7, <2>8 DEF RecTypeOK
  <2>12. /\ task' \in [Works -> Tasks] /\ \A y \in Works : task'[y] \in {task[y], NoTask}
         /\ walk' \in [Tills -> Walkers] /\ \A v \in Tills : v # d => walk'[v] = walk[v]
         /\ row' = row
         /\ \/ walk'[d].gen = w.gen /\ walk'[d].left = w.left /\ walk'[d].declared = w.declared
            \/ WalkKept(d)
    <3>1. Reply(x, w, {})
      BY <2>7, <2>10
    <3>2. QED BY <1>1, <1>3, <3>1, ReplyParts
  <2>13. RecTypeOK'
    BY <1>1, <2>11, <2>12 DEF RecTypeOK
  <2>14. RowsKept
    BY <2>12 DEF RowsKept, Held
  <2>15. RecoveredIsWhole'
    <3>1. \A v \in Tills : ~ledger'[v].required => ~ledger[v].required
      BY <2>8, <2>11
    <3>2. QED BY <1>1, <2>14, <3>1, WholeStays DEF RecInv
  <2>16. walk[d].gen <= l.gen /\ walk[d].gen \in Nat
    BY <1>1, <2>1 DEF RecInv, RecTypeOK, Walkers
  <2>17. walk'[d].gen <= ledger'[d].gen
    BY <2>2, <2>6, <2>8, <2>10, <2>11, <2>12, <2>16 DEF WalkKept
  <2>18. WalkFits(d, own)'
    <3>1. CASE walk'[d].gen = w.gen /\ walk'[d].left = w.left /\ walk'[d].declared = w.declared
      BY <2>5, <2>10, <3>1 DEF WalkFits
    <3>2. CASE WalkKept(d)
      <4>1. walk'[d].gen # ledger'[d].gen
        BY <2>2, <2>6, <2>8, <2>11, <2>16, <3>2 DEF WalkKept
      <4>2. QED BY <4>1 DEF WalkFits
    <3>3. QED BY <2>12, <3>1, <3>2
  <2>19. RowsCovered(d, own)'
    BY <2>4, <2>12 DEF RowsCovered, Retained
  <2>20. ASSUME NEW y \in Works, task'[y].op \in PageOps, task'[y].dev = d
         PROVE  task'[y].gen # ledger'[d].gen
    <3>1. task'[y] = task[y]
      BY <2>12, <2>20 DEF NoTask, PageOps
    <3>2. task[y].gen <= l.gen /\ task[y].gen \in Nat
      BY <1>1, <2>1, <2>20, <3>1, TaskParts, PageParts DEF RecInv, RecTypeOK, TaskOK
    <3>3. QED BY <2>2, <2>6, <2>8, <2>11, <3>1, <3>2
  <2>21. SnapshotFits(d)'
    BY <2>8, <2>11, <2>18, <2>19, <2>20, UnknownPass
  <2>22. ledger[d].gen <= ledger'[d].gen
    BY <2>1, <2>2, <2>6, <2>8, <2>11
  <2>23. \A v \in Tills \ {d} : ledger'[v] = ledger[v] /\ WalkKept(v)
    BY <2>11, <2>12 DEF WalkKept
  <2>24. restores' # 0
    BY <1>2, UntouchedServes
  <2>25. QED
    BY <2>12, <2>13, <2>14, <2>15, <2>17, <2>21, <2>22, <2>23, <2>24, OneAccount
<1>6. QED BY <1>4, <1>5

\* A page that lies behind what was verified adds its events, none of them
\* twice.
LEMMA PageAdds ==
  ASSUME NEW S \in SUBSET Sales, NEW R \in SUBSET Sales, NEW l \in Ledgers, NEW m \in Ledgers,
         NEW t \in PageTasks, Verified(l, S, R), t.page \subseteq S,
         t.declared \in {0, Cardinality(S)}, t.page \ t.missing \subseteq Held,
         l.pages = 0 <=> t.declared > 0, l.last < Smallest(t.page),
         m.last = Last(t.page), m.events = l.events + Cardinality(t.page),
         m.missing = l.missing + Cardinality(t.missing),
         m.declared = IF l.declared > t.declared THEN l.declared ELSE t.declared
  PROVE  Verified(m, S, R \cup t.page)
<1>1. /\ t.page \in SUBSET Sales /\ t.page # {} /\ t.missing \in SUBSET Sales
      /\ t.declared \in Nat
  BY PageParts
<1>2. /\ Smallest(t.page) \in t.page /\ \A o \in t.page : Smallest(t.page) <= o
      /\ Last(t.page) \in t.page /\ \A o \in t.page : o <= Last(t.page)
  BY <1>1, Extremes
<1>3. /\ R \subseteq S /\ l.events = Cardinality(R) /\ \A e \in R : e <= l.last
      /\ l.missing = 0 => R \subseteq Held
      /\ l.pages # 0 => l.declared >= Cardinality(S)
  BY DEF Verified
<1>4. /\ l.last \in Nat /\ l.missing \in Nat /\ l.declared \in Nat /\ l.pages \in Nat
  BY DEF Ledgers
<1>5. /\ IsFiniteSet(R) /\ IsFiniteSet(t.page) /\ IsFiniteSet(t.missing)
      /\ Cardinality(R) \in Nat /\ Cardinality(t.page) \in Nat /\ Cardinality(t.missing) \in Nat
      /\ Cardinality(S) \in Nat /\ \A e \in Sales : e \in Nat
  BY <1>1, SalesFacts
<1>6. R \cap t.page = {}
  <2>1. ASSUME NEW e \in R, e \in t.page PROVE FALSE
    <3>1. e \in Nat /\ Smallest(t.page) \in Nat
      BY <1>1, <1>2, <1>5
    <3>2. e <= l.last /\ l.last < Smallest(t.page) /\ Smallest(t.page) <= e
      BY <1>2, <1>3, <2>1
    <3>3. QED BY <1>4, <3>1, <3>2
  <2>2. QED BY <2>1
<1>7. m.events = Cardinality(R \cup t.page)
  <2>1. Cardinality(R \cup t.page) = Cardinality(R) + Cardinality(t.page) - Cardinality({})
    BY <1>5, <1>6, FS_Union
  <2>2. QED BY <1>3, <1>5, <2>1, FS_EmptySet
<1>8. \A e \in R \cup t.page : e <= m.last
  <2>1. ASSUME NEW e \in R PROVE e <= Last(t.page)
    <3>1. e \in Nat /\ Smallest(t.page) \in Nat /\ Last(t.page) \in Nat
      BY <1>1, <1>2, <1>5
    <3>2. e <= l.last /\ l.last < Smallest(t.page) /\ Smallest(t.page) <= Last(t.page)
      BY <1>2, <1>3
    <3>3. QED BY <1>4, <3>1, <3>2
  <2>2. QED BY <1>2, <2>1
<1>9. m.missing = 0 => R \cup t.page \subseteq Held
  <2>1. ASSUME m.missing = 0 PROVE l.missing = 0 /\ Cardinality(t.missing) = 0
    BY <1>4, <1>5, <2>1
  <2>2. Cardinality(t.missing) = 0 => t.missing = {}
    BY <1>5, FS_EmptySet
  <2>3. QED BY <1>3, <2>1, <2>2
<1>10. m.declared >= Cardinality(S)
  BY <1>1, <1>3, <1>4, <1>5
<1>11. QED BY <1>3, <1>7, <1>8, <1>9, <1>10 DEF Verified

LEMMA RecordFits ==
  ASSUME RecInv, NEW x \in Works, UNCHANGED <<held, backup, restores>>, RecordVerifyPage(x)
  PROVE  RecInv'
<1>1. RecTypeOK /\ task[x] \in Tasks /\ task[x].op = "record"
  BY DEF RecInv, RecTypeOK, RecordVerifyPage
<1>2. task[x] # NoTask
  BY <1>1 DEF NoTask
<1>3. CASE TurnAway(x)
  BY <1>2, <1>3, TurnAwayFits
<1>4. CASE ~TurnAway(x)
  <2>1. PICK t \in PageTasks : t = task[x]
    BY <1>1, TaskParts DEF PageOps
  <2>2. PICK d \in Tills : d = t.dev
    BY PageParts
  <2>3. PICK l \in Ledgers : l = ledger[d]
    BY <1>1 DEF RecTypeOK
  <2>4. /\ t.page \in SUBSET Sales /\ t.page # {} /\ t.missing \in SUBSET Sales
        /\ t.declared \in Nat /\ t.end \in BOOLEAN /\ t.gen \in Nat
    BY PageParts
  <2>5. PICK last \in Nat : last = Last(t.page)
    BY <2>4, Extremes, SalesFacts
  <2>6. PICK events \in Nat : events = l.events + Cardinality(t.page)
    BY <2>4, SalesFacts DEF Ledgers
  <2>7. PICK lacking \in Nat : lacking = l.missing + Cardinality(t.missing)
    BY <2>4, SalesFacts DEF Ledgers
  <2>8. PICK declared \in Nat :
            declared = IF l.declared > t.declared THEN l.declared ELSE t.declared
    BY <2>4 DEF Ledgers
  <2>9. PICK complete \in BOOLEAN : complete = (l.complete \/ t.end)
    OBVIOUS
  <2>10. PICK m : m = [l EXCEPT !.last = last, !.pages = 1, !.events = events,
                                !.missing = lacking, !.declared = declared,
                                !.complete = complete]
    OBVIOUS
  <2>11. /\ m \in Ledgers /\ m.last = last /\ m.pages = 1 /\ m.events = events
         /\ m.missing = lacking /\ m.declared = declared /\ m.gen = l.gen
    BY <2>10 DEF Ledgers
  <2>12. m.required <=> l.required
    BY <2>10 DEF Ledgers
  <2>13. PICK old \in Walkers : old = walk[d]
    BY <1>1 DEF RecTypeOK
  <2>14. PICK clean \in BOOLEAN : clean = (old.clean /\ t.missing = {})
    OBVIOUS
  <2>15. PICK w \in Walkers : /\ w = [old EXCEPT !.clean = clean]
                              /\ w.gen = old.gen /\ w.left = old.left
                              /\ w.declared = old.declared
    <3>1. PICK w : w = [old EXCEPT !.clean = clean]
      OBVIOUS
    <3>2. QED BY <3>1 DEF Walkers
  <2>16. Recordable(l, t) /\ ledger' = [ledger EXCEPT ![d] = m] /\ Reply(x, w, t.missing)
    <3>1. /\ Recordable(l, t)
          /\ ledger' = [ledger EXCEPT ![d] =
                [l EXCEPT !.last = Last(t.page), !.pages = 1,
                          !.events = l.events + Cardinality(t.page),
                          !.missing = l.missing + Cardinality(t.missing),
                          !.declared = IF l.declared > t.declared THEN l.declared
                                       ELSE t.declared,
                          !.complete = l.complete \/ t.end]]
          /\ Reply(x, [old EXCEPT !.clean = old.clean /\ t.missing = {}], t.missing)
      BY <1>4, <2>1, <2>2, <2>3, <2>13 DEF RecordVerifyPage
    <3>2. QED BY <2>5, <2>6, <2>7, <2>8, <2>9, <2>10, <2>14, <2>15, <3>1
  <2>17. /\ ledger' \in [Tills -> Ledgers] /\ ledger'[d] = m
         /\ \A v \in Tills : v # d => ledger'[v] = ledger[v]
    BY <1>1, <2>11, <2>16 DEF RecTypeOK
  <2>18. /\ task' \in [Works -> Tasks] /\ \A y \in Works : task'[y] \in {task[y], NoTask}
         /\ walk' \in [Tills -> Walkers] /\ \A v \in Tills : v # d => walk'[v] = walk[v]
         /\ row' \in [Sales -> {"none", "pending", "delivered"}]
         /\ \A e \in Sales : row'[e] = "delivered" => row[e] = "delivered"
         /\ \/ walk'[d].gen = w.gen /\ walk'[d].left = w.left /\ walk'[d].declared = w.declared
            \/ WalkKept(d)
    BY <1>1, <2>1, <2>2, <2>4, <2>16, ReplyParts
  <2>19. \A v \in Tills : WalkKept(v)
    BY <2>13, <2>15, <2>18 DEF WalkKept
  <2>20. \A y \in Works : TaskKept(y)
    BY <2>18 DEF TaskKept, NoTask, PageOps
  <2>21. RecTypeOK'
    BY <1>1, <2>17, <2>18 DEF RecTypeOK
  <2>22. RowsKept
    BY <2>18 DEF RowsKept, Held
  <2>23. RecoveredIsWhole'
    <3>1. \A v \in Tills : ~ledger'[v].required => ~ledger[v].required
      BY <2>3, <2>12, <2>17
    <3>2. QED BY <1>1, <2>22, <3>1, WholeStays DEF RecInv
  <2>24. ledger'[d].gen = ledger[d].gen /\ ledger[d].gen \in Nat
    BY <2>3, <2>11, <2>17 DEF Ledgers
  <2>25. walk'[d].gen <= ledger'[d].gen
    BY <2>19, <2>24 DEF WalkKept, RecInv
  <2>26. SnapshotFits(d)'
    <3>1. PICK S \in SUBSET Sales, R \in SUBSET Sales :
              RowsCovered(d, S) /\ Verified(l, S, R) /\ KnownFits(d, S)
      BY <2>3 DEF RecInv, SnapshotFits
    <3>2. t.page \subseteq S /\ t.declared \in {0, Cardinality(S)}
      <4>1. TaskFits(t, d, S) /\ t.gen = l.gen
        BY <2>1, <2>16, <3>1 DEF KnownFits, Recordable
      <4>2. QED BY <1>1, <2>1, <2>2, <2>3, <4>1 DEF TaskFits, PageOps
    <3>3. t.page \ t.missing \subseteq Held
      BY <1>1, <2>1 DEF RecInv, TaskOK, PageOps
    <3>4. Verified(m, S, R \cup t.page)
      BY <2>5, <2>6, <2>7, <2>8, <2>11, <2>16, <3>1, <3>2, <3>3, PageAdds DEF Recordable
    <3>5. Verified(ledger[d], S, R \cup t.page)'
      BY <2>17, <2>22, <3>4 DEF Verified, RowsKept
    <3>6. RowsCovered(d, S)'
      BY <2>22, <3>1 DEF RowsCovered, RowsKept
    <3>7. KnownFits(d, S)'
      BY <2>19, <2>20, <2>24, <3>1, KnownStays
    <3>8. R \cup t.page \in SUBSET Sales
      BY <2>4
    <3>9. QED BY <3>5, <3>6, <3>7, <3>8 DEF SnapshotFits
  <2>27. restores' # 0
    BY <1>2, UntouchedServes
  <2>28. QED
    BY <2>17, <2>18, <2>19, <2>21, <2>22, <2>23, <2>24, <2>25, <2>26, <2>27, OneAccount
<1>5. QED BY <1>3, <1>4

\* An account that covers the pass has verified all of its history.
LEMMA CoveredIsHeld ==
  ASSUME NEW S \in SUBSET Sales, NEW R \in SUBSET Sales, NEW l \in Ledgers,
         Verified(l, S, R), Covers(l)
  PROVE  S \subseteq Held
<1>1. /\ R \subseteq S /\ l.events = Cardinality(R) /\ R \subseteq Held
      /\ l.declared >= Cardinality(S) /\ l.events >= l.declared /\ l.declared \in Nat
  BY DEF Verified, Covers, Ledgers
<1>2. IsFiniteSet(S) /\ Cardinality(S) \in Nat /\ Cardinality(R) \in Nat
  BY SalesFacts
<1>3. Cardinality(R) <= Cardinality(S)
  BY <1>1, <1>2, FS_Subset
<1>4. Cardinality(S) = Cardinality(R)
  BY <1>1, <1>2, <1>3
<1>5. S = R
  BY <1>1, <1>2, <1>4, FS_Subset
<1>6. QED BY <1>1, <1>5

LEMMA ClearFits ==
  ASSUME RecInv, NEW x \in Works, UNCHANGED <<held, backup, restores>>, ClearRecoveryState(x)
  PROVE  RecInv'
<1>1. RecTypeOK /\ task[x] \in Tasks /\ task[x].op = "clear"
  BY DEF RecInv, RecTypeOK, ClearRecoveryState
<1>2. task[x] # NoTask
  BY <1>1 DEF NoTask
<1>3. PICK d \in Tills : d = task[x].dev
  BY <1>1, TaskParts
<1>4. CASE TurnAway(x)
  BY <1>2, <1>4, TurnAwayFits
<1>5. CASE ~TurnAway(x)
  <2>1. PICK l \in Ledgers : l = ledger[d]
    BY <1>1 DEF RecTypeOK
  <2>2. PICK no \in BOOLEAN : no = FALSE
    OBVIOUS
  <2>3. PICK m : m = [l EXCEPT !.required = no]
    OBVIOUS
  <2>4. /\ m \in Ledgers /\ m.gen = l.gen /\ m.events = l.events /\ m.last = l.last
        /\ m.missing = l.missing /\ m.pages = l.pages /\ m.declared = l.declared
    BY <2>3 DEF Ledgers
  <2>5. Covers(l) /\ ledger' = [ledger EXCEPT ![d] = m] /\ Reply(x, NotWalking, {})
    <3>1. /\ Clearable(ledger[d], task[x])
          /\ ledger' = [ledger EXCEPT ![d].required = FALSE]
          /\ Reply(x, NotWalking, {})
      BY <1>3, <1>5 DEF ClearRecoveryState
    <3>2. [ledger EXCEPT ![d].required = FALSE] = [ledger EXCEPT ![d] = m]
      BY <1>1, <2>1, <2>2, <2>3 DEF RecTypeOK
    <3>3. QED BY <2>1, <3>1, <3>2 DEF Clearable
  <2>6. /\ ledger' \in [Tills -> Ledgers] /\ ledger'[d] = m
        /\ \A v \in Tills : v # d => ledger'[v] = ledger[v]
    BY <1>1, <2>4, <2>5 DEF RecTypeOK
  <2>7. /\ task' \in [Works -> Tasks] /\ \A y \in Works : task'[y] \in {task[y], NoTask}
        /\ walk' \in [Tills -> Walkers] /\ \A v \in Tills : v # d => walk'[v] = walk[v]
        /\ row' = row
        /\ \/ walk'[d].gen = 0 /\ walk'[d].left = {} /\ walk'[d].declared = 0
           \/ WalkKept(d)
    BY <1>1, <1>3, <2>5, NotWalkingParts, ReplyParts
  <2>8. \A v \in Tills : WalkKept(v)
    BY <2>7 DEF WalkKept
  <2>9. \A y \in Works : TaskKept(y)
    BY <2>7 DEF TaskKept, NoTask, PageOps
  <2>10. RecTypeOK'
    BY <1>1, <2>6, <2>7 DEF RecTypeOK
  <2>11. RowsKept
    BY <2>7 DEF RowsKept, Held
  <2>12. ledger'[d].gen = ledger[d].gen /\ ledger[d].gen \in Nat /\ SameAccount(d)
    BY <2>1, <2>4, <2>6 DEF Ledgers, SameAccount
  <2>13. SnapshotFits(d)'
    <3>1. \A S \in SUBSET Sales : KnownFits(d, S) => KnownFits(d, S)'
      BY <2>8, <2>9, <2>12, KnownStays
    <3>2. QED BY <2>11, <2>12, <3>1, SnapshotStays DEF RecInv
  <2>14. walk'[d].gen <= ledger'[d].gen
    BY <2>8, <2>12 DEF WalkKept, RecInv
  <2>15. RecoveredIsWhole'
    <3>1. PICK S \in SUBSET Sales, R \in SUBSET Sales : RowsCovered(d, S) /\ Verified(l, S, R)
      BY <2>1 DEF RecInv, SnapshotFits
    <3>2. S \subseteq Held
      BY <2>5, <3>1, CoveredIsHeld
    <3>3. ASSUME NEW e \in Sales, row'[e] = "delivered", ~ledger'[SoldAt[e]].required
          PROVE  e \in Held'
      <4>1. SoldAt[e] \in Tills /\ Held' = Held /\ row[e] = "delivered"
        BY <2>7, <3>3, RecoveryAssumption DEF Held
      <4>2. CASE SoldAt[e] = d
        BY <3>1, <3>2, <4>1, <4>2 DEF RowsCovered
      <4>3. CASE SoldAt[e] # d
        BY <2>6, <3>3, <4>1, <4>3 DEF RecInv, RecoveredIsWhole
      <4>4. QED BY <4>2, <4>3
    <3>4. QED BY <3>3 DEF RecoveredIsWhole
  <2>16. restores' # 0
    BY <1>2, UntouchedServes
  <2>17. \A v \in Tills \ {d} : ledger'[v] = ledger[v] /\ WalkKept(v)
    BY <2>6, <2>8
  <2>18. QED
    BY <2>7, <2>10, <2>11, <2>12, <2>13, <2>14, <2>15, <2>16, <2>17, OneAccount
<1>6. QED BY <1>4, <1>5

LEMMA RecInvInit == RecInit => RecInv
<1> SUFFICES ASSUME RecInit PROVE RecInv
  OBVIOUS
<1>1. /\ held = [e \in Sales |-> NoDevice] /\ row = [e \in Sales |-> "none"]
      /\ ledger = [d \in Tills |-> NoLedger] /\ backup.held = held /\ backup.ledger = ledger
      /\ walk = [d \in Tills |-> NotWalking] /\ task = [x \in Works |-> NoTask]
      /\ restores = 0
  BY DEF RecInit
<1>2. NoLedger \in Ledgers /\ NoLedger.events = 0 /\ NoLedger.pages = 0 /\ NoLedger.gen = 0
  <2>1. NoLedger \in Ledgers
    BY DEF NoLedger, Ledgers
  <2>2. QED BY <2>1 DEF NoLedger
<1>3. RecTypeOK
  BY <1>1, <1>2, NotWalkingParts DEF RecTypeOK, Tasks
<1>4. RecoveredIsWhole
  BY <1>1 DEF RecoveredIsWhole
<1>5. Untouched
  BY <1>1 DEF Untouched, NoLedger
<1>6. \A x \in Works : TaskOK(task[x]) /\ task[x].op \notin PageOps
  BY <1>1 DEF TaskOK, NoTask, PageOps
<1>7. ASSUME NEW d \in Tills PROVE SnapshotFits(d) /\ walk[d].gen <= ledger[d].gen
  <2>1. Verified(ledger[d], Sales, {})
    BY <1>1, <1>2, FS_EmptySet DEF Verified
  <2>2. KnownFits(d, Sales)
    BY <1>1, <1>6, NotWalkingParts DEF KnownFits, WalkFits, TaskFits
  <2>3. RowsCovered(d, Sales)
    BY DEF RowsCovered
  <2>4. QED BY <1>1, <1>2, <2>1, <2>2, <2>3, NotWalkingParts DEF SnapshotFits
<1>8. QED BY <1>3, <1>4, <1>5, <1>6, <1>7 DEF RecInv

LEMMA RecInvKept == RecInv /\ OneTimeline /\ [RecoveryNext]_recVars => RecInv'
<1> SUFFICES ASSUME RecInv, OneTimeline, [RecoveryNext]_recVars PROVE RecInv'
  OBVIOUS
<1>1. CASE \E e \in Sales : Sell(e) \/ Deliver(e)
  BY <1>1, ShopFits
<1>2. CASE Backup \/ Restore
  BY <1>2, BackupFits, RestoreFits
<1>3. CASE \E d \in Tills : MarkRestoreRequired(d) \/ Walks(d) \/ GiveUp(d)
  BY <1>3, MarkFits, AskFits, DropFits DEF Walks
<1>4. CASE \E x \in Works : Serve(x)
  BY <1>4, BeginFits, ReadsFit, RecordFits, ClearFits DEF Serve
<1>5. CASE UNCHANGED recVars
  <2>1. UNCHANGED <<held, ledger, backup, row, walk, task, restores>>
    BY <1>5 DEF recVars
  <2>2. RecTypeOK' /\ RowsKept
    BY <2>1 DEF RecInv, RecTypeOK, RowsKept, Held
  <2>3. QED BY <2>1, <2>2, IdleFits
<1>6. QED BY <1>1, <1>2, <1>3, <1>4, <1>5 DEF RecoveryNext

\* For any devices, sales, calls and faults: once its mark is cleared, a device
\* that drops its walk at a restore has nothing that Cloud lacks, however late
\* the calls of abandoned walks arrive; one that goes on with it, as long as
\* there is a single restore.
THEOREM RecoveredWhole ==
    ASSUME OneTimeline
    PROVE  RecoverySafe => []RecoveredIsWhole
<1>1. RecInv => RecoveredIsWhole
  BY DEF RecInv
<1>2. RecInv /\ [RecoveryNext]_recVars => RecInv'
  BY RecInvKept
<1>3. QED BY <1>1, <1>2, RecInvInit, PTL DEF RecoverySafe
=============================================================================
