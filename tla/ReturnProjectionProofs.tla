----------------------- MODULE ReturnProjectionProofs -----------------------
(***************************************************************************)
(* What ReturnProjection guarantees for any sales, returns and workers,    *)
(* and any number of faults and rebuilds: no sale is over-returned, the    *)
(* book only has what belongs there, and a verdict has a cause.            *)
(***************************************************************************)
EXTENDS ReturnProjection, FiniteSetTheorems, TLAPS

ForCause(e) == e \in Invalid \cup Mismatched \/ Lost(e) \/ (e \notin book /\ ~Fits(e))

\* The stage of an attempt tells what has been established about its event,
\* and what its locks keep so.
Stage(w) ==
    /\ pc[w] \in {"arbitrate", "project"} \cup Locking => cur[w] \notin Invalid
    /\ pc[w] \in {"project"} \cup Locking => owner[ReturnOf[cur[w]]] = cur[w]
    /\ pc[w] \in Locking =>
        claim[w].st = IF proc[cur[w]].st = "none" THEN "pending" ELSE proc[cur[w]].st
    /\ pc[w] = "guarded" =>
        /\ cur[w] \notin Mismatched /\ SaleOf[cur[w]] \in saleUp
        /\ Fits(cur[w]) /\ ~Settled(proc[cur[w]])
    /\ pc[w] = "block" /\ rebuilds = 0 => ForCause(cur[w])

StageIsEarned == \A w \in Workers : Stage(w)

\* No two transactions hold the same processing row, or the same sale's.
LocksExclude ==
    \A v, w \in Workers :
        /\ pc[v] \in Locking /\ pc[w] \in Locking /\ cur[v] = cur[w] => v = w
        /\ pc[v] = "guarded" /\ pc[w] = "guarded" /\ SaleOf[cur[v]] = SaleOf[cur[w]] => v = w

\* Unless something was rebuilt, what is in the book is settled for good.
BookedIsProcessed ==
    /\ rebuild = "cleared" => rebuilds > 0
    /\ rebuilds = 0 => \A e \in book : proc[e].st = "processed"

\* The sums are of finitely many returns.
SumsAreFinite ==
    \A s \in Sales :
        IsFiniteSet(Units(Qty, OfSale(s))) /\ IsFiniteSet(Units(Refund, OfSale(s)))

Inv ==
    /\ TypeOK /\ NeverOverReturned /\ BookIsLegitimate /\ ProcessedIsProjected
    /\ BlockedForCause /\ StageIsEarned /\ LocksExclude /\ BookedIsProcessed /\ SumsAreFinite
-----------------------------------------------------------------------------
(* Sums, as numbers of units.                                              *)

LEMMA UnitsOfOne ==
  ASSUME NEW e, NEW n \in Nat
  PROVE  IsFiniteSet({e} \X (1 .. n)) /\ Cardinality({e} \X (1 .. n)) = n
<1> DEFINE f == [i \in 1 .. n |-> <<e, i>>]
<1>1. f \in Bijection(1 .. n, {e} \X (1 .. n))
  <2>1. f \in [1 .. n -> {e} \X (1 .. n)]
    OBVIOUS
  <2>2. \A i, j \in 1 .. n : f[i] = f[j] => i = j
    <3> SUFFICES ASSUME NEW i \in 1 .. n, NEW j \in 1 .. n, f[i] = f[j] PROVE i = j
      OBVIOUS
    <3>1. <<e, i>>[2] = <<e, j>>[2]
      OBVIOUS
    <3>2. QED BY <3>1
  <2>3. \A t \in {e} \X (1 .. n) : \E i \in 1 .. n : f[i] = t
    <3> SUFFICES ASSUME NEW t \in {e} \X (1 .. n) PROVE \E i \in 1 .. n : f[i] = t
      OBVIOUS
    <3>1. t[2] \in 1 .. n /\ t = <<e, t[2]>>
      OBVIOUS
    <3>2. QED BY <3>1
  <2> HIDE DEF f
  <2>4. QED BY <2>1, <2>2, <2>3 DEF Bijection, Injection, Surjection, IsInjective
<1>2. IsFiniteSet(1 .. n) /\ Cardinality(1 .. n) = n
  BY FS_Interval
<1>3. ExistsBijection(1 .. n, {e} \X (1 .. n))
  BY <1>1 DEF ExistsBijection
<1>4. QED BY <1>2, <1>3, FS_Bijection

LEMMA UnitsAdd ==
  ASSUME NEW f, NEW S, NEW e, IsFiniteSet(Units(f, S)), f[e] \in Nat, e \notin S
  PROVE  /\ IsFiniteSet(Units(f, S \cup {e}))
         /\ Cardinality(Units(f, S \cup {e})) = Cardinality(Units(f, S)) + f[e]
<1> DEFINE new == {e} \X (1 .. f[e])
<1>1. Units(f, S \cup {e}) = Units(f, S) \cup new
  BY DEF Units
<1>2. Units(f, S) \cap new = {}
  BY DEF Units
<1>3. IsFiniteSet(new) /\ Cardinality(new) = f[e]
  BY UnitsOfOne
<1>4. Cardinality(Units(f, S)) \in Nat /\ Cardinality({}) = 0
  BY FS_CardinalityType, FS_EmptySet
<1> HIDE DEF new
<1>5. /\ IsFiniteSet(Units(f, S) \cup new)
      /\ Cardinality(Units(f, S) \cup new) =
            Cardinality(Units(f, S)) + Cardinality(new) - Cardinality(Units(f, S) \cap new)
  BY <1>3, FS_Union
<1>6. QED BY <1>1, <1>2, <1>3, <1>4, <1>5

LEMMA SumsAreNat ==
  ASSUME SumsAreFinite, NEW s \in Sales
  PROVE  Returned(s) \in Nat /\ Refunded(s) \in Nat
  BY FS_CardinalityType DEF SumsAreFinite, Returned, Refunded

\* A return that fits is added to the book.
LEMMA BookAdds ==
  ASSUME TypeOK, SumsAreFinite, NeverOverReturned, NEW e \in Events, Fits(e),
         book' = book \cup {e}
  PROVE  /\ SumsAreFinite' /\ NeverOverReturned'
         /\ \A s \in Sales : Returned(s)' >= Returned(s) /\ Refunded(s)' >= Refunded(s)
         /\ \A s \in Sales : s # SaleOf[e] =>
                Returned(s)' = Returned(s) /\ Refunded(s)' = Refunded(s)
<1> DEFINE t == SaleOf[e]
<1>1. Qty[e] \in Nat /\ Refund[e] \in Nat /\ t \in Sales
  BY ConstantsAssumption
<1>2. \A s \in Sales : s # t => OfSale(s)' = OfSale(s)
  BY DEF OfSale
<1>3. OfSale(t)' = OfSale(t) \cup {e}
  BY DEF OfSale
<1>4. CASE e \in book
  <2>1. \A s \in Sales : OfSale(s)' = OfSale(s)
    BY <1>4 DEF OfSale
  <2>2. QED
    BY <2>1, SumsAreNat DEF Returned, Refunded, SumsAreFinite, NeverOverReturned
<1>5. CASE e \notin book
  <2>1. e \notin OfSale(t)
    BY <1>5 DEF OfSale
  <2>2. /\ IsFiniteSet(Units(Qty, OfSale(t)')) /\ IsFiniteSet(Units(Refund, OfSale(t)'))
        /\ Returned(t)' = Returned(t) + Qty[e] /\ Refunded(t)' = Refunded(t) + Refund[e]
    BY <1>1, <1>3, <2>1, UnitsAdd DEF SumsAreFinite, Returned, Refunded
  <2>3. \A s \in Sales : s # t => Returned(s)' = Returned(s) /\ Refunded(s)' = Refunded(s)
    BY <1>2 DEF Returned, Refunded
  <2>4. \A s \in Sales : Returned(s) \in Nat /\ Refunded(s) \in Nat
    BY SumsAreNat
  <2>5. SumsAreFinite'
    BY <1>2, <2>2 DEF SumsAreFinite
  <2>6. Returned(t)' <= Sold[t] /\ Refunded(t)' <= Total[t]
    BY <2>2 DEF Fits
  <2>7. NeverOverReturned'
    BY <2>3, <2>6 DEF NeverOverReturned
  <2>8. \A s \in Sales : Returned(s)' >= Returned(s) /\ Refunded(s)' >= Refunded(s)
    BY <1>1, <2>2, <2>3, <2>4
  <2>9. QED BY <2>3, <2>5, <2>7, <2>8
<1>6. QED BY <1>4, <1>5

\* What no longer fits does not fit later.
LEMMA MisfitStays ==
  ASSUME SumsAreFinite, SumsAreFinite', NEW e \in Events, ~Fits(e),
         \A s \in Sales : Returned(s)' >= Returned(s) /\ Refunded(s)' >= Refunded(s)
  PROVE  ~Fits(e)'
<1>1. SaleOf[e] \in Sales /\ Qty[e] \in Nat /\ Refund[e] \in Nat
      /\ Sold[SaleOf[e]] \in Nat /\ Total[SaleOf[e]] \in Nat
  BY ConstantsAssumption
<1>2. Returned(SaleOf[e]) \in Nat /\ Refunded(SaleOf[e]) \in Nat
  BY <1>1, SumsAreNat
<1>3. Returned(SaleOf[e])' \in Nat /\ Refunded(SaleOf[e])' \in Nat
  BY <1>1, FS_CardinalityType DEF SumsAreFinite, Returned, Refunded
<1>4. QED BY <1>1, <1>2, <1>3 DEF Fits

\* The sums follow the book alone.
LEMMA SumsStay ==
  ASSUME book' = book
  PROVE  /\ \A s : Returned(s)' = Returned(s) /\ Refunded(s)' = Refunded(s)
         /\ \A e : Fits(e)' <=> Fits(e)
         /\ SumsAreFinite <=> SumsAreFinite'
         /\ NeverOverReturned <=> NeverOverReturned'
<1>1. \A s : OfSale(s)' = OfSale(s)
  BY DEF OfSale
<1>2. \A s : Returned(s)' = Returned(s) /\ Refunded(s)' = Refunded(s)
  BY <1>1 DEF Returned, Refunded
<1>3. QED BY <1>1, <1>2 DEF Fits, SumsAreFinite, NeverOverReturned
-----------------------------------------------------------------------------
(* What a worker keeps while others work.                                  *)

LEMMA BlockedByCause ==
  BlockedForCause <=>
    \A e \in Events : rebuilds = 0 /\ proc[e].st = "blocked" => ForCause(e)
  BY DEF BlockedForCause, ForCause

LEMMA BlockedByCauseThen ==
  BlockedForCause' <=>
    \A e \in Events : rebuilds' = 0 /\ proc'[e].st = "blocked" => ForCause(e)'
  BY DEF BlockedForCause, ForCause, Fits, Lost

\* Who attempts an event.
LEMMA CurParts ==
  ASSUME TypeOK, NEW w \in Workers, pc[w] \notin {"asleep", "scan", "take"}
  PROVE  /\ cur[w] \in Events /\ cur[w] # NoEvent /\ proc[cur[w]] \in Rows
         /\ ReturnOf[cur[w]] \in Returns /\ SaleOf[cur[w]] \in Sales
  BY ConstantsAssumption DEF TypeOK

OwnersStay == \A r \in Returns : owner[r] # NoEvent => owner'[r] = owner[r]

Same(v) == pc'[v] = pc[v] /\ cur'[v] = cur[v] /\ claim'[v] = claim[v]

LEMMA StageStays ==
  ASSUME TypeOK, OwnersStay, NEW v \in Workers, Stage(v), Same(v),
         pc[v] \in Locking => proc'[cur[v]].st = proc[cur[v]].st,
         pc[v] = "guarded" => SaleOf[cur[v]] \in saleUp',
         pc[v] = "guarded" => \A e \in Events : e = cur[v] => Fits(e)',
         rebuilds' = 0 => rebuilds = 0,
         rebuilds' = 0 => \A e \in Events : e = cur[v] /\ ForCause(e) => ForCause(e)'
  PROVE  Stage(v)'
<1>1. CASE pc[v] \in {"asleep", "scan", "take"}
  BY <1>1 DEF Stage, Same, Locking
<1>2. CASE pc[v] \notin {"asleep", "scan", "take"}
  <2>1. PICK e \in Events : e = cur[v]
    BY <1>2, CurParts
  <2>2. /\ e # NoEvent /\ ReturnOf[e] \in Returns
        /\ cur'[v] = e /\ pc'[v] = pc[v] /\ claim'[v] = claim[v]
    BY <1>2, <2>1, CurParts DEF Same
  <2>3. pc[v] \in {"project"} \cup Locking => owner'[ReturnOf[e]] = e
    BY <2>1, <2>2 DEF Stage, OwnersStay
  <2>4. pc[v] = "guarded" => /\ e \notin Mismatched /\ SaleOf[e] \in saleUp' /\ Fits(e)'
                             /\ ~Settled(proc'[e])
    BY <2>1 DEF Stage, Settled, Locking
  <2>5. pc[v] = "block" /\ rebuilds' = 0 => ForCause(e)'
    BY <2>1 DEF Stage
  <2>6. /\ pc[v] \in {"arbitrate", "project"} \cup Locking => e \notin Invalid
        /\ pc[v] \in Locking =>
              claim[v].st = IF proc'[e].st = "none" THEN "pending" ELSE proc'[e].st
    BY <2>1 DEF Stage
  <2>7. Fits(e)' => Fits(cur[v])'
    BY <2>2
  <2>8. ForCause(e)' => ForCause(cur[v])'
    BY <2>2
  <2>9. QED BY <2>2, <2>3, <2>4, <2>5, <2>6, <2>7, <2>8 DEF Stage
<1>3. QED BY <1>1, <1>2

\* Cause remains while nothing is rebuilt and nothing is taken from the book.
LEMMA CauseStays ==
  ASSUME TypeOK, OwnersStay, NEW e \in Events, ForCause(e), SumsAreFinite, SumsAreFinite',
         \A s \in Sales : Returned(s)' >= Returned(s) /\ Refunded(s)' >= Refunded(s),
         e \in book' => e \in book \/ Fits(e)
  PROVE  ForCause(e)'
<1>1. CASE e \in Invalid \cup Mismatched
  BY <1>1 DEF ForCause
<1>2. CASE Lost(e)
  <2>1. Lost(e)'
    BY <1>2, ConstantsAssumption DEF Lost, OwnersStay
  <2>2. QED BY <2>1 DEF ForCause
<1>3. CASE e \notin book /\ ~Fits(e)
  <2>1. ~Fits(e)' /\ e \notin book'
    BY <1>3, MisfitStays
  <2>2. QED BY <2>1 DEF ForCause
<1>4. QED BY <1>1, <1>2, <1>3 DEF ForCause
-----------------------------------------------------------------------------
(* A step of at most one worker that writes no row and not the book.       *)

TakesLocks(w) ==
    /\ pc'[w] \in Locking =>
        (pc[w] \in Locking /\ cur'[w] = cur[w]) \/ ~RowLocked(cur'[w])
    /\ pc'[w] = "guarded" => ~SaleLocked(SaleOf[cur'[w]])

LEMMA MoveKeeps ==
  ASSUME Inv, NEW w, TypeOK', OwnersStay, saleUp \subseteq saleUp',
         UNCHANGED <<book, proc, rebuild, rebuilds>>,
         \A v \in Workers : Same(v) \/ (v = w /\ Stage(w)' /\ TakesLocks(w))
  PROVE  Inv'
<1>1. /\ SumsAreFinite' /\ NeverOverReturned' /\ \A e : Fits(e)' <=> Fits(e)
      /\ \A s : Returned(s)' = Returned(s) /\ Refunded(s)' = Refunded(s)
  BY SumsStay DEF Inv
<1>2. \A s \in Sales : Returned(s)' >= Returned(s) /\ Refunded(s)' >= Refunded(s)
  BY <1>1, SumsAreNat DEF Inv
<1>3. \A e \in Events : ForCause(e) => ForCause(e)'
  BY <1>1, <1>2, CauseStays DEF Inv
<1>4. StageIsEarned'
  <2> SUFFICES ASSUME NEW v \in Workers PROVE Stage(v)'
    BY DEF StageIsEarned
  <2>1. CASE Same(v)
    <3>1. Stage(v)
      BY DEF Inv, StageIsEarned
    <3>2. pc[v] = "guarded" => SaleOf[cur[v]] \in saleUp' /\ Fits(cur[v])
      BY <3>1 DEF Stage
    <3>3. QED BY <1>1, <1>3, <2>1, <3>1, <3>2, StageStays DEF Inv
  <2>2. QED BY <2>1
<1>5. LocksExclude'
  <2>1. ASSUME NEW u \in Workers, NEW v \in Workers, u # v,
               pc'[u] \in Locking, pc'[v] \in Locking, cur'[u] = cur'[v]
        PROVE  FALSE
    <3>1. CASE Same(u) /\ Same(v)
      BY <2>1, <3>1 DEF Inv, LocksExclude, Same
    <3>2. CASE Same(u) /\ v = w /\ TakesLocks(w)
      BY <2>1, <3>2 DEF Inv, LocksExclude, Same, TakesLocks, RowLocked
    <3>3. CASE Same(v) /\ u = w /\ TakesLocks(w)
      BY <2>1, <3>3 DEF Inv, LocksExclude, Same, TakesLocks, RowLocked
    <3>4. QED BY <2>1, <3>1, <3>2, <3>3
  <2>2. ASSUME NEW u \in Workers, NEW v \in Workers, u # v,
               pc'[u] = "guarded", pc'[v] = "guarded", SaleOf[cur'[u]] = SaleOf[cur'[v]]
        PROVE  FALSE
    <3>1. CASE Same(u) /\ Same(v)
      BY <2>2, <3>1 DEF Inv, LocksExclude, Same
    <3>2. CASE Same(u) /\ v = w /\ TakesLocks(w)
      BY <2>2, <3>2 DEF Same, TakesLocks, SaleLocked
    <3>3. CASE Same(v) /\ u = w /\ TakesLocks(w)
      BY <2>2, <3>3 DEF Same, TakesLocks, SaleLocked
    <3>4. QED BY <2>2, <3>1, <3>2, <3>3
  <2>3. QED BY <2>1, <2>2 DEF LocksExclude
<1>6. BookIsLegitimate'
  BY ConstantsAssumption DEF Inv, TypeOK, BookIsLegitimate, OwnersStay
<1>7. ProcessedIsProjected' /\ BookedIsProcessed'
  BY DEF Inv, ProcessedIsProjected, BookedIsProcessed
<1>8. BlockedForCause'
  BY <1>3, BlockedByCause, BlockedByCauseThen DEF Inv
<1>9. QED BY <1>1, <1>4, <1>5, <1>6, <1>7, <1>8 DEF Inv
-----------------------------------------------------------------------------
(* A step that writes one processing row, and whose worker leaves it.      *)

LEMMA RowKeeps ==
  ASSUME Inv, NEW e \in Events, NEW row \in Rows, TypeOK', SetRow(e, row),
         UNCHANGED <<saleUp, owner, book, rebuild, rebuilds>>,
         ~RowLocked(e) \/ row.st = proc[e].st,
         row.st = "processed" <=> proc[e].st = "processed",
         row.st = "blocked" /\ rebuilds = 0 => proc[e].st = "blocked" \/ ForCause(e),
         \A v \in Workers : Same(v) \/ pc'[v] \in {"take", "retry"}
  PROVE  Inv'
<1>1. /\ SumsAreFinite' /\ NeverOverReturned' /\ \A f : Fits(f)' <=> Fits(f)
      /\ \A s : Returned(s)' = Returned(s) /\ Refunded(s)' = Refunded(s)
  BY SumsStay DEF Inv
<1>2. OwnersStay /\ \A f \in Events : ForCause(f) => ForCause(f)'
  BY <1>1 DEF OwnersStay, ForCause, Lost
<1>3. proc'[e] = row /\ \A f \in Events : f # e => proc'[f] = proc[f]
  BY DEF Inv, TypeOK, SetRow
<1>4. StageIsEarned'
  <2> SUFFICES ASSUME NEW v \in Workers PROVE Stage(v)'
    BY DEF StageIsEarned
  <2>1. CASE pc'[v] \in {"take", "retry"}
    BY <2>1 DEF Stage, Locking
  <2>2. CASE Same(v)
    <3>1. Stage(v)
      BY DEF Inv, StageIsEarned
    <3>2. pc[v] = "guarded" => SaleOf[cur[v]] \in saleUp' /\ Fits(cur[v])
      BY <3>1 DEF Stage
    <3>3. pc[v] \in Locking => cur[v] \in Events
      BY CurParts DEF Inv, Locking
    <3>4. pc[v] \in Locking => proc'[cur[v]].st = proc[cur[v]].st
      BY <1>3, <3>3 DEF RowLocked
    <3>5. QED BY <1>1, <1>2, <2>2, <3>1, <3>2, <3>4, StageStays DEF Inv
  <2>3. QED BY <2>1, <2>2
<1>5. LocksExclude'
  BY DEF Inv, LocksExclude, Same, Locking
<1>6. BookIsLegitimate' /\ ProcessedIsProjected' /\ BookedIsProcessed'
  BY <1>3 DEF Inv, TypeOK, BookIsLegitimate, ProcessedIsProjected, BookedIsProcessed
<1>7. BlockedForCause'
  <2>1. \A f \in Events : rebuilds = 0 /\ proc[f].st = "blocked" => ForCause(f)
    BY BlockedByCause DEF Inv
  <2>2. \A f \in Events : rebuilds = 0 /\ proc'[f].st = "blocked" => ForCause(f)'
    BY <1>2, <1>3, <2>1
  <2>3. QED BY <2>2, BlockedByCauseThen
<1>8. QED BY <1>1, <1>4, <1>5, <1>6, <1>7 DEF Inv
-----------------------------------------------------------------------------
(* The transaction of a projection.                                        *)

LEMMA WriteKeeps ==
  ASSUME Inv, NEW w \in Workers, TypeOK', pc[w] = "guarded", WriteReturn(cur[w]),
         pc'[w] \in {"take", "retry"}, UNCHANGED <<saleUp, owner, rebuild, rebuilds>>,
         \A v \in Workers : v # w => Same(v)
  PROVE  Inv'
<1> DEFINE e == cur[w]
<1>1. /\ e \in Events /\ e \notin Invalid \cup Mismatched /\ owner[ReturnOf[e]] = e
      /\ SaleOf[e] \in saleUp /\ Fits(e)
  BY CurParts DEF Inv, StageIsEarned, Stage, Locking
<1>2. /\ book' = book \cup {e} /\ proc'[e].st = "processed"
      /\ \A f \in Events : f # e => proc'[f] = proc[f]
  BY <1>1 DEF WriteReturn, SetRow, Row, Inv, TypeOK
<1>3. /\ SumsAreFinite' /\ NeverOverReturned'
      /\ \A s \in Sales : Returned(s)' >= Returned(s) /\ Refunded(s)' >= Refunded(s)
      /\ \A s \in Sales : s # SaleOf[e] => Returned(s)' = Returned(s) /\ Refunded(s)' = Refunded(s)
  BY <1>1, <1>2, BookAdds DEF Inv
<1>4. OwnersStay
  BY DEF OwnersStay
<1>5. \A f \in Events : ForCause(f) => ForCause(f)'
  BY <1>1, <1>2, <1>3, <1>4, CauseStays DEF Inv
<1>6. StageIsEarned'
  <2> SUFFICES ASSUME NEW v \in Workers PROVE Stage(v)'
    BY DEF StageIsEarned
  <2>1. CASE v = w
    BY <2>1 DEF Stage, Locking
  <2>2. CASE v # w
    <3>1. Stage(v) /\ Same(v)
      BY <2>2 DEF Inv, StageIsEarned
    <3>2. pc[v] \in Locking \cup {"block"} => cur[v] \in Events /\ SaleOf[cur[v]] \in Sales
      BY CurParts DEF Inv, Locking
    <3>3. pc[v] \in Locking => proc'[cur[v]].st = proc[cur[v]].st
      BY <1>2, <2>2, <3>2 DEF Inv, LocksExclude, Locking
    <3>4. ASSUME pc[v] = "guarded", NEW f \in Events, f = cur[v]
          PROVE  SaleOf[f] \in saleUp' /\ Fits(f)'
      <4>1. SaleOf[f] # SaleOf[e]
        BY <2>2, <3>4 DEF Inv, LocksExclude
      <4>2. SaleOf[f] \in saleUp /\ Fits(f) /\ SaleOf[f] \in Sales
        BY <3>1, <3>2, <3>4 DEF Stage, Locking
      <4>3. QED BY <1>3, <4>1, <4>2 DEF Fits
    <3>5. QED BY <1>4, <1>5, <3>1, <3>2, <3>3, <3>4, StageStays DEF Inv, Locking
  <2>3. QED BY <2>1, <2>2
<1>7. LocksExclude'
  BY DEF Inv, LocksExclude, Same, Locking
<1>8. BookIsLegitimate' /\ ProcessedIsProjected' /\ BookedIsProcessed'
  BY <1>1, <1>2 DEF Inv, TypeOK, BookIsLegitimate, ProcessedIsProjected, BookedIsProcessed
<1>9. BlockedForCause'
  <2>1. \A f \in Events : rebuilds = 0 /\ proc[f].st = "blocked" => ForCause(f)
    BY BlockedByCause DEF Inv
  <2>2. \A f \in Events : rebuilds = 0 /\ proc'[f].st = "blocked" => ForCause(f)'
    BY <1>2, <1>5, <2>1
  <2>3. QED BY <2>2, BlockedByCauseThen
<1>10. QED BY <1>3, <1>6, <1>7, <1>8, <1>9 DEF Inv
-----------------------------------------------------------------------------
(* A worker's step to the label l, with the candidates t, the event c and  *)
(* the locked row r.                                                       *)

Attempting(l) == l \notin {"asleep", "scan", "take"}

Moves(w, l, t, c, r) ==
    /\ pc' = [pc EXCEPT ![w] = l]
    /\ todo' = [todo EXCEPT ![w] = t]
    /\ cur' = [cur EXCEPT ![w] = c]
    /\ claim' = [claim EXCEPT ![w] = r]

WorkersTyped ==
    /\ pc \in [Workers -> Labels] /\ todo \in [Workers -> SUBSET Events]
    /\ cur \in [Workers -> Events \cup {NoEvent}] /\ claim \in [Workers -> Rows]
    /\ \A w \in Workers : cur[w] # NoEvent <=> Attempting(pc[w])

LEMMA MoveTyped ==
  ASSUME TypeOK, NEW w \in Workers, NEW l \in Labels, NEW t \in SUBSET Events,
         NEW c \in Events \cup {NoEvent}, NEW r \in Rows, Moves(w, l, t, c, r),
         c # NoEvent <=> Attempting(l)
  PROVE  /\ WorkersTyped' /\ pc'[w] = l /\ cur'[w] = c /\ claim'[w] = r
         /\ \A v \in Workers : v # w => Same(v)
<1>1. /\ pc'[w] = l /\ cur'[w] = c /\ claim'[w] = r
      /\ \A v \in Workers : v # w => pc'[v] = pc[v] /\ cur'[v] = cur[v] /\ claim'[v] = claim[v]
  BY DEF Moves, TypeOK
<1>2. /\ pc' \in [Workers -> Labels] /\ todo' \in [Workers -> SUBSET Events]
      /\ cur' \in [Workers -> Events \cup {NoEvent}] /\ claim' \in [Workers -> Rows]
  BY DEF Moves, TypeOK
<1>3. \A v \in Workers : cur'[v] # NoEvent <=> Attempting(pc'[v])
  BY <1>1 DEF TypeOK, Attempting
<1>4. WorkersTyped'
  BY <1>2, <1>3 DEF WorkersTyped, Attempting
<1>5. QED BY <1>1, <1>4 DEF Same

\* What a step leaves as it is is a move too.
LEMMA MovesNext ==
  ASSUME TypeOK, NEW w \in Workers
  PROVE  /\ NextEvent(w) => Moves(w, "take", todo[w], NoEvent, Row("none"))
         /\ \A l : RolledBack(w, l) => Moves(w, l, todo[w], cur[w], Row("none"))
         /\ \A l : Goto(w, l) /\ todo' = todo /\ cur' = cur /\ claim' = claim =>
                Moves(w, l, todo[w], cur[w], claim[w])
  BY DEF TypeOK, NextEvent, RolledBack, Goto, Moves

LEMMA RowsTyped == \A st \in Statuses : Row(st) \in Rows /\ Row(st).st = st
  BY DEF Row, Rows

LEMMA HeldTyped ==
  ASSUME TypeOK, NEW w \in Workers
  PROVE  /\ todo[w] \in SUBSET Events /\ cur[w] \in Events \cup {NoEvent}
         /\ claim[w] \in Rows /\ Row("none") \in Rows
         /\ cur[w] # NoEvent <=> Attempting(pc[w])
  BY RowsTyped DEF TypeOK, Attempting, Statuses

\* The tables but the inbox, the owners and the bounds are the same.
Quiet ==
    /\ UNCHANGED <<sales, inbox, book, proc, admin>>
    /\ owner' \in [Returns -> Events \cup {NoEvent}] /\ OwnersStay
    /\ faults' \in 0 .. MaxFaults

\* What the new stage needs.
Earns(w, l, c, r) ==
    /\ l \in {"arbitrate", "project"} \cup Locking => c \notin Invalid
    /\ l \in {"project"} \cup Locking => owner'[ReturnOf[c]] = c
    /\ l \in Locking =>
        /\ r.st = IF proc[c].st = "none" THEN "pending" ELSE proc[c].st
        /\ (pc[w] \in Locking /\ c = cur[w]) \/ ~RowLocked(c)
    /\ l = "guarded" =>
        /\ c \notin Mismatched /\ SaleOf[c] \in saleUp /\ Fits(c) /\ ~Settled(proc[c])
        /\ ~SaleLocked(SaleOf[c])

LEMMA WorkerMoves ==
  ASSUME Inv, NEW w \in Workers, NEW l \in Labels, NEW t \in SUBSET Events,
         NEW c \in Events \cup {NoEvent}, NEW r \in Rows, Moves(w, l, t, c, r),
         c # NoEvent <=> Attempting(l), Quiet, Earns(w, l, c, r),
         l = "block" /\ rebuilds = 0 => ForCause(c)'
  PROVE  Inv'
<1>1. /\ WorkersTyped' /\ pc'[w] = l /\ cur'[w] = c /\ claim'[w] = r
      /\ \A v \in Workers : v # w => Same(v)
  BY MoveTyped DEF Inv
<1>2. TypeOK'
  BY <1>1 DEF Inv, TypeOK, WorkersTyped, Attempting, Quiet, sales, admin
<1>3. /\ OwnersStay /\ saleUp \subseteq saleUp'
      /\ UNCHANGED <<saleUp, book, proc, rebuild, rebuilds>>
  BY DEF Quiet, sales, admin
<1>4. Fits(c)' <=> Fits(c)
  BY <1>3, SumsStay
<1>5. Fits(c)' => Fits(cur[w])'
  BY <1>1
<1>6. ForCause(c)' => ForCause(cur[w])'
  BY <1>1
<1>7. Stage(w)'
  BY <1>1, <1>3, <1>4, <1>5, <1>6 DEF Stage, Earns, Locking, Settled
<1>8. TakesLocks(w)
  BY <1>1 DEF TakesLocks, Earns, Locking
<1>9. QED BY <1>1, <1>2, <1>3, <1>7, <1>8, MoveKeeps

LEMMA QuietFault ==
  ASSUME TypeOK, Fault \/ UNCHANGED faults
  PROVE  faults' \in 0 .. MaxFaults
  BY ConstantsAssumption DEF TypeOK, Fault

LEMMA QuietStep ==
  ASSUME TypeOK, UNCHANGED <<sales, tables, admin>>, Fault \/ UNCHANGED faults
  PROVE  Quiet
  BY QuietFault DEF Quiet, OwnersStay, TypeOK, tables

\* A worker that gives its event up, or turns to the next one, needs nothing.
LEMMA LeavesKeeps ==
  ASSUME Inv, NEW w \in Workers, Quiet, NEW t \in SUBSET Events,
         NEW l \in {"asleep", "scan", "take", "retry"},
         NEW c \in Events \cup {NoEvent}, NEW r \in Rows, Moves(w, l, t, c, r),
         c # NoEvent <=> Attempting(l)
  PROVE  Inv'
<1>1. l \in Labels /\ l # "block" /\ Earns(w, l, c, r)
  BY DEF Labels, Earns, Locking
<1>2. QED BY <1>1, WorkerMoves
-----------------------------------------------------------------------------
(* The steps that begin and end an attempt.                                *)

LEMMA DrainKeeps ==
  ASSUME Inv, NEW w \in Workers, Wake(w) \/ Scan(w) \/ DrainAgain(w)
  PROVE  Inv'
<1>1. TypeOK /\ Quiet
  BY QuietStep DEF Inv, Wake, Scan, DrainAgain
<1>2. Discovered \in SUBSET Events
  BY <1>1 DEF TypeOK, Discovered
<1>3. cur[w] = NoEvent /\ claim[w] \in Rows /\ todo[w] \in SUBSET Events
  BY <1>1, HeldTyped DEF Wake, Scan, DrainAgain, Attempting
<1>4. CASE Wake(w)
  <2>1. Moves(w, "scan", todo[w], cur[w], claim[w])
    BY <1>1, <1>4, MovesNext DEF Wake
  <2>2. QED BY <1>1, <1>3, <2>1, LeavesKeeps DEF Attempting
<1>5. CASE Scan(w)
  <2> DEFINE l == IF Discovered = {} THEN "asleep" ELSE "take"
  <2>1. Moves(w, l, Discovered, cur[w], claim[w])
    BY <1>1, <1>5 DEF Scan, Moves, Goto, TypeOK
  <2>2. l \in {"asleep", "scan", "take", "retry"} /\ ~Attempting(l)
    BY DEF Attempting
  <2> HIDE DEF l
  <2>3. QED BY <1>1, <1>2, <1>3, <2>1, <2>2, LeavesKeeps
<1>6. CASE DrainAgain(w)
  <2>1. Moves(w, "scan", todo[w], cur[w], claim[w])
    BY <1>1, <1>6, MovesNext DEF DrainAgain
  <2>2. QED BY <1>1, <1>3, <2>1, LeavesKeeps DEF Attempting
<1>7. QED BY <1>4, <1>5, <1>6

LEMMA TakeKeeps ==
  ASSUME Inv, NEW w \in Workers, Take(w)
  PROVE  Inv'
<1>1. TypeOK /\ Quiet /\ pc[w] = "take"
  BY QuietStep DEF Inv, Take
<1>2. PICK e \in todo[w] :
        /\ cur' = [cur EXCEPT ![w] = e]
        /\ todo' = [todo EXCEPT ![w] = @ \ {e}]
        /\ Goto(w, IF e \in Invalid THEN "block" ELSE "arbitrate")
  BY DEF Take
<1> DEFINE l == IF e \in Invalid THEN "block" ELSE "arbitrate"
<1>3. e \in Events /\ e # NoEvent /\ todo[w] \ {e} \in SUBSET Events /\ claim[w] \in Rows
  BY <1>1, ConstantsAssumption, HeldTyped
<1>4. Moves(w, l, todo[w] \ {e}, e, claim[w])
  BY <1>1, <1>2 DEF Moves, Goto, Take, TypeOK
<1>5. l \in Labels /\ Attempting(l) /\ Earns(w, l, e, claim[w])
  BY DEF Labels, Attempting, Earns, Locking
<1>6. l = "block" => ForCause(e)'
  BY DEF ForCause
<1> HIDE DEF l
<1>7. QED BY <1>1, <1>3, <1>4, <1>5, <1>6, WorkerMoves

LEMMA EndKeeps ==
  ASSUME Inv, NEW w \in Workers,
         SkipClaimed(w) \/ AttemptLost(w) \/ AwaitSale(w) \/ Crash(w)
         \/ (ProjectFails(w) /\ UNCHANGED <<book, proc>>)
         \/ (BlockFails(w) /\ UNCHANGED proc)
  PROVE  Inv'
<1>1. TypeOK /\ Quiet
  BY QuietStep DEF Inv, SkipClaimed, AttemptLost, AwaitSale, Crash, ProjectFails, BlockFails, tables
<1>2. /\ todo[w] \in SUBSET Events /\ cur[w] \in Events \cup {NoEvent}
      /\ Row("none") \in Rows /\ {} \in SUBSET Events /\ NoEvent \in Events \cup {NoEvent}
      /\ cur[w] # NoEvent <=> Attempting(pc[w])
  BY <1>1, HeldTyped
<1>3. CASE SkipClaimed(w) \/ AttemptLost(w)
  <2>1. Moves(w, "take", todo[w], NoEvent, Row("none"))
    BY <1>1, <1>3, MovesNext DEF SkipClaimed, AttemptLost
  <2>2. QED BY <1>1, <1>2, <2>1, LeavesKeeps DEF Attempting
<1>4. CASE AwaitSale(w) \/ ProjectFails(w) \/ BlockFails(w)
  <2>1. Moves(w, "retry", todo[w], cur[w], Row("none")) /\ Attempting(pc[w])
    BY <1>1, <1>4, MovesNext DEF AwaitSale, Attempts, ProjectFails, BlockFails, Attempting
  <2>2. QED BY <1>1, <1>2, <2>1, LeavesKeeps DEF Attempting
<1>5. CASE Crash(w)
  <2>1. Moves(w, "asleep", {}, NoEvent, Row("none"))
    BY <1>5 DEF Crash, Moves, Goto
  <2>2. QED BY <1>1, <1>2, <2>1, LeavesKeeps DEF Attempting
<1>6. QED BY <1>3, <1>4, <1>5
-----------------------------------------------------------------------------
(* The steps of an attempt.                                                *)

LEMMA OwnStays ==
  ASSUME TypeOK, NEW r \in Returns, NEW e \in Events
  PROVE  /\ Own(r, e) \in [Returns -> Events \cup {NoEvent}]
         /\ \A q \in Returns : owner[q] # NoEvent => Own(r, e)[q] = owner[q]
         /\ owner[r] \in {NoEvent, e} => Own(r, e)[r] = e
         /\ owner[r] \notin {NoEvent, e} => Own(r, e) = owner
  BY DEF TypeOK, Own

LEMMA ArbitrateKeeps ==
  ASSUME Inv, NEW w \in Workers, Arbitrate(w) \/ ArbitrateFails(w)
  PROVE  Inv'
<1>1. TypeOK /\ pc[w] = "arbitrate" /\ Stage(w)
  BY DEF Inv, StageIsEarned, Arbitrate, ArbitrateFails
<1>2. PICK e \in Events : e = cur[w]
  BY <1>1, CurParts
<1> DEFINE r == ReturnOf[e]
<1>3. /\ e # NoEvent /\ r \in Returns /\ e \notin Invalid
      /\ todo[w] \in SUBSET Events /\ claim[w] \in Rows /\ Row("none") \in Rows
  BY <1>1, <1>2, ConstantsAssumption, HeldTyped DEF Stage
<1>4. owner' \in {owner, Own(r, e)}
  BY <1>2 DEF Arbitrate, ArbitrateFails
<1>5. Quiet
  <2>1. owner' \in [Returns -> Events \cup {NoEvent}] /\ OwnersStay
    BY <1>1, <1>3, <1>4, OwnStays DEF TypeOK, OwnersStay
  <2>2. QED BY <1>1, <2>1, QuietFault DEF Quiet, Arbitrate, ArbitrateFails
<1>6. CASE Arbitrate(w)
  <2> DEFINE l == IF owner[r] \in {NoEvent, e} THEN "project" ELSE "block"
  <2>1. Moves(w, l, todo[w], e, claim[w])
    BY <1>1, <1>2, <1>6, MovesNext DEF Arbitrate
  <2>2. owner' = Own(r, e)
    BY <1>2, <1>6 DEF Arbitrate
  <2>3. l \in Labels /\ Attempting(l)
    BY DEF Labels, Attempting
  <2>4. Earns(w, l, e, claim[w])
    BY <1>1, <1>3, <2>2, OwnStays DEF Earns, Locking
  <2>5. l = "block" => ForCause(e)'
    BY <1>1, <1>3, <2>2, OwnStays DEF ForCause, Lost
  <2> HIDE DEF l
  <2>6. QED BY <1>3, <1>5, <2>1, <2>3, <2>4, <2>5, WorkerMoves
<1>7. CASE ArbitrateFails(w)
  <2>1. Moves(w, "retry", todo[w], e, Row("none"))
    BY <1>1, <1>2, <1>7, MovesNext DEF ArbitrateFails
  <2>2. QED BY <1>3, <1>5, <2>1, LeavesKeeps DEF Attempting
<1>8. QED BY <1>6, <1>7

LEMMA LockRowKeeps ==
  ASSUME Inv, NEW w \in Workers, LockRow(w)
  PROVE  Inv'
<1>1. TypeOK /\ Quiet /\ pc[w] = "project" /\ Stage(w)
  BY QuietStep DEF Inv, StageIsEarned, LockRow
<1>2. PICK e \in Events : e = cur[w]
  BY <1>1, CurParts
<1> DEFINE row == IF proc[e].st = "none" THEN Row("pending") ELSE proc[e]
<1>3. /\ e # NoEvent /\ todo[w] \in SUBSET Events /\ proc[e] \in Rows
      /\ e \notin Invalid /\ owner[ReturnOf[e]] = e /\ ReturnOf[e] \in Returns
  BY <1>1, <1>2, ConstantsAssumption, HeldTyped DEF Stage, TypeOK
<1>4. row \in Rows /\ row.st = IF proc[e].st = "none" THEN "pending" ELSE proc[e].st
  BY <1>3, RowsTyped DEF Statuses
<1>5. Moves(w, "locked", todo[w], e, row) /\ ~RowLocked(e)
  BY <1>1, <1>2 DEF LockRow, Moves, Goto, TypeOK
<1>6. owner'[ReturnOf[e]] = e
  BY <1>1, <1>3 DEF Quiet, OwnersStay
<1> HIDE DEF row
<1>7. Earns(w, "locked", e, row)
  BY <1>3, <1>4, <1>5, <1>6 DEF Earns
<1>8. "locked" \in Labels /\ Attempting("locked")
  BY DEF Labels, Attempting
<1>9. QED BY <1>1, <1>3, <1>4, <1>5, <1>7, <1>8, WorkerMoves

LEMMA GuardSaleKeeps ==
  ASSUME Inv, NEW w \in Workers, GuardSale(w)
  PROVE  Inv'
<1>1. TypeOK /\ Quiet /\ pc[w] = "locked" /\ Stage(w) /\ Attempts(w)
  BY QuietStep DEF Inv, StageIsEarned, GuardSale, Attempts
<1>2. PICK e \in Events : e = cur[w]
  BY <1>1, CurParts
<1>3. /\ e # NoEvent /\ todo[w] \in SUBSET Events /\ Row("none") \in Rows /\ claim[w] \in Rows
      /\ e \notin Invalid /\ owner[ReturnOf[e]] = e /\ ReturnOf[e] \in Returns
  BY <1>1, <1>2, ConstantsAssumption, HeldTyped DEF Stage, Locking
<1>4. /\ claim[w].st = IF proc[e].st = "none" THEN "pending" ELSE proc[e].st
      /\ ~Settled(proc[e])
  BY <1>1, <1>2 DEF Stage, Locking, Attempts, Settled
<1>5. SaleOf[e] \in saleUp /\ ~SaleLocked(SaleOf[e])
  BY <1>2 DEF GuardSale
<1>6. owner'[ReturnOf[e]] = e
  BY <1>1, <1>3 DEF Quiet, OwnersStay
<1>7. CASE Goto(w, "guarded") /\ e \notin Mismatched /\ Fits(e) /\ UNCHANGED <<todo, cur, claim>>
  <2>1. Moves(w, "guarded", todo[w], e, claim[w])
    BY <1>1, <1>2, <1>7, MovesNext
  <2>2. Earns(w, "guarded", e, claim[w])
    BY <1>1, <1>2, <1>3, <1>4, <1>5, <1>6, <1>7 DEF Earns, Locking
  <2>3. "guarded" \in Labels /\ Attempting("guarded")
    BY DEF Labels, Attempting
  <2>4. QED BY <1>1, <1>3, <2>1, <2>2, <2>3, WorkerMoves
<1>8. CASE RolledBack(w, "block") /\ (e \in Mismatched \/ ~Fits(e))
  <2>1. Moves(w, "block", todo[w], e, Row("none"))
    BY <1>1, <1>2, <1>8, MovesNext
  <2>2. Earns(w, "block", e, Row("none"))
    BY DEF Earns, Locking
  <2>3. "block" \in Labels /\ Attempting("block")
    BY DEF Labels, Attempting
  <2>4. rebuilds = 0 => e \notin book
    BY <1>4 DEF Inv, BookedIsProcessed, Settled
  <2>5. book' = book /\ (Fits(e)' <=> Fits(e))
    BY <1>1, SumsStay DEF Quiet
  <2>6. rebuilds = 0 => ForCause(e)'
    BY <1>8, <2>4, <2>5 DEF ForCause
  <2>7. QED BY <1>1, <1>3, <2>1, <2>2, <2>3, <2>6, WorkerMoves
<1>9. QED BY <1>2, <1>7, <1>8 DEF GuardSale
-----------------------------------------------------------------------------
(* The steps that write.                                                   *)

\* The types after a step that also sets the row of one event.
LEMMA SetRowTyped ==
  ASSUME TypeOK, WorkersTyped', UNCHANGED <<sales, inbox, owner, admin>>,
         Fault \/ UNCHANGED faults, book' \subseteq Events,
         NEW e \in Events, NEW row \in Rows, SetRow(e, row)
  PROVE  TypeOK'
<1>1. proc' \in [Events -> Rows]
  BY DEF TypeOK, SetRow
<1>2. faults' \in 0 .. MaxFaults
  BY QuietFault
<1>3. QED BY <1>1, <1>2 DEF TypeOK, WorkersTyped, Attempting, sales, admin

LEMMA EndTyped ==
  ASSUME TypeOK, NEW w \in Workers, Attempting(pc[w]), NextEvent(w) \/ RolledBack(w, "retry")
  PROVE  /\ WorkersTyped' /\ pc'[w] \in {"take", "retry"}
         /\ \A v \in Workers : v # w => Same(v)
<1>1. /\ todo[w] \in SUBSET Events /\ cur[w] \in Events /\ cur[w] # NoEvent /\ Row("none") \in Rows
      /\ "take" \in Labels /\ "retry" \in Labels /\ Attempting("retry") /\ ~Attempting("take")
  BY HeldTyped DEF Labels, Attempting
<1>2. CASE NextEvent(w)
  <2>1. Moves(w, "take", todo[w], NoEvent, Row("none"))
    BY <1>2, MovesNext
  <2>2. QED BY <1>1, <2>1, MoveTyped
<1>3. CASE RolledBack(w, "retry")
  <2>1. Moves(w, "retry", todo[w], cur[w], Row("none"))
    BY <1>3, MovesNext
  <2>2. PICK e \in Events : e = cur[w] /\ e # NoEvent
    BY <1>1
  <2>3. Moves(w, "retry", todo[w], e, Row("none"))
    BY <2>1, <2>2
  <2>4. QED BY <1>1, <2>2, <2>3, MoveTyped
<1>4. QED BY <1>2, <1>3

LEMMA ProjectKeeps ==
  ASSUME Inv, NEW w \in Workers, Project(w) \/ (ProjectFails(w) /\ WriteReturn(cur[w]) /\ pc[w] = "guarded")
  PROVE  Inv'
<1>1. /\ TypeOK /\ pc[w] = "guarded" /\ WriteReturn(cur[w]) /\ Attempting(pc[w])
      /\ NextEvent(w) \/ RolledBack(w, "retry")
      /\ UNCHANGED <<sales, inbox, owner, admin>> /\ (Fault \/ UNCHANGED faults)
  BY DEF Inv, Project, ProjectFails, Attempting
<1>2. cur[w] \in Events /\ Row("processed") \in Rows
  BY <1>1, CurParts, RowsTyped DEF Statuses
<1>3. /\ WorkersTyped' /\ pc'[w] \in {"take", "retry"}
      /\ \A v \in Workers : v # w => Same(v)
  BY <1>1, EndTyped
<1>4. book' \subseteq Events /\ SetRow(cur[w], Row("processed"))
  BY <1>1, <1>2 DEF WriteReturn, TypeOK
<1>5. TypeOK'
  BY <1>1, <1>2, <1>3, <1>4, SetRowTyped
<1>6. QED BY <1>1, <1>3, <1>5, WriteKeeps DEF sales, admin

LEMMA VerdictTyped ==
  ASSUME NEW row \in Rows
  PROVE  /\ BlockedRow(row) \in Rows /\ RetryRow(row) \in Rows
         /\ BlockedRow(row).st = IF row.st = "processed" THEN "processed" ELSE "blocked"
         /\ RetryRow(row).st = IF Settled(row) THEN row.st ELSE "retry"
<1>1. Row("blocked") \in Rows /\ Row("retry") \in Rows
      /\ Row("blocked").st = "blocked" /\ Row("retry").st = "retry"
  BY RowsTyped DEF Statuses
<1>2. QED BY <1>1 DEF BlockedRow, RetryRow

LEMMA VerdictKeeps ==
  ASSUME Inv, NEW w \in Workers,
         Block(w) \/ PersistReturnRetry(w)
         \/ (BlockFails(w) /\ ~RowLocked(cur[w]) /\ SetRow(cur[w], BlockedRow(proc[cur[w]])))
  PROVE  Inv'
<1>1. /\ TypeOK /\ pc[w] \in {"block", "retry"} /\ Attempting(pc[w]) /\ Stage(w)
      /\ NextEvent(w) \/ RolledBack(w, "retry")
      /\ UNCHANGED <<sales, inbox, owner, book, admin>> /\ (Fault \/ UNCHANGED faults)
      /\ ~RowLocked(cur[w])
  BY DEF Inv, StageIsEarned, Block, PersistReturnRetry, BlockFails, Attempting
<1>2. PICK e \in Events : e = cur[w]
  BY <1>1, CurParts DEF Attempting
<1> DEFINE row == IF pc[w] = "block" THEN BlockedRow(proc[e]) ELSE RetryRow(proc[e])
<1>3. SetRow(e, row) /\ ~RowLocked(e)
  BY <1>1, <1>2 DEF Block, PersistReturnRetry, BlockFails
<1>4. proc[e] \in Rows
  BY <1>1 DEF TypeOK
<1>5. /\ row \in Rows /\ (row.st = "processed" <=> proc[e].st = "processed")
      /\ row.st = "blocked" => proc[e].st = "blocked" \/ pc[w] = "block"
  BY <1>4, VerdictTyped DEF Settled
<1>6. row.st = "blocked" /\ rebuilds = 0 => proc[e].st = "blocked" \/ ForCause(e)
  BY <1>1, <1>2, <1>5 DEF Stage
<1>7. /\ WorkersTyped' /\ pc'[w] \in {"take", "retry"}
      /\ \A v \in Workers : v # w => Same(v)
  BY <1>1, EndTyped
<1> HIDE DEF row
<1>8. TypeOK'
  BY <1>1, <1>3, <1>5, <1>7, SetRowTyped DEF TypeOK
<1>9. \A v \in Workers : Same(v) \/ pc'[v] \in {"take", "retry"}
  BY <1>7
<1>10. UNCHANGED <<saleUp, owner, book, rebuild, rebuilds>>
  BY <1>1 DEF sales, admin
<1>11. QED BY <1>3, <1>5, <1>6, <1>8, <1>9, <1>10, RowKeeps

LEMMA DueKeeps ==
  ASSUME Inv, NEW e \in Events, Due(e)
  PROVE  Inv'
<1>1. TypeOK /\ proc[e].st = "retry" /\ proc[e] \in Rows
  BY DEF Inv, Due, NotDue, TypeOK
<1> DEFINE row == [proc[e] EXCEPT !.due = TRUE]
<1>2. row \in Rows /\ row.st = proc[e].st
  BY <1>1 DEF Rows
<1>3. SetRow(e, row)
  BY DEF Due
<1> HIDE DEF row
<1>4. WorkersTyped' /\ \A v \in Workers : Same(v)
  BY <1>1 DEF Due, worker, WorkersTyped, TypeOK, Attempting, Same
<1>5. TypeOK'
  BY <1>1, <1>2, <1>3, <1>4, SetRowTyped DEF Due, TypeOK
<1>6. UNCHANGED <<saleUp, owner, book, rebuild, rebuilds>>
  BY DEF Due, sales, admin
<1>7. QED BY <1>1, <1>2, <1>3, <1>4, <1>5, <1>6, RowKeeps

LEMMA IngestKeeps ==
  ASSUME Inv, \/ \E e \in Events : IngestReturn(e)
              \/ \E s \in Sales : IngestSale(s) \/ ProjectSale(s)
  PROVE  Inv'
<1>1. /\ UNCHANGED <<owner, book, proc, worker, admin, faults>> /\ saleUp \subseteq saleUp'
      /\ inbox' \subseteq Events /\ saleIn' \subseteq Sales /\ saleDone' \subseteq Sales
      /\ saleUp' \subseteq Sales
  BY DEF Inv, TypeOK, IngestReturn, IngestSale, ProjectSale, sales, tables
<1>2. TypeOK'
  BY <1>1 DEF Inv, TypeOK, worker, admin
<1>3. OwnersStay /\ \A v \in Workers : Same(v)
  BY <1>1 DEF OwnersStay, Same, worker
<1>4. UNCHANGED <<book, proc, rebuild, rebuilds>>
  BY <1>1 DEF admin
<1>5. QED BY <1>1, <1>2, <1>3, <1>4, MoveKeeps
-----------------------------------------------------------------------------
(* A rebuild.                                                              *)

LEMMA NothingSummed ==
  ASSUME book = {}, NEW s \in Sales
  PROVE  /\ IsFiniteSet(Units(Qty, OfSale(s))) /\ IsFiniteSet(Units(Refund, OfSale(s)))
         /\ Returned(s) = 0 /\ Refunded(s) = 0
<1>1. OfSale(s) = {} /\ \A f : Units(f, {}) = {}
  BY DEF OfSale, Units
<1>2. QED BY <1>1, FS_EmptySet DEF Returned, Refunded

LEMMA NothingOver ==
  ASSUME book = {}
  PROVE  SumsAreFinite /\ NeverOverReturned
<1>1. \A s \in Sales : Sold[s] \in Nat /\ Total[s] \in Nat
  BY ConstantsAssumption
<1>2. QED BY <1>1, NothingSummed DEF SumsAreFinite, NeverOverReturned

LEMMA NothingSummedThen ==
  ASSUME book' = {}
  PROVE  (SumsAreFinite /\ NeverOverReturned)'
<1>1. \A s \in Sales : Sold[s] \in Nat /\ Total[s] \in Nat
  BY ConstantsAssumption
<1>2. \A s \in Sales : OfSale(s)' = {} /\ \A f : Units(f, {}) = {}
  BY DEF OfSale, Units
<1>3. \A s \in Sales : Returned(s)' = 0 /\ Refunded(s)' = 0
  BY <1>2, FS_EmptySet DEF Returned, Refunded
<1>4. QED BY <1>1, <1>2, <1>3, FS_EmptySet DEF SumsAreFinite, NeverOverReturned

LEMMA ClearKeeps ==
  ASSUME Inv, RebuildClear
  PROVE  Inv'
<1>1. /\ UNCHANGED <<owner, proc, pc, todo, cur, claim>>
      /\ saleUp' = {} /\ book' = {} /\ rebuild' = "cleared" /\ rebuilds' = rebuilds + 1
  BY DEF RebuildClear, worker
<1>2. rebuilds \in Nat /\ rebuilds' # 0
  BY <1>1, ConstantsAssumption DEF Inv, TypeOK
<1>3. TypeOK'
  BY <1>1, ConstantsAssumption DEF Inv, TypeOK, RebuildClear
<1>4. \A w \in Workers : pc[w] # "guarded"
  <2> SUFFICES ASSUME NEW w \in Workers, pc[w] = "guarded" PROVE FALSE
    OBVIOUS
  <2>1. SaleOf[cur[w]] \in saleUp
    BY DEF Inv, StageIsEarned, Stage
  <2>2. QED BY <2>1 DEF RebuildClear, SaleLocked
<1>5. StageIsEarned'
  BY <1>1, <1>2, <1>4 DEF Inv, StageIsEarned, Stage
<1>6. LocksExclude'
  BY <1>1 DEF Inv, LocksExclude
<1>7. (SumsAreFinite /\ NeverOverReturned)'
  BY <1>1, NothingSummedThen
<1>8. (BookIsLegitimate /\ ProcessedIsProjected /\ BookedIsProcessed /\ BlockedForCause)'
  BY <1>1, <1>2 DEF BookIsLegitimate, ProcessedIsProjected, BookedIsProcessed, BlockedForCause
<1>9. QED BY <1>3, <1>5, <1>6, <1>7, <1>8 DEF Inv

LEMMA ResetKeeps ==
  ASSUME Inv, RebuildReset
  PROVE  Inv'
<1>1. /\ UNCHANGED <<saleUp, owner, book, pc, todo, cur, claim, rebuilds>>
      /\ rebuild = "cleared" /\ rebuild' = "idle" /\ rebuilds # 0 /\ TypeOK
  BY DEF RebuildReset, worker, Inv, BookedIsProcessed, TypeOK
<1>2. /\ proc' = [e \in Events |-> IF proc[e].st = "none" THEN proc[e] ELSE Row("pending")]
      /\ Row("pending") \in Rows /\ Row("pending").st = "pending"
  BY RowsTyped DEF RebuildReset, Statuses
<1>3. \A e \in Events : /\ proc'[e] \in Rows /\ proc'[e].st \in {"none", "pending"}
                        /\ RowLocked(e) => proc'[e] = proc[e]
  BY <1>1, <1>2 DEF RebuildReset, TypeOK
<1>4. TypeOK'
  <2>1. proc' \in [Events -> Rows]
    BY <1>2, <1>3
  <2>2. QED BY <1>1, <2>1 DEF TypeOK, RebuildReset
<1>5. SumsAreFinite' /\ NeverOverReturned' /\ \A e : Fits(e)' <=> Fits(e)
  BY <1>1, SumsStay DEF Inv
<1>6. StageIsEarned'
  <2> SUFFICES ASSUME NEW v \in Workers PROVE Stage(v)'
    BY DEF StageIsEarned
  <2>1. Stage(v) /\ OwnersStay /\ Same(v)
    BY <1>1 DEF Inv, StageIsEarned, OwnersStay, Same
  <2>2. pc[v] \in Locking => cur[v] \in Events
    BY <1>1, CurParts DEF Locking
  <2>3. pc[v] \in Locking => proc'[cur[v]].st = proc[cur[v]].st
    BY <1>3, <2>2 DEF RowLocked
  <2>4. pc[v] = "guarded" => SaleOf[cur[v]] \in saleUp /\ Fits(cur[v])
    BY <2>1 DEF Stage
  <2>5. QED BY <1>1, <1>5, <2>1, <2>3, <2>4, StageStays
<1>7. LocksExclude'
  BY <1>1 DEF Inv, LocksExclude
<1>8. (BookIsLegitimate /\ ProcessedIsProjected /\ BookedIsProcessed /\ BlockedForCause)'
  BY <1>1, <1>3 DEF Inv, BookIsLegitimate, ProcessedIsProjected, BookedIsProcessed, BlockedForCause
<1>9. QED BY <1>4, <1>5, <1>6, <1>7, <1>8 DEF Inv
-----------------------------------------------------------------------------
LEMMA InvInit == Init => Inv
<1> SUFFICES ASSUME Init PROVE Inv
  OBVIOUS
<1>1. TypeOK
  BY ConstantsAssumption, RowsTyped DEF Init, TypeOK, Statuses, Labels
<1>2. SumsAreFinite /\ NeverOverReturned
  BY NothingOver DEF Init
<1>3. \A e \in Events : proc[e].st = "none"
  BY RowsTyped DEF Init, Statuses
<1>4. BookIsLegitimate /\ ProcessedIsProjected /\ BlockedForCause /\ BookedIsProcessed
  BY <1>3 DEF Init, BookIsLegitimate, ProcessedIsProjected, BlockedForCause, BookedIsProcessed
<1>5. StageIsEarned /\ LocksExclude
  BY DEF Init, StageIsEarned, Stage, LocksExclude, Locking
<1>6. QED BY <1>1, <1>2, <1>4, <1>5 DEF Inv

LEMMA InvKept == Inv /\ [Next]_vars => Inv'
<1> SUFFICES ASSUME Inv, [Next]_vars PROVE Inv'
  OBVIOUS
<1>1. CASE UNCHANGED vars
  <2>1. /\ UNCHANGED <<inbox, saleIn, saleDone, saleUp, owner, book, proc, pc, todo, cur, claim>>
        /\ UNCHANGED <<rebuild, rebuilds, faults>>
    BY <1>1 DEF vars, sales, tables, worker, admin
  <2>2. TypeOK' /\ OwnersStay /\ \A v \in Workers : Same(v)
    BY <2>1 DEF Inv, TypeOK, OwnersStay, Same
  <2>3. QED BY <2>1, <2>2, MoveKeeps
<1>2. ASSUME NEW w \in Workers, WorkerStep(w) PROVE Inv'
  BY <1>2, DrainKeeps, TakeKeeps, ArbitrateKeeps, LockRowKeeps, EndKeeps, GuardSaleKeeps,
     ProjectKeeps, VerdictKeeps DEF WorkerStep
<1>3. ASSUME NEW w \in Workers, WorkerFault(w) PROVE Inv'
  <2>1. CASE ProjectFails(w)
    BY <2>1, EndKeeps, ProjectKeeps DEF ProjectFails
  <2>2. CASE BlockFails(w)
    BY <2>2, EndKeeps, VerdictKeeps DEF BlockFails
  <2>3. QED BY <1>3, <2>1, <2>2, ArbitrateKeeps, EndKeeps DEF WorkerFault
<1>4. QED BY <1>1, <1>2, <1>3, DueKeeps, IngestKeeps, ClearKeeps, ResetKeeps DEF Next

LEMMA InvAlways == Safe => []Inv
  BY InvInit, InvKept, PTL DEF Safe

\* Whatever the instances interleave, fail or rebuild, what is returned and
\* refunded for a sale stays within what was sold and paid.
THEOREM NeverOverReturnedAlways == Safe => []NeverOverReturned
  BY InvAlways, PTL DEF Inv

\* The book only has the durable winner of each return, over a projected
\* sale that it agrees with, and every processed return is in it.
THEOREM BookSound == Safe => []BookIsSound
<1>1. Inv => BookIsSound
  BY DEF Inv, BookIsSound
<1>2. QED BY <1>1, InvAlways, PTL

\* A return is blocked for a cause that still stands, unless a rebuild
\* replayed the book.
THEOREM BlockedHasCause == Safe => []BlockedForCause
  BY InvAlways, PTL DEF Inv
-----------------------------------------------------------------------------
(* The ledger of the returns.                                              *)

\* Work is only ever done on accepted events, and a return is owned by a
\* valid accepted event that claims it.
Accepted == \A w \in Workers : todo[w] \subseteq inbox /\ cur[w] \in inbox \cup {NoEvent}
OwnersClaim ==
    \A r \in Returns :
        owner[r] # NoEvent => owner[r] \in inbox \ Invalid /\ ReturnOf[owner[r]] = r

LedgerInv == Inv /\ Accepted /\ OwnersClaim

\* The only steps on the owners, and on the book.
LEMMA OwnerSteps ==
  ASSUME [Next]_vars
  PROVE  \/ owner' = owner
         \/ \E w \in Workers :
              /\ pc[w] = "arbitrate" /\ owner' = Own(ReturnOf[cur[w]], cur[w])
              /\ UNCHANGED <<inbox, book>>
  BY DEF Next, vars, sales, tables, worker, admin, IngestReturn, Due, IngestSale, ProjectSale,
         WorkerStep, WorkerFault, Wake, Scan, Take, DrainAgain, Arbitrate, LockRow, SkipClaimed,
         AwaitSale, GuardSale, Project, Block, PersistReturnRetry, ArbitrateFails, ProjectFails,
         BlockFails, AttemptLost, Crash, RebuildClear, RebuildReset

LEMMA BookSteps ==
  ASSUME [Next]_vars
  PROVE  \/ book' = book
         \/ \E w \in Workers :
              /\ pc[w] = "guarded" /\ book' = book \cup {cur[w]}
              /\ UNCHANGED <<inbox, owner>>
         \/ book' = {} /\ UNCHANGED <<inbox, owner>>
  BY DEF Next, vars, sales, tables, worker, admin, IngestReturn, Due, IngestSale, ProjectSale,
         WorkerStep, WorkerFault, Wake, Scan, Take, DrainAgain, Arbitrate, LockRow, SkipClaimed,
         AwaitSale, GuardSale, Project, Block, PersistReturnRetry, ArbitrateFails, ProjectFails,
         BlockFails, AttemptLost, Crash, RebuildClear, RebuildReset, WriteReturn

LEMMA InboxSteps ==
  ASSUME [Next]_vars
  PROVE  \/ inbox' = inbox
         \/ /\ \E e \in Events : e \notin inbox /\ inbox' = inbox \cup {e}
            /\ UNCHANGED <<owner, book>>
  BY DEF Next, vars, sales, tables, worker, admin, IngestReturn, Due, IngestSale, ProjectSale,
         WorkerStep, WorkerFault, Wake, Scan, Take, DrainAgain, Arbitrate, LockRow, SkipClaimed,
         AwaitSale, GuardSale, Project, Block, PersistReturnRetry, ArbitrateFails, ProjectFails,
         BlockFails, AttemptLost, Crash, RebuildClear, RebuildReset

\* A worker takes what it has discovered.
LEMMA WorkSteps ==
  ASSUME TypeOK, [Next]_vars, NEW v \in Workers
  PROVE  /\ todo'[v] \subseteq todo[v] \cup Discovered
         /\ cur'[v] \in todo[v] \cup {cur[v], NoEvent}
<1>1. CASE UNCHANGED <<todo, cur>>
  BY <1>1
<1>2. ASSUME NEW w \in Workers, WorkerStep(w) \/ WorkerFault(w), ~UNCHANGED <<todo, cur>>
      PROVE  /\ todo' \in {todo, [todo EXCEPT ![w] = Discovered], [todo EXCEPT ![w] = {}]}
                  \cup {[todo EXCEPT ![w] = @ \ {e}] : e \in todo[w]}
             /\ cur' \in {cur, [cur EXCEPT ![w] = NoEvent]} \cup {[cur EXCEPT ![w] = e] : e \in todo[w]}
  <2>1. CASE Take(w)
    BY <2>1 DEF Take
  <2>2. CASE Scan(w) \/ Crash(w)
    BY <2>2 DEF Scan, Crash
  <2>3. CASE ~Take(w) /\ ~Scan(w) /\ ~Crash(w)
    BY <1>2, <2>3
    DEF WorkerStep, WorkerFault, Wake, DrainAgain, Arbitrate, LockRow, SkipClaimed, AwaitSale,
        GuardSale, Project, Block, PersistReturnRetry, ArbitrateFails, ProjectFails, BlockFails,
        AttemptLost, NextEvent, RolledBack
  <2>4. QED BY <2>1, <2>2, <2>3
<1>3. ASSUME NEW w \in Workers, WorkerStep(w) \/ WorkerFault(w), ~UNCHANGED <<todo, cur>>
      PROVE  /\ todo'[v] \subseteq todo[v] \cup Discovered
             /\ cur'[v] \in todo[v] \cup {cur[v], NoEvent}
  BY <1>2, <1>3 DEF TypeOK
<1>4. QED
  BY <1>1, <1>3
  DEF Next, vars, worker, IngestReturn, Due, IngestSale, ProjectSale, RebuildClear, RebuildReset

LEMMA ClaimsKept ==
  ASSUME LedgerInv, [Next]_vars
  PROVE  LedgerInv'
<1>1. TypeOK /\ Inv' /\ StageIsEarned
  BY InvKept DEF LedgerInv, Inv
<1>2. inbox \subseteq inbox'
  BY InboxSteps
<1>3. Accepted'
  <2>1. Discovered \subseteq inbox
    BY DEF Discovered
  <2>2. QED BY <1>1, <1>2, <2>1, WorkSteps DEF LedgerInv, Accepted
<1>4. OwnersClaim'
  <2> SUFFICES ASSUME NEW r \in Returns, owner'[r] # NoEvent
               PROVE  owner'[r] \in inbox' \ Invalid /\ ReturnOf[owner'[r]] = r
    BY DEF OwnersClaim
  <2>1. CASE owner' = owner
    BY <1>2, <2>1 DEF LedgerInv, OwnersClaim
  <2>2. ASSUME NEW w \in Workers, pc[w] = "arbitrate", owner' = Own(ReturnOf[cur[w]], cur[w])
        PROVE  owner'[r] \in inbox' \ Invalid /\ ReturnOf[owner'[r]] = r
    <3>1. cur[w] \in inbox \ Invalid
      BY <1>1, <2>2, CurParts DEF LedgerInv, Accepted, StageIsEarned, Stage, Locking, TypeOK
    <3>2. owner'[r] = owner[r] \/ (r = ReturnOf[cur[w]] /\ owner'[r] = cur[w])
      BY <1>1, <2>2 DEF Own, TypeOK
    <3>3. QED BY <1>2, <3>1, <3>2 DEF LedgerInv, OwnersClaim
  <2>3. QED BY <2>1, <2>2, OwnerSteps
<1>5. QED BY <1>1, <1>3, <1>4 DEF LedgerInv

LEMMA LedgerInvAlways == Safe => []LedgerInv
<1>1. Init => LedgerInv
  BY InvInit DEF Init, LedgerInv, Accepted, OwnersClaim
<1>2. LedgerInv /\ [Next]_vars => LedgerInv'
  BY ClaimsKept
<1>3. QED BY <1>1, <1>2, PTL DEF Safe

\* The returns keep a ledger like that of the sales: of the valid events that
\* claim a return one wins for ever, and the book shows it as the winner
\* wrote it, or not at all until it is projected (again).
THEOREM ReturnsKeepALedger == Safe => ImplementsLedgerSteps
<1>1. Init => Ledger!Init
  BY DEF Init, Ledger!Init, Shown
<1>2. LedgerInv /\ [Next]_vars => [Ledger!Next]_Ledger!vars
  <2> SUFFICES ASSUME LedgerInv, [Next]_vars
               PROVE  Ledger!Next \/ UNCHANGED <<inbox, owner, Shown>>
    BY DEF Ledger!vars
  <2>1. TypeOK /\ StageIsEarned /\ BookIsLegitimate /\ Accepted /\ OwnersClaim /\ NoEvent \notin Events
    BY ConstantsAssumption DEF LedgerInv, Inv
  <2>2. UNCHANGED <<owner, book>> => UNCHANGED Shown
    BY DEF Shown
  <2>3. CASE inbox' # inbox
    BY <2>2, <2>3, InboxSteps DEF Ledger!Next, Ledger!Accept
  <2>4. ASSUME NEW w \in Workers, pc[w] = "arbitrate", owner' = Own(ReturnOf[cur[w]], cur[w]),
               UNCHANGED <<inbox, book>>, owner' # owner
        PROVE  Ledger!Next
    <3> DEFINE e == cur[w]  r == ReturnOf[e]
    <3>1. e \in Events /\ e \in inbox \ Invalid /\ r \in Returns
      BY <2>1, <2>4, CurParts, ConstantsAssumption
      DEF Accepted, StageIsEarned, Stage, Locking, TypeOK
    <3>2. owner[r] = NoEvent /\ owner' = [owner EXCEPT ![r] = e]
      BY <2>4 DEF Own
    <3>3. e \notin book /\ NoEvent \notin book
      BY <2>1, <3>1, <3>2 DEF BookIsLegitimate, TypeOK
    <3>4. UNCHANGED Shown
      <4> SUFFICES ASSUME NEW q \in Returns
                   PROVE  (IF owner'[q] \in book THEN owner'[q] ELSE NoEvent)
                            = (IF owner[q] \in book THEN owner[q] ELSE NoEvent)
        BY <2>4 DEF Shown
      <4>1. QED BY <2>1, <3>1, <3>2, <3>3 DEF TypeOK
    <3>5. QED BY <2>4, <3>1, <3>2, <3>4 DEF Ledger!Next, Ledger!Decide
  <2>5. ASSUME NEW w \in Workers, pc[w] = "guarded", book' = book \cup {cur[w]},
               UNCHANGED <<inbox, owner>>
        PROVE  Ledger!Next
    <3> DEFINE e == cur[w]  r == ReturnOf[e]
    <3>1. e \in Events /\ e # NoEvent /\ r \in Returns /\ owner[r] = e
      BY <2>1, <2>5, CurParts, ConstantsAssumption DEF StageIsEarned, Stage, Locking, TypeOK
    <3>2. \A q \in Returns : owner[q] = e => q = r
      BY <2>1, <3>1 DEF OwnersClaim
    <3>3. Shown' = [Shown EXCEPT ![r] = owner[r]]
      BY <2>5, <3>1, <3>2 DEF Shown
    <3>4. QED BY <2>5, <3>1, <3>3 DEF Ledger!Next, Ledger!Post
  <2>6. CASE book' = {} /\ UNCHANGED <<inbox, owner>>
    BY <2>6 DEF Shown, Ledger!Next, Ledger!Discard
  <2>7. QED BY <2>2, <2>3, <2>4, <2>5, <2>6, OwnerSteps, BookSteps
<1>3. QED BY <1>1, <1>2, LedgerInvAlways, PTL DEF Safe, Ledger!Safe, ImplementsLedgerSteps

\* What this module lets the sales do is what ProjectedSales lets them do.
LEMMA SalesAreSeen == Safe => SeesProjectedSales
<1>1. Init => Side!Init
  BY DEF Init, Side!Init
<1>2. [Next]_vars => [Side!Next]_Side!vars
  <2> SUFFICES ASSUME [Next]_vars PROVE Side!Next \/ UNCHANGED <<sales, rebuild>>
    BY DEF Side!vars, sales
  <2>1. ASSUME NEW s \in Sales, IngestSale(s) \/ ProjectSale(s)
        PROVE  Side!Next
    BY <2>1 DEF IngestSale, ProjectSale, admin, Side!Next, Side!Accept, Side!Appear
  <2>2. CASE RebuildClear \/ RebuildReset
    BY <2>2 DEF RebuildClear, RebuildReset, Side!Next, Side!Clear, Side!Reset
  <2>3. QED
    BY <2>1, <2>2
    DEF Next, vars, admin, IngestReturn, Due, WorkerStep, WorkerFault, Wake, Scan, Take,
        DrainAgain, Arbitrate, LockRow, SkipClaimed, AwaitSale, GuardSale, Project, Block,
        PersistReturnRetry, ArbitrateFails, ProjectFails, BlockFails, AttemptLost, Crash
<1>3. QED BY <1>1, <1>2, PTL DEF Safe, Side!Safe, SeesProjectedSales
-----------------------------------------------------------------------------
(* What the reports see of the returns.                                    *)

\* All that a worker ever writes: a return with its processed row, a verdict
\* or a retry.
LEMMA WorkerRows ==
  ASSUME NEW w \in Workers, WorkerStep(w) \/ WorkerFault(w)
  PROVE  /\ UNCHANGED <<inbox, saleUp, rebuild, rebuilds>>
         /\ \/ UNCHANGED <<book, proc>>
            \/ pc[w] = "guarded" /\ WriteReturn(cur[w])
            \/ pc[w] = "block" /\ UNCHANGED book /\ SetRow(cur[w], BlockedRow(proc[cur[w]]))
            \/ pc[w] = "retry" /\ UNCHANGED book /\ SetRow(cur[w], RetryRow(proc[cur[w]]))
<1>1. CASE ProjectFails(w)
  BY <1>1 DEF ProjectFails, sales, admin
<1>2. CASE BlockFails(w)
  BY <1>2 DEF BlockFails, sales, admin
<1>3. CASE WorkerStep(w)
  BY <1>3
  DEF sales, tables, admin, WorkerStep, Wake, Scan, Take, DrainAgain, Arbitrate, LockRow,
      SkipClaimed, AwaitSale, GuardSale, Project, Block, PersistReturnRetry
<1>4. CASE ArbitrateFails(w) \/ AttemptLost(w) \/ Crash(w)
  BY <1>4 DEF sales, tables, admin, ArbitrateFails, AttemptLost, Crash
<1>5. QED BY <1>1, <1>2, <1>3, <1>4 DEF WorkerFault

LEMMA FreshFromInv == Inv => FreshIsWhole
<1> SUFFICES ASSUME Inv PROVE FreshIsWhole
  OBVIOUS
<1>1. inbox \subseteq Events /\ book \subseteq Events
  BY DEF Inv, TypeOK
<1>2. ASSUME \A e \in inbox : Settled(proc[e]), rebuild = "idle"
      PROVE  inbox \subseteq book \cup BlockedEvents
  BY <1>1, <1>2 DEF Inv, ProcessedIsProjected, Settled, BlockedEvents
<1>3. ASSUME inbox \subseteq book \cup BlockedEvents, rebuilds = 0
      PROVE  \A e \in inbox : Settled(proc[e])
  BY <1>1, <1>3 DEF Inv, BookedIsProcessed, Settled, BlockedEvents
<1>4. QED BY <1>2, <1>3 DEF FreshIsWhole

LEMMA BookFits ==
  ASSUME Inv, [Next]_vars, NEW e \in book' \ book
  PROVE  SaleOf[e] \in saleUp /\ Fits(e)
<1>1. PICK w \in Workers : pc[w] = "guarded" /\ book' = book \cup {cur[w]}
  BY BookSteps
<1>2. e = cur[w]
  BY <1>1
<1>3. SaleOf[cur[w]] \in saleUp /\ Fits(cur[w])
  BY <1>1 DEF Inv, StageIsEarned, Stage
<1>4. QED BY <1>2, <1>3

\* What a worker writes is a step of the rows that are reported.
LEMMA WorkIsReported ==
  ASSUME LedgerInv, NEW w \in Workers, WorkerStep(w) \/ WorkerFault(w)
  PROVE  Tables!Projects \/ UNCHANGED Tables!vars
<1> DEFINE e == cur[w]
<1>1. TypeOK /\ StageIsEarned /\ BookedIsProcessed /\ Accepted /\ NoEvent \notin Events
  BY ConstantsAssumption DEF LedgerInv, Inv
<1>2. UNCHANGED <<inbox, rebuilds>>
  BY WorkerRows
<1>3. UNCHANGED (rebuilds > 0)
  BY <1>2
<1>4. ASSUME pc[w] \in {"guarded", "block", "retry"}
      PROVE  e \in Events /\ e \in inbox /\ proc[e] \in Rows
  BY <1>1, <1>4, CurParts DEF Accepted
<1>5. ASSUME NEW row, e \in Events, SetRow(e, row)
      PROVE  /\ row.st = "blocked" => BlockedEvents' = BlockedEvents \cup {e}
             /\ row.st # "blocked" /\ proc[e].st # "blocked" => BlockedEvents' = BlockedEvents
             /\ row = proc[e] => BlockedEvents' = BlockedEvents
  <2>1. proc'[e] = row /\ \A f \in Events : f # e => proc'[f] = proc[f]
    BY <1>1, <1>5 DEF SetRow, TypeOK
  <2>2. QED BY <1>5, <2>1 DEF BlockedEvents
<1>6. CASE UNCHANGED <<book, proc>>
  <2>1. UNCHANGED BlockedEvents
    BY <1>6 DEF BlockedEvents
  <2>2. QED BY <1>2, <1>3, <1>6, <2>1 DEF Tables!vars
<1>7. CASE pc[w] = "guarded" /\ WriteReturn(e)
  <2>1. e \in Events /\ e \in inbox /\ proc[e].st \notin {"processed", "blocked"}
    BY <1>1, <1>4, <1>7 DEF StageIsEarned, Stage, Settled
  <2>2. SetRow(e, Row("processed")) /\ Row("processed").st = "processed" /\ book' = book \cup {e}
    BY <1>7 DEF WriteReturn, Row
  <2>3. UNCHANGED BlockedEvents /\ e \notin BlockedEvents
    BY <1>5, <2>1, <2>2 DEF BlockedEvents
  <2>4. CASE e \in book
    <3>1. book' = book
      BY <2>2, <2>4
    <3>2. QED BY <1>2, <1>3, <2>3, <3>1 DEF Tables!vars
  <2>5. CASE e \notin book
    <3>1. Tables!Book(e)
      BY <1>2, <1>3, <2>1, <2>2, <2>3, <2>5 DEF Tables!Book
    <3>2. QED BY <2>1, <3>1 DEF Tables!Projects
  <2>6. QED BY <2>4, <2>5
<1>8. CASE pc[w] = "block" /\ UNCHANGED book /\ SetRow(e, BlockedRow(proc[e]))
  <2>1. e \in Events /\ e \in inbox
    BY <1>4, <1>8
  <2>2. CASE proc[e].st = "processed"
    <3>1. UNCHANGED BlockedEvents
      BY <1>5, <1>8, <2>1, <2>2 DEF BlockedRow
    <3>2. QED BY <1>2, <1>3, <1>8, <3>1 DEF Tables!vars
  <2>3. CASE proc[e].st # "processed"
    <3>1. BlockedRow(proc[e]).st = "blocked"
      BY <2>3 DEF BlockedRow, Row
    <3>2. BlockedEvents' = BlockedEvents \cup {e}
      BY <1>5, <1>8, <2>1, <3>1
    <3>3. CASE e \in BlockedEvents
      <4>1. UNCHANGED BlockedEvents
        BY <3>2, <3>3
      <4>2. QED BY <1>2, <1>3, <1>8, <4>1 DEF Tables!vars
    <3>4. CASE e \notin BlockedEvents
      <4>1. e \notin book \/ rebuilds > 0
        <5>1. rebuilds \in Nat
          BY <1>1, ConstantsAssumption DEF TypeOK
        <5>2. e \notin book \/ rebuilds # 0
          BY <1>1, <2>3 DEF BookedIsProcessed
        <5>3. QED BY <5>1, <5>2
      <4>2. Tables!Block(e)
        BY <1>2, <1>3, <1>8, <2>1, <3>2, <3>4, <4>1 DEF Tables!Block
      <4>3. QED BY <2>1, <4>2 DEF Tables!Projects
    <3>5. QED BY <3>3, <3>4
  <2>4. QED BY <2>2, <2>3
<1>9. CASE pc[w] = "retry" /\ UNCHANGED book /\ SetRow(e, RetryRow(proc[e]))
  <2>1. e \in Events
    BY <1>4, <1>9
  <2>2. UNCHANGED BlockedEvents
    <3>1. CASE Settled(proc[e])
      BY <1>5, <1>9, <2>1, <3>1 DEF RetryRow
    <3>2. CASE ~Settled(proc[e])
      <4>1. RetryRow(proc[e]).st = "retry" /\ proc[e].st # "blocked"
        BY <3>2 DEF RetryRow, Row, Settled
      <4>2. QED BY <1>5, <1>9, <2>1, <4>1
    <3>3. QED BY <3>1, <3>2
  <2>3. QED BY <1>2, <1>3, <1>9, <2>2 DEF Tables!vars
<1>10. QED BY <1>6, <1>7, <1>8, <1>9, WorkerRows

\* The projectors, whatever they retry, lose or rebuild, do to the returns
\* only what the reports take them to do: no accepted return unsettled means
\* none missing from the book, and a return is booked over its sale and fits.
THEOREM ReturnsAreReported == Safe => IsReported
<1>1. Init => Tables!Init
  <2> SUFFICES ASSUME Init PROVE Tables!Init
    OBVIOUS
  <2>1. BlockedEvents = {}
    BY DEF Init, BlockedEvents, Row
  <2>2. (rebuilds > 0) = FALSE
    BY DEF Init
  <2>3. QED BY <2>1, <2>2 DEF Init, Tables!Init
<1>2. LedgerInv /\ [Next]_vars => [Tables!Projects \/ Tables!Operates]_Tables!vars
  <2> SUFFICES ASSUME LedgerInv, [Next]_vars
               PROVE  Tables!Projects \/ Tables!Operates \/ UNCHANGED Tables!vars
    OBVIOUS
  <2>1. TypeOK /\ BookedIsProcessed /\ rebuilds \in Nat
    BY ConstantsAssumption DEF LedgerInv, Inv, TypeOK
  <2>2. UNCHANGED proc => UNCHANGED BlockedEvents
    BY DEF BlockedEvents
  <2>3. UNCHANGED rebuilds => UNCHANGED (rebuilds > 0)
    OBVIOUS
  <2>4. CASE UNCHANGED vars
    BY <2>2, <2>3, <2>4 DEF vars, tables, admin, Tables!vars
  <2>5. ASSUME NEW f \in Events, IngestReturn(f)
        PROVE  Tables!Projects
    <3>1. Tables!Accept(f)
      BY <2>2, <2>3, <2>5 DEF IngestReturn, admin, Tables!Accept
    <3>2. QED BY <3>1 DEF Tables!Projects
  <2>6. ASSUME NEW f \in Events, Due(f)
        PROVE  UNCHANGED Tables!vars
    <3>1. /\ UNCHANGED <<inbox, book, rebuilds>> /\ proc[f].st = "retry"
          /\ proc' = [proc EXCEPT ![f] = [proc[f] EXCEPT !.due = TRUE]]
      BY <2>6 DEF Due, NotDue, SetRow, admin
    <3>2. proc[f] \in Rows
      BY <2>1 DEF TypeOK
    <3>3. \A g \in Events : proc'[g].st = proc[g].st
      BY <2>1, <3>1, <3>2 DEF TypeOK, Rows
    <3>4. UNCHANGED BlockedEvents
      BY <3>3 DEF BlockedEvents
    <3>5. QED BY <2>3, <3>1, <3>4 DEF Tables!vars
  <2>7. ASSUME NEW s \in Sales, IngestSale(s) \/ ProjectSale(s)
        PROVE  UNCHANGED Tables!vars
    BY <2>2, <2>3, <2>7 DEF IngestSale, ProjectSale, tables, admin, Tables!vars
  <2>8. CASE RebuildClear
    <3>1. (rebuilds' > 0) = TRUE
      BY <2>1, <2>8 DEF RebuildClear
    <3>2. Tables!Clear
      BY <2>2, <2>8, <3>1 DEF RebuildClear, Tables!Clear
    <3>3. QED BY <3>2 DEF Tables!Operates
  <2>9. CASE RebuildReset
    <3>1. rebuilds > 0 /\ UNCHANGED <<inbox, book, rebuilds>>
      BY <2>1, <2>9 DEF RebuildReset, BookedIsProcessed
    <3>2. \A f \in Events : proc'[f].st # "blocked"
      BY <2>9 DEF RebuildReset, Row
    <3>3. BlockedEvents' = {}
      BY <3>2 DEF BlockedEvents
    <3>4. Tables!Reset
      BY <2>3, <3>1, <3>3 DEF Tables!Reset
    <3>5. QED BY <3>4 DEF Tables!Operates
  <2>10. QED
    BY <2>4, <2>5, <2>6, <2>7, <2>8, <2>9, WorkIsReported DEF Next
<1>3. Inv /\ [Next]_vars => [\A e \in book' \ book : SaleOf[e] \in saleUp /\ Fits(e)]_vars
  BY BookFits
<1>4. Safe => Tables!Safe
  BY <1>1, <1>2, LedgerInvAlways, PTL DEF Safe, Tables!Safe
<1>5. Safe => []FreshIsWhole
  BY FreshFromInv, InvAlways, PTL
<1>6. Safe => BookedAsItFits
  BY <1>3, InvAlways, PTL DEF Safe, BookedAsItFits
<1>7. QED BY <1>4, <1>5, <1>6 DEF IsReported

\* The returns keep what the ledger, the projection of the sales and the
\* reports rely on, for any number of instances, faults and rebuilds.
THEOREM ReturnContractsKept == Safe => KeepsItsContracts
  BY ReturnsKeepALedger, SalesAreSeen, ReturnsAreReported DEF KeepsItsContracts
=============================================================================
