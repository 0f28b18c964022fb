------------------------ MODULE OutboxPublisherProofs -------------------------
(***************************************************************************)
(* Proofs about OutboxPublisher, for any publishers, events, partitions,   *)
(* batch size and failures.                                                *)
(*                                                                         *)
(* What is published is in the log because a row is marked only by the     *)
(* publisher that holds its lock and has read a successful report.  That   *)
(* repeats need failures is an amortised count: what a failure can make    *)
(* the publishers send again is paid for when the failure happens.         *)
(***************************************************************************)
EXTENDS OutboxPublisher, FiniteSetTheorems, TLAPS

-----------------------------------------------------------------------------
(* The helpers of the model *)

\* The event at the head of a batch is its oldest.
LEMMA FirstIsOldest ==
  ASSUME NEW S \in SUBSET Events, S # {}
  PROVE  First(S) \in S /\ \A d \in S : First(S) <= d
<1> DEFINE Less == OpToRel(<, Nat)
<1>1. S \subseteq Nat
  BY PublisherConstantsOK
<1>2. \A x, y \in Nat : <<y, x>> \in Less <=> y < x
  BY Zenon DEF OpToRel
<1>3. IsWellFoundedOn(Less, Nat)
  BY NatLessThanWellFounded
<1> HIDE DEF Less
<1>4. PICK x \in S : \A y \in S : <<y, x>> \notin Less
  BY <1>1, <1>3, WFMin
<1>5. \A y \in S : ~(y < x)
  BY <1>1, <1>2, <1>4, Zenon
<1>6. \A y \in S : x <= y
  BY <1>1, <1>5
<1> QED
  BY <1>6 DEF First

\* A smaller set has no more elements, one with an element more has at most one
\* more, one that has lost an element has one less.
LEMMA Counting ==
  ASSUME NEW S, IsFiniteSet(S), NEW T
  PROVE  /\ Cardinality(S) \in Nat
         /\ T \subseteq S => Cardinality(T) <= Cardinality(S) /\ Cardinality(T) \in Nat
         /\ \A x : T \subseteq S \cup {x} =>
              Cardinality(T) <= Cardinality(S) + 1 /\ Cardinality(T) \in Nat
         /\ \A x \in S : T \subseteq S \ {x} =>
              Cardinality(T) <= Cardinality(S) - 1 /\ Cardinality(T) \in Nat
<1>1. Cardinality(S) \in Nat
  BY FS_CardinalityType
<1>2. T \subseteq S => Cardinality(T) <= Cardinality(S) /\ Cardinality(T) \in Nat
  BY FS_Subset, FS_CardinalityType
<1>3. ASSUME NEW x, T \subseteq S \cup {x}
      PROVE  Cardinality(T) <= Cardinality(S) + 1 /\ Cardinality(T) \in Nat
  <2>1. IsFiniteSet(S \cup {x}) /\ Cardinality(S \cup {x}) <= Cardinality(S) + 1
    BY <1>1, FS_AddElement
  <2>2. IsFiniteSet(T) /\ Cardinality(T) <= Cardinality(S \cup {x})
    BY <1>3, <2>1, FS_Subset
  <2> QED
    BY <1>1, <2>1, <2>2, FS_CardinalityType
<1>4. ASSUME NEW x \in S, T \subseteq S \ {x}
      PROVE  Cardinality(T) <= Cardinality(S) - 1 /\ Cardinality(T) \in Nat
  <2>1. IsFiniteSet(S \ {x}) /\ Cardinality(S \ {x}) = Cardinality(S) - 1
    BY FS_RemoveElement
  <2>2. IsFiniteSet(T) /\ Cardinality(T) <= Cardinality(S \ {x})
    BY <1>4, <2>1, FS_Subset
  <2> QED
    BY <1>1, <2>1, <2>2, FS_CardinalityType
<1> QED
  BY <1>1, <1>2, <1>3, <1>4

\* LIMIT n yields rows of the table, at most n, and with a row every older one;
\* and some row if there is any.
LEMMA OldestRows ==
  ASSUME NEW S \in SUBSET Events, NEW n \in Nat \ {0}
  PROVE  /\ Oldest(S, n) \in SUBSET S
         /\ \A e \in Oldest(S, n), d \in S : d < e => d \in Oldest(S, n)
         /\ S # {} => Oldest(S, n) # {}
         /\ Cardinality(Oldest(S, n)) <= n
<1> DEFINE Older(e) == {d \in S : d < e}
<1>1. (\A e \in S : e \in Nat) /\ IsFiniteSet(S)
  BY PublisherConstantsOK, FS_Subset
<1>2. \A e \in S : IsFiniteSet(Older(e)) /\ Cardinality(Older(e)) \in Nat
  BY <1>1, FS_Subset, FS_CardinalityType
<1>3. \A e : e \in Oldest(S, n) <=> e \in S /\ Cardinality(Older(e)) < n
  BY DEF Oldest
<1>9. \A e \in S : \A d : d \in Older(e) <=> d \in S /\ d < e
  OBVIOUS
<1> HIDE DEF Older
<1>4. ASSUME NEW e \in S, NEW d \in S, d < e
      PROVE  Cardinality(Older(d)) < Cardinality(Older(e))
  <2>1. Older(d) \subseteq Older(e) \ {d} /\ d \in Older(e)
    <3>1. \A c \in S : c < d => c < e /\ c # d
      BY <1>1, <1>4
    <3> QED
      BY <1>4, <1>9, <3>1, Zenon
  <2>2. Cardinality(Older(d)) <= Cardinality(Older(e)) - 1
    BY <1>2, <2>1, Counting
  <2> QED
    BY <1>2, <2>2
<1>5. Oldest(S, n) \in SUBSET S
  BY <1>3
<1>6. \A e \in Oldest(S, n), d \in S : d < e => d \in Oldest(S, n)
  BY <1>2, <1>3, <1>4
<1>7. S # {} => Oldest(S, n) # {}
  <2>1. SUFFICES ASSUME S # {} PROVE First(S) \in Oldest(S, n)
    OBVIOUS
  <2>2. First(S) \in S /\ Older(First(S)) = {}
    <3>1. First(S) \in S /\ \A d \in S : First(S) <= d
      BY <2>1, FirstIsOldest
    <3>2. \A d \in S : ~(d < First(S))
      BY <1>1, <3>1
    <3> QED
      BY <1>9, <3>1, <3>2, Zenon
  <2> QED
    BY <1>3, <2>2, FS_EmptySet
<1>8. Cardinality(Oldest(S, n)) <= n
  <2> DEFINE rank == [e \in Oldest(S, n) |-> Cardinality(Older(e))]
  <2>1. rank \in [Oldest(S, n) -> 0..n - 1]
    BY <1>2, <1>3
  <2>2. \A d, e \in Oldest(S, n) : rank[d] = rank[e] => d = e
    <3> SUFFICES ASSUME NEW d \in Oldest(S, n), NEW e \in Oldest(S, n), d # e
                 PROVE  rank[d] # rank[e]
      OBVIOUS
    <3>1. d \in S /\ e \in S /\ (d < e \/ e < d)
      BY <1>1, <1>5
    <3> QED
      BY <1>2, <1>4, <3>1
  <2>3. rank \in Injection(Oldest(S, n), 0..n - 1)
    BY <2>1, <2>2 DEF Injection, IsInjective
  <2>4. IsFiniteSet(0..n - 1) /\ Cardinality(0..n - 1) = n
    BY FS_Interval
  <2> HIDE DEF rank
  <2> QED
    BY <2>3, <2>4, FS_Injection
<1> QED
  BY <1>5, <1>6, <1>7, <1>8

\* A record that is appended is in the log, and the others stay there.
LEMMA DeliverAppends ==
  ASSUME log \in [Partitions -> Seq(Events)], NEW e \in Events, Deliver(e)
  PROVE  /\ log' \in [Partitions -> Seq(Events)]
         /\ InLog(e)'
         /\ \A d \in Events : InLog(d) => InLog(d)'
         /\ \A d \in Events : InLog(d)' => InLog(d) \/ d = e
<1>1. Home[e] \in Partitions /\ \A d \in Events : Home[d] \in Partitions
  BY PublisherConstantsOK
<1>2. log' = [log EXCEPT ![Home[e]] = Append(@, e)]
  BY DEF Deliver
<1>3. log[Home[e]] \in Seq(Events)
  BY <1>1
<1>4. \A q \in Partitions \ {Home[e]} : log'[q] = log[q]
  BY <1>1, <1>2
<1>5. log'[Home[e]] = Append(log[Home[e]], e)
  BY <1>1, <1>2
<1>6. log' \in [Partitions -> Seq(Events)]
  BY <1>1, <1>2, <1>3
<1>7. DOMAIN log'[Home[e]] = 1..Len(log[Home[e]]) + 1
  BY <1>3, <1>5
<1>8. DOMAIN log[Home[e]] = 1..Len(log[Home[e]]) /\ Len(log[Home[e]]) \in Nat
  BY <1>3
<1>9. \A i \in DOMAIN log[Home[e]] : log'[Home[e]][i] = log[Home[e]][i]
  BY <1>3, <1>5, <1>8
<1>10. log'[Home[e]][Len(log[Home[e]]) + 1] = e
  BY <1>3, <1>5
<1>11. InLog(e)'
  BY <1>7, <1>8, <1>10 DEF InLog
<1>12. \A d \in Events : InLog(d) => InLog(d)'
  <2> SUFFICES ASSUME NEW d \in Events, InLog(d) PROVE InLog(d)'
    OBVIOUS
  <2>1. CASE Home[d] # Home[e]
    <3>1. log'[Home[d]] = log[Home[d]]
      BY <1>1, <1>4, <2>1
    <3> QED
      BY <3>1 DEF InLog
  <2>2. CASE Home[d] = Home[e]
    <3>1. PICK i \in DOMAIN log[Home[e]] : log[Home[e]][i] = d
      BY <2>2 DEF InLog
    <3>2. i \in DOMAIN log'[Home[e]] /\ log'[Home[e]][i] = d
      BY <1>7, <1>8, <1>9, <3>1
    <3> QED
      BY <2>2, <3>2 DEF InLog
  <2> QED
    BY <2>1, <2>2
<1>13. \A d \in Events : InLog(d)' => InLog(d) \/ d = e
  <2> SUFFICES ASSUME NEW d \in Events, InLog(d)', d # e PROVE InLog(d)
    OBVIOUS
  <2>1. CASE Home[d] # Home[e]
    <3>1. log'[Home[d]] = log[Home[d]]
      BY <1>1, <1>4, <2>1
    <3> QED
      BY <3>1 DEF InLog
  <2>2. CASE Home[d] = Home[e]
    BY <1>7, <1>8, <1>9, <1>10, <2>2 DEF InLog
  <2> QED
    BY <2>1, <2>2
<1> QED
  BY <1>6, <1>11, <1>12, <1>13

-----------------------------------------------------------------------------
(* The inductive invariant *)

\* What publisher p holds at each of its steps: only a batch in hand has claimed
\* rows, the message in flight is the head of the batch, there is no report
\* before it, and a batch has no more than BatchSize rows.
Shape(p) ==
  /\ pc[p] \in {"idle", "closing", "down"} =>
       batch[p] = {} /\ marked[p] = {} /\ noted[p] = {} /\ ~inTx[p]
  /\ pc[p] \in {"produce", "await"} => batch[p] # {}
  /\ inflight[p] # None => pc[p] \in {"await", "closing"} /\ report[p] = None
  /\ inflight[p] # None /\ pc[p] = "await" => inflight[p] = First(batch[p])
  /\ report[p] # None => pc[p] = "await"
  /\ batch[p] \cap marked[p] = {}
  /\ Cardinality(batch[p] \cup marked[p] \cup noted[p]) <= BatchSize

\* p marks only what it has seen delivered.
Marks(p) ==
  /\ \A e \in marked[p] : InLog(e)
  /\ report[p] = "delivered" => InLog(First(batch[p]))

\* Row locks exclude each other, and a locked row stays unpublished.
LockInv ==
  /\ \A p \in Publishers : Locked(p) \subseteq rows \ published
  /\ \A p, r \in Publishers : p # r => Locked(p) \cap Locked(r) = {}

\* The inductive invariant.
IInv ==
  /\ TypeOK
  /\ \A p \in Publishers : Shape(p) /\ Marks(p)
  /\ LockInv
  /\ PublishedIsInLog

\* A step of p leaves what the other publishers hold alone ...
Others(p) ==
  \A r \in Publishers \ {p} :
    /\ pc'[r] = pc[r] /\ inflight'[r] = inflight[r] /\ report'[r] = report[r]
    /\ batch'[r] = batch[r] /\ marked'[r] = marked[r] /\ noted'[r] = noted[r]
    /\ inTx'[r] = inTx[r]

\* ... and removes nothing from the log.
LogGrows == \A e \in Events : InLog(e) => InLog(e)'

\* What a step of p has to keep of the invariant for all of it to be kept: it
\* locks only what is free, and publishes only what it has locked and marked.
LEMMA StepKeepsInvariant ==
  ASSUME IInv, NEW p \in Publishers, Others(p), LogGrows, TypeOK', Shape(p)', Marks(p)',
         rows' = rows,
         Locked(p)' \subseteq Locked(p) \cup Claimable,
         \/ published' = published
         \/ inTx[p] /\ published' = published \cup marked[p] /\ Locked(p)' = {}
  PROVE  IInv'
<1>1. \A r \in Publishers \ {p} : Shape(r)' /\ Locked(r)' = Locked(r)
  <2> SUFFICES ASSUME NEW r \in Publishers \ {p} PROVE Shape(r)' /\ Locked(r)' = Locked(r)
    OBVIOUS
  <2>1. /\ pc'[r] = pc[r] /\ inflight'[r] = inflight[r] /\ report'[r] = report[r]
        /\ batch'[r] = batch[r] /\ marked'[r] = marked[r] /\ noted'[r] = noted[r]
        /\ inTx'[r] = inTx[r]
    BY DEF Others
  <2>2. Shape(r)
    BY DEF IInv
  <2>3. Shape(r)'
    BY <2>1, <2>2 DEF Shape
  <2> QED
    BY <2>1, <2>3 DEF Locked
<1>2. \A r \in Publishers \ {p} : Marks(r)'
  <2> SUFFICES ASSUME NEW r \in Publishers \ {p} PROVE Marks(r)'
    OBVIOUS
  <2>1. marked'[r] = marked[r] /\ report'[r] = report[r] /\ batch'[r] = batch[r]
    BY DEF Others
  <2>2. marked[r] \subseteq Events
    BY DEF IInv, TypeOK
  <2>3. \A e \in marked'[r] : InLog(e)'
    BY <2>1, <2>2 DEF IInv, Marks, LogGrows
  <2>4. report'[r] = "delivered" => InLog(First(batch[r]))'
    <3> SUFFICES ASSUME report'[r] = "delivered" PROVE InLog(First(batch[r]))'
      OBVIOUS
    <3>1. batch[r] # {} /\ batch[r] \in SUBSET Events
      BY <2>1, PublisherConstantsOK DEF IInv, Shape, TypeOK
    <3>2. PICK e \in Events : e = First(batch[r]) /\ InLog(e)
      BY <2>1, <3>1, FirstIsOldest DEF IInv, Marks
    <3>3. InLog(e)' /\ e = First(batch[r])'
      BY <2>1, <3>2 DEF LogGrows
    <3> QED
      BY <3>3 DEF InLog
  <2> QED
    BY <2>3, <2>4 DEF Marks
<1>3. LockInv'
  <2>1. \A r \in Publishers : Locked(r) \subseteq rows \ published
    BY DEF IInv, LockInv
  <2>2. \A r \in Publishers \ {p} : Locked(r) \cap Locked(p) = {}
    BY DEF IInv, LockInv
  <2>3. Claimable \subseteq rows \ published /\ \A r \in Publishers : Locked(r) \cap Claimable = {}
    BY DEF Claimable
  <2>4. inTx[p] => marked[p] \subseteq Locked(p)
    BY DEF Locked
  <2>5. \A r \in Publishers \ {p} : Locked(r)' \subseteq rows' \ published'
    BY <1>1, <2>1, <2>2, <2>4
  <2>6. Locked(p)' \subseteq rows' \ published'
    BY <2>1, <2>3
  <2>7. \A r \in Publishers \ {p} : Locked(r)' \cap Locked(p)' = {}
    BY <1>1, <2>2, <2>3
  <2>8. \A r, t \in Publishers \ {p} : r # t => Locked(r)' \cap Locked(t)' = {}
    BY <1>1 DEF IInv, LockInv
  <2> QED
    BY <2>5, <2>6, <2>7, <2>8 DEF LockInv
<1>4. PublishedIsInLog'
  <2>1. \A e \in published \cup marked[p] : e \in Events /\ InLog(e)
    BY DEF IInv, TypeOK, PublishedIsInLog, Marks
  <2> QED
    BY <2>1 DEF LogGrows, PublishedIsInLog
<1> QED
  BY <1>1, <1>2, <1>3, <1>4 DEF IInv

-----------------------------------------------------------------------------
(* The steps *)

\* The head of a batch in hand is a locked event.
LEMMA HeadOfBatch ==
  ASSUME IInv, NEW p \in Publishers, pc[p] \in {"produce", "await"}
  PROVE  /\ First(batch[p]) \in batch[p] /\ First(batch[p]) \in Events
         /\ First(batch[p]) # None
         /\ \A d \in batch[p] : First(batch[p]) <= d
<1>1. batch[p] \in SUBSET Events /\ batch[p] # {}
  BY DEF IInv, TypeOK, Shape
<1>2. First(batch[p]) \in batch[p] /\ \A d \in batch[p] : First(batch[p]) <= d
  BY <1>1, FirstIsOldest
<1> QED
  BY <1>1, <1>2, PublisherConstantsOK

\* However a transaction ends: the publisher holds nothing, but may have a
\* message to flush.
LEMMA TransactionEnds ==
  ASSUME IInv, NEW p \in Publishers, Rollback(p),
         NEW step \in {"idle", "closing", "down"}, Goto(p, step),
         inflight' \in [Publishers -> Events \cup {None}],
         report' \in [Publishers -> {"delivered", "error", None}],
         \A r \in Publishers \ {p} : inflight'[r] = inflight[r] /\ report'[r] = report[r],
         report'[p] = None, inflight'[p] = None \/ step = "closing",
         log' \in [Partitions -> Seq(Events)], LogGrows,
         rows' = rows, spent' \in 0..MaxFaults,
         \/ published' = published /\ failed' = failed
         \/ /\ inTx[p] /\ published' = published \cup marked[p]
            /\ failed' = (failed \cup noted[p]) \ marked[p]
  PROVE  IInv'
<1>1. Others(p)
  BY DEF Others, Rollback, Goto, IInv, TypeOK
<1>2. inTx[p] => marked[p] \cup noted[p] \subseteq rows \ published
  BY DEF IInv, LockInv, Locked
<1>3. TypeOK'
  <2>1. /\ batch' \in [Publishers -> SUBSET Events]
        /\ marked' \in [Publishers -> SUBSET Events]
        /\ noted' \in [Publishers -> SUBSET Events]
        /\ inTx' \in [Publishers -> BOOLEAN]
        /\ pc' \in [Publishers -> PublisherSteps]
    BY DEF IInv, TypeOK, Rollback, Goto, PublisherSteps
  <2>2. rows' \in SUBSET Events /\ published' \in SUBSET rows'
        /\ failed' \in SUBSET (rows' \ published')
    BY <1>2 DEF IInv, TypeOK
  <2> QED
    BY <2>1, <2>2 DEF TypeOK
<1>4. pc'[p] = step /\ batch'[p] = {} /\ marked'[p] = {} /\ noted'[p] = {} /\ inTx'[p] = FALSE
  BY DEF Rollback, Goto, IInv, TypeOK
<1>5. Shape(p)'
  <2>1. Cardinality(batch'[p] \cup marked'[p] \cup noted'[p]) <= BatchSize
    BY <1>4, FS_EmptySet, PublisherConstantsOK
  <2> QED
    BY <1>4, <2>1 DEF Shape
<1>6. Marks(p)'
  BY <1>4, PublisherConstantsOK DEF Marks
<1>7. Locked(p)' = {}
  BY <1>4 DEF Locked
<1> QED
  BY <1>1, <1>3, <1>5, <1>6, <1>7, StepKeepsInvariant

\* The head of the batch is marked, published or failed, and the next follows.
LEMMA HeadIsMarked ==
  ASSUME IInv, NEW p \in Publishers, inTx[p], pc[p] \in {"produce", "await"},
         inflight[p] = None,
         \/ MarkFailed(p)
         \/ MarkPublished(p) /\ InLog(First(batch[p])),
         report' = [report EXCEPT ![p] = None],
         UNCHANGED <<table, log, inflight, spent>>
  PROVE  IInv'
<1> DEFINE e == First(batch[p])
<1>1. e \in batch[p] /\ e \in Events
  BY HeadOfBatch
<1>2. /\ batch' = [batch EXCEPT ![p] = @ \ {e}]
      /\ \/ marked' = marked
         \/ marked' = [marked EXCEPT ![p] = @ \cup {e}] /\ InLog(e)
      /\ \/ noted' = [noted EXCEPT ![p] = @ \cup {e}]
         \/ noted' = [noted EXCEPT ![p] = @ \ {e}]
      /\ inTx' = inTx
      /\ pc' = [pc EXCEPT ![p] = IF batch[p] = {e} THEN "commit" ELSE "produce"]
  BY DEF MarkFailed, MarkPublished, Goto, NextStep, IInv, TypeOK
<1> HIDE DEF e
<1>3. Others(p)
  BY <1>2 DEF Others, IInv, TypeOK
<1>4. TypeOK'
  <2>1. batch' \in [Publishers -> SUBSET Events] /\ marked' \in [Publishers -> SUBSET Events]
    BY <1>1, <1>2 DEF IInv, TypeOK
  <2>2. noted' \in [Publishers -> SUBSET Events] /\ inTx' \in [Publishers -> BOOLEAN]
    BY <1>1, <1>2 DEF IInv, TypeOK
  <2>3. pc' \in [Publishers -> PublisherSteps]
    BY <1>2 DEF IInv, TypeOK, PublisherSteps
  <2>4. report' \in [Publishers -> {"delivered", "error", None}]
    BY DEF IInv, TypeOK
  <2> QED
    BY <2>1, <2>2, <2>3, <2>4 DEF IInv, TypeOK, table
<1>5. /\ batch'[p] = batch[p] \ {e} /\ report'[p] = None /\ inflight'[p] = None
      /\ pc'[p] = IF batch[p] = {e} THEN "commit" ELSE "produce"
      /\ marked'[p] \subseteq marked[p] \cup {e} /\ noted'[p] \subseteq noted[p] \cup {e}
      /\ inTx'[p] = inTx[p]
  BY <1>2 DEF IInv, TypeOK
<1>6. batch'[p] \cup marked'[p] \cup noted'[p] \subseteq batch[p] \cup marked[p] \cup noted[p]
  BY <1>1, <1>5
<1>7. Shape(p)'
  <2>1. batch[p] \cup marked[p] \cup noted[p] \in SUBSET Events
    BY DEF IInv, TypeOK
  <2>2. Cardinality(batch'[p] \cup marked'[p] \cup noted'[p]) <= BatchSize
    <3>1. IsFiniteSet(batch[p] \cup marked[p] \cup noted[p])
      BY <2>1, FS_Subset, PublisherConstantsOK
    <3>2. Cardinality(batch[p] \cup marked[p] \cup noted[p]) <= BatchSize
      BY DEF IInv, Shape
    <3> QED
      BY <1>6, <3>1, <3>2, Counting, PublisherConstantsOK
  <2>3. batch'[p] \cap marked'[p] = {}
    BY <1>5 DEF IInv, Shape
  <2> QED
    BY <1>1, <1>5, <2>2, <2>3 DEF Shape
<1>8. \A d \in Events : InLog(d)' <=> InLog(d)
  BY DEF InLog
<1>9. Marks(p)'
  <2>1. \A d \in marked'[p] : d \in Events /\ InLog(d)
    BY <1>1, <1>2 DEF IInv, TypeOK, Marks
  <2> QED
    BY <1>5, <1>8, <2>1, PublisherConstantsOK DEF Marks
<1>10. Locked(p)' \subseteq Locked(p)
  BY <1>5, <1>6 DEF Locked
<1> QED
  BY <1>3, <1>4, <1>7, <1>8, <1>9, <1>10, StepKeepsInvariant DEF LogGrows, table

\* ClaimOutboxEvents.
LEMMA ClaimPreserves ==
  ASSUME IInv, NEW p \in Publishers, Claim(p)
  PROVE  IInv'
<1> DEFINE C == Oldest(Claimable, BatchSize)
<1>1. Claimable \in SUBSET Events /\ Claimable # {}
  BY DEF Claim, Claimable, IInv, TypeOK
<1>2. C \in SUBSET Claimable /\ C # {} /\ Cardinality(C) <= BatchSize /\ C \in SUBSET Events
  BY <1>1, OldestRows, PublisherConstantsOK
<1>3. /\ batch' = [batch EXCEPT ![p] = C] /\ inTx' = [inTx EXCEPT ![p] = TRUE]
      /\ pc' = [pc EXCEPT ![p] = "produce"]
      /\ UNCHANGED <<table, log, marked, noted, inflight, report, spent>>
  BY DEF Claim, Goto
<1> HIDE DEF C
<1>4. Others(p)
  BY <1>3 DEF Others, IInv, TypeOK
<1>5. TypeOK'
  BY <1>2, <1>3 DEF IInv, TypeOK, PublisherSteps, table
<1>6. marked[p] = {} /\ noted[p] = {} /\ inflight[p] = None /\ report[p] = None /\ pc[p] = "idle"
  BY DEF Claim, IInv, Shape
<1>7. pc'[p] = "produce" /\ batch'[p] = C /\ marked'[p] = {} /\ noted'[p] = {}
      /\ inflight'[p] = None /\ report'[p] = None
  BY <1>3, <1>6 DEF IInv, TypeOK
<1>8. Shape(p)' /\ Marks(p)'
  BY <1>2, <1>7, PublisherConstantsOK DEF Shape, Marks
<1>9. Locked(p)' \subseteq Claimable
  BY <1>2, <1>7 DEF Locked
<1>10. LogGrows
  BY <1>3 DEF LogGrows, InLog
<1> QED
  BY <1>3, <1>4, <1>5, <1>8, <1>9, <1>10, StepKeepsInvariant DEF table

\* Produce puts the head of the batch in the queue.
LEMMA ProducePreserves ==
  ASSUME IInv, NEW p \in Publishers, Produce(p)
  PROVE  IInv'
<1> DEFINE e == First(batch[p])
<1>1. e \in Events /\ pc[p] = "produce"
  BY HeadOfBatch DEF Produce
<1>2. /\ inflight' = [inflight EXCEPT ![p] = e] /\ pc' = [pc EXCEPT ![p] = "await"]
      /\ UNCHANGED <<table, log, tx, report, spent>>
  BY DEF Produce, Goto
<1>3. e = First(batch[p])' /\ batch' = batch /\ marked' = marked /\ noted' = noted /\ inTx' = inTx
  BY <1>2 DEF tx
<1> HIDE DEF e
<1>4. Others(p)
  BY <1>2, <1>3 DEF Others, IInv, TypeOK
<1>5. TypeOK'
  BY <1>1, <1>2, <1>3 DEF IInv, TypeOK, PublisherSteps, table
<1>6. pc'[p] = "await" /\ inflight'[p] = e /\ report'[p] = None
  BY <1>1, <1>2 DEF IInv, TypeOK, Shape
<1>7. Shape(p)' /\ Marks(p)'
  BY <1>1, <1>2, <1>3, <1>6, PublisherConstantsOK DEF IInv, Shape, Marks, InLog
<1>8. Locked(p)' = Locked(p)
  BY <1>3 DEF Locked
<1>9. LogGrows
  BY <1>2 DEF LogGrows, InLog
<1> QED
  BY <1>2, <1>4, <1>5, <1>7, <1>8, <1>9, StepKeepsInvariant DEF table

\* The message in flight is answered: with success only if it was appended.
LEMMA AnswerPreserves ==
  ASSUME IInv, NEW p \in Publishers, inflight[p] # None,
         \/ Deliver(inflight[p])
         \/ log' = log /\ report'[p] # "delivered",
         NEW result \in {"delivered", "error"},
         report' = [report EXCEPT ![p] = IF pc[p] = "await" THEN result ELSE None],
         inflight' = [inflight EXCEPT ![p] = None],
         UNCHANGED <<table, pc, tx>>, spent' \in 0..MaxFaults
  PROVE  IInv'
<1>1. PICK e \in Events : e = inflight[p]
  BY DEF IInv, TypeOK
<1>2. batch' = batch /\ marked' = marked /\ noted' = noted /\ inTx' = inTx /\ pc' = pc
  BY DEF tx
<1>3. /\ log' \in [Partitions -> Seq(Events)]
      /\ \A d \in Events : InLog(d) => InLog(d)'
      /\ report'[p] = "delivered" => InLog(e)'
  <2>1. CASE Deliver(inflight[p])
    BY <1>1, <2>1, DeliverAppends DEF IInv, TypeOK
  <2>2. CASE log' = log /\ report'[p] # "delivered"
    BY <2>2 DEF IInv, TypeOK, InLog
  <2> QED
    BY <2>1, <2>2
<1>4. Others(p)
  BY <1>2 DEF Others, IInv, TypeOK
<1>5. TypeOK'
  <2>1. report' \in [Publishers -> {"delivered", "error", None}]
    BY DEF IInv, TypeOK
  <2>2. inflight' \in [Publishers -> Events \cup {None}]
    BY DEF IInv, TypeOK
  <2> QED
    BY <1>2, <1>3, <2>1, <2>2 DEF IInv, TypeOK, table
<1>6. inflight'[p] = None /\ report'[p] = IF pc[p] = "await" THEN result ELSE None
  BY DEF IInv, TypeOK
<1>7. Shape(p)'
  BY <1>2, <1>6 DEF IInv, Shape
<1>8. Marks(p)'
  <2>1. \A d \in marked'[p] : InLog(d)'
    BY <1>2, <1>3 DEF IInv, TypeOK, Marks
  <2>2. ASSUME report'[p] = "delivered" PROVE InLog(First(batch[p]))'
    <3>1. e = First(batch[p])'
      BY <1>1, <1>2, <1>6, <2>2, PublisherConstantsOK DEF IInv, Shape
    <3> QED
      BY <1>3, <2>2, <3>1 DEF InLog
  <2> QED
    BY <2>1, <2>2 DEF Marks
<1>9. Locked(p)' = Locked(p)
  BY <1>2 DEF Locked
<1> QED
  BY <1>3, <1>4, <1>5, <1>7, <1>8, <1>9, StepKeepsInvariant DEF table, LogGrows

\* A failure is counted within its bound.
LEMMA FaultCounts ==
  ASSUME IInv, NEW kind, Fault(kind)
  PROVE  spent' \in 0..MaxFaults /\ spent' = spent + 1 /\ spent \in Nat
BY PublisherConstantsOK DEF IInv, TypeOK, Fault

\* The row of the message that was answered is updated, or the statement fails.
LEMMA ReadReportPreserves ==
  ASSUME IInv, NEW p \in Publishers, ReadReport(p)
  PROVE  IInv'
<1>1. pc[p] = "await" /\ report[p] # None /\ inflight[p] = None
  BY DEF ReadReport, IInv, Shape
<1>2. report' = [report EXCEPT ![p] = None] /\ UNCHANGED <<table, log, inflight, spent>>
  BY DEF ReadReport
<1>3. CASE inTx[p]
  <2>1. MarkFailed(p) \/ (MarkPublished(p) /\ report[p] = "delivered")
    BY <1>3 DEF ReadReport
  <2>2. report[p] = "delivered" => InLog(First(batch[p]))
    BY DEF IInv, Marks
  <2> QED
    BY <1>1, <1>2, <1>3, <2>1, <2>2, HeadIsMarked
<1>4. CASE ~inTx[p]
  <2>1. Rollback(p) /\ Goto(p, "idle")
    BY <1>4 DEF ReadReport
  <2>2. /\ report' \in [Publishers -> {"delivered", "error", None}]
        /\ report'[p] = None /\ \A r \in Publishers \ {p} : report'[r] = report[r]
    BY <1>2 DEF IInv, TypeOK
  <2>3. LogGrows
    BY <1>2 DEF LogGrows, InLog
  <2>4. /\ log' \in [Partitions -> Seq(Events)] /\ inflight' \in [Publishers -> Events \cup {None}]
        /\ inflight' = inflight /\ spent' \in 0..MaxFaults
        /\ rows' = rows /\ published' = published /\ failed' = failed
    BY <1>2 DEF IInv, TypeOK, table
  <2> QED
    BY <1>1, <2>1, <2>2, <2>3, <2>4, TransactionEnds
<1> QED
  BY <1>3, <1>4

\* Produce refuses the head of the batch.
LEMMA ProduceRefusesPreserves ==
  ASSUME IInv, NEW p \in Publishers, ProduceRefuses(p)
  PROVE  IInv'
<1>1. pc[p] = "produce" /\ report[p] = None /\ inflight[p] = None
  BY DEF ProduceRefuses, IInv, Shape
<1>2. UNCHANGED <<table, log, inflight, report, spent>>
  BY DEF ProduceRefuses
<1>3. CASE inTx[p]
  <2>1. MarkFailed(p)
    BY <1>3 DEF ProduceRefuses
  <2>2. report' = [report EXCEPT ![p] = None]
    BY <1>1, <1>2 DEF IInv, TypeOK
  <2> QED
    BY <1>1, <1>2, <1>3, <2>1, <2>2, HeadIsMarked
<1>4. CASE ~inTx[p]
  <2>1. Rollback(p) /\ Goto(p, "idle")
    BY <1>4 DEF ProduceRefuses
  <2>2. LogGrows
    BY <1>2 DEF LogGrows, InLog
  <2>3. /\ log' \in [Partitions -> Seq(Events)] /\ inflight' \in [Publishers -> Events \cup {None}]
        /\ report' \in [Publishers -> {"delivered", "error", None}]
        /\ inflight' = inflight /\ report' = report /\ spent' \in 0..MaxFaults
        /\ rows' = rows /\ published' = published /\ failed' = failed
    BY <1>2 DEF IInv, TypeOK, table
  <2> QED
    BY <1>1, <2>1, <2>2, <2>3, TransactionEnds
<1> QED
  BY <1>3, <1>4

\* COMMIT.
LEMMA CommitBatchPreserves ==
  ASSUME IInv, NEW p \in Publishers, CommitBatch(p)
  PROVE  IInv'
<1>1. pc[p] = "commit" /\ report[p] = None /\ inflight[p] = None
  BY DEF CommitBatch, IInv, Shape
<1>2. UNCHANGED <<rows, log, inflight, report, spent>> /\ Rollback(p) /\ Goto(p, "idle")
  BY DEF CommitBatch
<1>3. \/ published' = published /\ failed' = failed
      \/ /\ inTx[p] /\ published' = published \cup marked[p]
         /\ failed' = (failed \cup noted[p]) \ marked[p]
  BY DEF CommitBatch
<1>4. LogGrows
  BY <1>2 DEF LogGrows, InLog
<1>5. /\ log' \in [Partitions -> Seq(Events)] /\ inflight' \in [Publishers -> Events \cup {None}]
      /\ report' \in [Publishers -> {"delivered", "error", None}]
      /\ inflight' = inflight /\ report' = report /\ spent' \in 0..MaxFaults /\ rows' = rows
  BY <1>2 DEF IInv, TypeOK
<1> QED
  BY <1>1, <1>2, <1>3, <1>4, <1>5, TransactionEnds

\* SIGTERM, which may leave a message to flush.
LEMMA StopPreserves ==
  ASSUME IInv, NEW p \in Publishers, Stop(p)
  PROVE  IInv'
<1>1. /\ Fault("stop") /\ Rollback(p) /\ Goto(p, "closing")
      /\ report' = [report EXCEPT ![p] = None] /\ UNCHANGED <<table, log>>
  BY DEF Stop
<1>2. \/ inflight' = inflight
      \/ inflight' = [inflight EXCEPT ![p] = First(batch[p])] /\ First(batch[p]) \in Events
  BY HeadOfBatch DEF Stop
<1>3. /\ inflight' \in [Publishers -> Events \cup {None}]
      /\ \A r \in Publishers \ {p} : inflight'[r] = inflight[r]
  BY <1>2 DEF IInv, TypeOK
<1>4. /\ report' \in [Publishers -> {"delivered", "error", None}]
      /\ report'[p] = None /\ \A r \in Publishers \ {p} : report'[r] = report[r]
  BY <1>1 DEF IInv, TypeOK
<1>5. LogGrows
  BY <1>1 DEF LogGrows, InLog
<1>6. /\ log' \in [Partitions -> Seq(Events)] /\ spent' \in 0..MaxFaults
      /\ rows' = rows /\ published' = published /\ failed' = failed
  BY <1>1, FaultCounts DEF IInv, TypeOK, table
<1> QED
  BY <1>1, <1>3, <1>4, <1>5, <1>6, TransactionEnds

\* The process dies, and its message may be on the wire.
LEMMA CrashPreserves ==
  ASSUME IInv, NEW p \in Publishers, Crash(p)
  PROVE  IInv'
<1>1. /\ Fault("crash") /\ Rollback(p) /\ Goto(p, "down")
      /\ inflight' = [inflight EXCEPT ![p] = None]
      /\ report' = [report EXCEPT ![p] = None] /\ UNCHANGED table
  BY DEF Crash
<1>2. log' \in [Partitions -> Seq(Events)] /\ LogGrows
  <2>1. CASE log' = log
    BY <2>1 DEF IInv, TypeOK, LogGrows, InLog
  <2>2. CASE inflight[p] # None /\ Deliver(inflight[p])
    <3>1. inflight[p] \in Events
      BY <2>2 DEF IInv, TypeOK
    <3> QED
      BY <2>2, <3>1, DeliverAppends DEF IInv, TypeOK, LogGrows
  <2> QED
    BY <2>1, <2>2 DEF Crash
<1>3. /\ inflight' \in [Publishers -> Events \cup {None}] /\ inflight'[p] = None
      /\ report' \in [Publishers -> {"delivered", "error", None}] /\ report'[p] = None
      /\ \A r \in Publishers \ {p} : inflight'[r] = inflight[r] /\ report'[r] = report[r]
  BY <1>1 DEF IInv, TypeOK
<1>4. /\ spent' \in 0..MaxFaults
      /\ rows' = rows /\ published' = published /\ failed' = failed
  BY <1>1, FaultCounts DEF table
<1> QED
  BY <1>1, <1>2, <1>3, <1>4, TransactionEnds

\* The connection breaks: the locks are gone, the publisher is not aware of it.
LEMMA LoseConnectionPreserves ==
  ASSUME IInv, NEW p \in Publishers, LoseConnection(p)
  PROVE  IInv'
<1>1. /\ Fault("conn") /\ inTx' = [inTx EXCEPT ![p] = FALSE] /\ inTx[p]
      /\ UNCHANGED <<table, log, pc, batch, marked, noted, inflight, report>>
  BY DEF LoseConnection
<1>2. Others(p)
  BY <1>1 DEF Others, IInv, TypeOK
<1>3. TypeOK'
  BY <1>1, FaultCounts DEF IInv, TypeOK, table
<1>4. Shape(p)' /\ Marks(p)'
  BY <1>1 DEF IInv, Shape, Marks, InLog
<1>5. Locked(p)' = {}
  BY <1>1 DEF Locked, IInv, TypeOK
<1>6. LogGrows
  BY <1>1 DEF LogGrows, InLog
<1> QED
  BY <1>1, <1>2, <1>3, <1>4, <1>5, <1>6, StepKeepsInvariant DEF table

\* Flush ends, and the orchestrator starts the publisher again.
LEMMA RestartPreserves ==
  ASSUME IInv, NEW p \in Publishers, Closed(p) \/ Restart(p)
  PROVE  IInv'
<1>1. /\ UNCHANGED <<table, log, batch, marked, noted, inTx, report, spent>>
      /\ pc' = [pc EXCEPT ![p] = "down"] \/ pc' = [pc EXCEPT ![p] = "idle"]
      /\ inflight' = [inflight EXCEPT ![p] = None]
      /\ pc[p] \in {"closing", "down"}
  BY DEF Closed, Restart, Goto, tx, IInv, TypeOK, Shape
<1>2. Others(p)
  BY <1>1 DEF Others, IInv, TypeOK
<1>3. TypeOK'
  BY <1>1 DEF IInv, TypeOK, PublisherSteps, table
<1>4. pc'[p] \in {"down", "idle"} /\ inflight'[p] = None /\ report[p] = None
  BY <1>1 DEF IInv, TypeOK, Shape
<1>5. Shape(p)' /\ Marks(p)'
  BY <1>1, <1>4 DEF IInv, Shape, Marks, InLog
<1>6. Locked(p)' = Locked(p)
  BY <1>1 DEF Locked
<1>7. LogGrows
  BY <1>1 DEF LogGrows, InLog
<1> QED
  BY <1>1, <1>2, <1>3, <1>5, <1>6, <1>7, StepKeepsInvariant DEF table

\* The API commits a row.
LEMMA InsertPreserves ==
  ASSUME IInv, NEW e \in Events, Insert(e)
  PROVE  IInv'
<1>1. rows' = rows \cup {e}
      /\ UNCHANGED <<published, failed, log, pc, tx, inflight, report, spent>>
  BY DEF Insert
<1>2. TypeOK'
  BY <1>1 DEF IInv, TypeOK, tx
<1>3. \A p \in Publishers : Shape(p)' /\ Marks(p)' /\ Locked(p)' = Locked(p)
  BY <1>1 DEF IInv, Shape, Marks, Locked, InLog, tx
<1>4. LockInv' /\ PublishedIsInLog'
  BY <1>1, <1>3 DEF IInv, LockInv, PublishedIsInLog, InLog
<1> QED
  BY <1>2, <1>3, <1>4 DEF IInv

\* Every step of a publisher and of the brokers.
LEMMA PublishPreserves ==
  ASSUME IInv, Publish
  PROVE  IInv'
<1>1. PICK p \in Publishers : Work(p) \/ Acknowledge(p) \/ Fail(p)
  BY DEF Publish
<1>2. CASE Work(p)
  BY <1>2, ClaimPreserves, ProducePreserves, ProduceRefusesPreserves, ReadReportPreserves,
     CommitBatchPreserves, RestartPreserves DEF Work
<1>3. CASE Acknowledge(p)
  <2>1. spent' \in 0..MaxFaults
    BY <1>3 DEF Acknowledge, IInv, TypeOK
  <2> QED
    BY <1>3, <2>1, AnswerPreserves DEF Acknowledge
<1>4. CASE DeliveryFails(p)
  <2>1. spent' \in 0..MaxFaults
    BY <1>4, FaultCounts DEF DeliveryFails
  <2>2. report'[p] # "delivered"
    BY <1>4, PublisherConstantsOK DEF DeliveryFails, IInv, TypeOK
  <2> QED
    BY <1>4, <2>1, <2>2, AnswerPreserves DEF DeliveryFails
<1>5. CASE LoseConnection(p) \/ Stop(p) \/ Crash(p)
  BY <1>5, LoseConnectionPreserves, StopPreserves, CrashPreserves
<1> QED
  BY <1>1, <1>2, <1>3, <1>4, <1>5 DEF Fail

\* The publishers rest, while something else may fail.
Rest ==
  /\ UNCHANGED <<rows, published, failed, log, pc, batch, marked, noted, inTx, inflight, report>>
  /\ spent' \in 0..MaxFaults

LEMMA RestPreserves ==
  ASSUME IInv, Rest
  PROVE  IInv'
BY DEF Rest, IInv, TypeOK, Shape, Marks, LockInv, Locked, PublishedIsInLog, InLog

LEMMA InitInvariant ==
  ASSUME Init
  PROVE  IInv
<1>1. TypeOK
  BY PublisherConstantsOK DEF Init, TypeOK, PublisherSteps
<1>2. \A p \in Publishers : Shape(p) /\ Marks(p)
  BY FS_EmptySet, PublisherConstantsOK DEF Init, Shape, Marks
<1>3. LockInv /\ PublishedIsInLog
  BY DEF Init, LockInv, Locked, PublishedIsInLog
<1> QED
  BY <1>1, <1>2, <1>3 DEF IInv

-----------------------------------------------------------------------------
(* Theorems *)

\* The inductive invariant is one.
THEOREM Invariance == Spec => []IInv
<1>1. Init => IInv
  BY InitInvariant
<1>2. IInv /\ [Next]_vars => IInv'
  <2> SUFFICES ASSUME IInv, [Next]_vars PROVE IInv'
    OBVIOUS
  <2>1. CASE \E e \in Events : Insert(e)
    BY <2>1, InsertPreserves
  <2>2. CASE Publish
    BY <2>2, PublishPreserves
  <2>3. CASE UNCHANGED vars
    <3>1. Rest
      BY <2>3 DEF vars, Rest, IInv, TypeOK
    <3> QED
      BY <3>1, RestPreserves
  <2> QED
    BY <2>1, <2>2, <2>3 DEF Next, Drained
<1> QED
  BY <1>1, <1>2, PTL DEF Spec

\* The variables keep their types; only a committed row is published, and none
\* is both published and in error.
THEOREM TypeCorrect == Spec => []TypeOK
BY Invariance, PTL DEF IInv

\* Whatever fails between the delivery report, the UPDATE and COMMIT, a row is
\* marked published only when Kafka has its event.
THEOREM PublishedMeansDelivered == Spec => []PublishedIsInLog
BY Invariance, PTL DEF IInv

-----------------------------------------------------------------------------
(* Repeats need failures *)

\* The delivered events that p's COMMIT will publish.
Safe(p) ==
  IF inTx[p]
  THEN marked[p] \cup (IF report[p] = "delivered" THEN {First(batch[p])} ELSE {})
  ELSE {}

\* The events of partition q that are in the log and will be sent again: they are
\* not published, and no open transaction is about to publish them.
AtRisk(q) ==
  {e \in Events \ published :
     Home[e] = q /\ InLog(e) /\ \A p \in Publishers : e \notin Safe(p)}

\* The publishers whose message, on its way or the next, goes out in vain: their
\* transaction is gone.
Doomed == {p \in Publishers : ~inTx[p] /\ (pc[p] = "produce" \/ inflight[p] # None)}

\* The failures so far have paid for the repeats there are and those to come.
CreditInv ==
  \A q \in Partitions :
    Cardinality(Repeats(q)) + Cardinality(AtRisk(q)) + Cardinality(Doomed)
      <= spent * BatchSize

\* The sets that are counted are finite.
LEMMA Finite ==
  ASSUME IInv, NEW q \in Partitions
  PROVE  /\ IsFiniteSet(Repeats(q)) /\ Cardinality(Repeats(q)) \in Nat
         /\ IsFiniteSet(AtRisk(q)) /\ Cardinality(AtRisk(q)) \in Nat
         /\ IsFiniteSet(Doomed) /\ Cardinality(Doomed) \in Nat
         /\ \A p \in Publishers : IsFiniteSet(Safe(p)) /\ Cardinality(Safe(p)) \in Nat
<1>1. IsFiniteSet(Repeats(q))
  <2>1. log[q] \in Seq(Events)
    BY DEF IInv, TypeOK
  <2>2. Len(log[q]) \in Int /\ 1 \in Int /\ Repeats(q) \subseteq 1..Len(log[q])
    BY <2>1 DEF Repeats
  <2>3. IsFiniteSet(1..Len(log[q]))
    BY <2>2, FS_Interval
  <2> QED
    BY <2>2, <2>3, FS_Subset
<1>2. IsFiniteSet(AtRisk(q))
  <2>1. AtRisk(q) \subseteq Events
    BY DEF AtRisk
  <2> QED
    BY <2>1, FS_Subset, PublisherConstantsOK
<1>3. IsFiniteSet(Doomed)
  <2>1. Doomed \subseteq Publishers
    BY DEF Doomed
  <2> QED
    BY <2>1, FS_Subset, PublisherConstantsOK
<1>4. ASSUME NEW p \in Publishers PROVE IsFiniteSet(Safe(p))
  <2>1. marked[p] \subseteq Events
    BY DEF IInv, TypeOK
  <2>2. IsFiniteSet(marked[p])
    BY <2>1, FS_Subset, PublisherConstantsOK
  <2>3. IsFiniteSet(marked[p] \cup {First(batch[p])})
    BY <2>2, FS_AddElement
  <2>4. Safe(p) \subseteq marked[p] \cup {First(batch[p])}
    BY DEF Safe
  <2> QED
    BY <2>3, <2>4, FS_Subset
<1> QED
  BY <1>1, <1>2, <1>3, <1>4, FS_CardinalityType

\* What a COMMIT will publish is locked until then.
LEMMA SafeIsLocked ==
  ASSUME IInv, NEW p \in Publishers
  PROVE  Safe(p) \subseteq Locked(p) /\ Safe(p) \subseteq batch[p] \cup marked[p]
<1>1. CASE report[p] = "delivered"
  <2>1. pc[p] = "await"
    BY <1>1, PublisherConstantsOK DEF IInv, Shape
  <2> QED
    BY <2>1, HeadOfBatch DEF Safe, Locked
<1>2. CASE report[p] # "delivered"
  BY <1>2 DEF Safe, Locked
<1> QED
  BY <1>1, <1>2

\* What p may publish with its next COMMIT fits in its batch, beside the head of
\* the batch when that is yet to be delivered.
LEMMA SafeFits ==
  ASSUME IInv, NEW p \in Publishers
  PROVE  /\ Cardinality(Safe(p)) \in Nat /\ Cardinality(Safe(p)) <= BatchSize
         /\ pc[p] = "produce" \/ inflight[p] # None => Cardinality(Safe(p)) + 1 <= BatchSize
<1> DEFINE all == batch[p] \cup marked[p] \cup noted[p]
<1>1. IsFiniteSet(all) /\ Cardinality(all) <= BatchSize
  <2>1. all \subseteq Events
    BY DEF IInv, TypeOK
  <2> QED
    BY <2>1, FS_Subset, PublisherConstantsOK DEF IInv, Shape
<1>2. Safe(p) \subseteq all
  BY SafeIsLocked
<1>3. Cardinality(Safe(p)) <= Cardinality(all) /\ Cardinality(Safe(p)) \in Nat /\ Cardinality(all) \in Nat
  BY <1>1, <1>2, Counting
<1>4. ASSUME pc[p] = "produce" \/ inflight[p] # None
      PROVE  Cardinality(Safe(p)) + 1 <= BatchSize
  <2>1. CASE inTx[p]
    <3>1. pc[p] \in {"produce", "await"} /\ report[p] = None
      BY <1>4, <2>1 DEF IInv, Shape
    <3>2. First(batch[p]) \in batch[p]
      BY <3>1, HeadOfBatch
    <3>3. Safe(p) = marked[p]
      BY <2>1, <3>1, PublisherConstantsOK DEF Safe
    <3>4. Safe(p) \subseteq all \ {First(batch[p])} /\ First(batch[p]) \in all
      BY <3>2, <3>3 DEF IInv, Shape
    <3> HIDE DEF all
    <3>5. Cardinality(Safe(p)) <= Cardinality(all) - 1
      BY <1>1, <3>4, Counting
    <3> QED
      BY <1>1, <1>3, <3>5, PublisherConstantsOK
  <2>2. CASE ~inTx[p]
    BY <2>2, FS_EmptySet, PublisherConstantsOK DEF Safe
  <2> QED
    BY <2>1, <2>2
<1> HIDE DEF all
<1> QED
  BY <1>1, <1>3, <1>4, PublisherConstantsOK

\* An append repeats at most one record, and none if the event is new.
LEMMA DeliverRepeats ==
  ASSUME log \in [Partitions -> Seq(Events)], NEW e \in Events, Deliver(e), NEW q \in Partitions
  PROVE  /\ Repeats(q)' \subseteq Repeats(q) \cup {Len(log[q]) + 1}
         /\ q # Home[e] \/ ~InLog(e) => Repeats(q)' \subseteq Repeats(q)
<1>1. Home[e] \in Partitions /\ log[q] \in Seq(Events) /\ Len(log[q]) \in Nat
  BY PublisherConstantsOK
<1>2. CASE q # Home[e]
  <2>1. log'[q] = log[q]
    BY <1>1, <1>2 DEF Deliver
  <2>2. Repeats(q)' = Repeats(q)
    BY <2>1 DEF Repeats
  <2> QED
    BY <2>2
<1>3. CASE q = Home[e]
  <2>1. log'[q] = Append(log[q], e)
    BY <1>1, <1>3 DEF Deliver
  <2>2. DOMAIN log'[q] = 1..Len(log[q]) + 1 /\ DOMAIN log[q] = 1..Len(log[q])
    BY <1>1, <2>1
  <2>3. /\ \A i \in 1..Len(log[q]) : log'[q][i] = log[q][i]
        /\ log'[q][Len(log[q]) + 1] = e
    BY <1>1, <2>1
  <2>4. ASSUME NEW i \in Repeats(q)', i # Len(log[q]) + 1 PROVE i \in Repeats(q)
    <3>1. PICK j \in 1..i - 1 : log'[q][j] = log'[q][i]
      BY DEF Repeats
    <3>2. i \in 1..Len(log[q])
      BY <1>1, <2>2, <2>4 DEF Repeats
    <3>3. log[q][j] = log[q][i]
      BY <1>1, <2>3, <3>1, <3>2
    <3> QED
      BY <2>2, <3>2, <3>3 DEF Repeats
  <2>5. ASSUME ~InLog(e) PROVE Len(log[q]) + 1 \notin Repeats(q)'
    <3> SUFFICES ASSUME Len(log[q]) + 1 \in Repeats(q)' PROVE FALSE
      OBVIOUS
    <3>1. PICK j \in 1..(Len(log[q]) + 1) - 1 : log'[q][j] = log'[q][Len(log[q]) + 1]
      BY DEF Repeats
    <3>2. j \in 1..Len(log[q]) /\ log[q][j] = e
      BY <1>1, <2>3, <3>1
    <3> QED
      BY <1>3, <2>2, <2>5, <3>2 DEF InLog
  <2> QED
    BY <1>3, <2>4, <2>5
<1> QED
  BY <1>2, <1>3

\* A step of p changes the safety of no other publisher's events, and dooms no
\* other.  What becomes at risk was safe with p, or has just been appended.
LEMMA RiskOfStep ==
  ASSUME IInv, NEW p \in Publishers, Others(p), published \subseteq published',
         NEW q \in Partitions, NEW E,
         \A d \in Events : InLog(d)' => InLog(d) \/ d \in E
  PROVE  /\ AtRisk(q)' \subseteq AtRisk(q) \cup (Safe(p) \ (Safe(p)' \cup published')) \cup E
         /\ AtRisk(q)' \cap Safe(p)' = {}
         /\ \A d \in AtRisk(q)' : Home[d] = q
         /\ Doomed' \subseteq Doomed \cup {p}
<1>1. \A r \in Publishers \ {p} : Safe(r)' = Safe(r)
  BY DEF Others, Safe
<1>2. ASSUME NEW d \in AtRisk(q)', d \notin E, d \notin Safe(p)
      PROVE  d \in AtRisk(q)
  <2>1. d \in Events \ published' /\ Home[d] = q /\ InLog(d)' /\ \A r \in Publishers : d \notin Safe(r)'
    BY DEF AtRisk
  <2>2. InLog(d) /\ d \notin published
    BY <1>2, <2>1
  <2>3. \A r \in Publishers : d \notin Safe(r)
    BY <1>1, <1>2, <2>1
  <2> QED
    BY <2>1, <2>2, <2>3 DEF AtRisk
<1>3. \A d \in AtRisk(q)' : d \notin Safe(p)' /\ d \notin published' /\ Home[d] = q
  BY DEF AtRisk
<1>4. Doomed' \subseteq Doomed \cup {p}
  BY DEF Doomed, Others
<1> QED
  BY <1>2, <1>3, <1>4

\* A step that appends nothing, gives up nothing and dooms nobody.
LEMMA QuietStep ==
  ASSUME IInv, CreditInv, NEW p \in Publishers, Others(p), published \subseteq published',
         log' = log, Safe(p) \subseteq Safe(p)' \cup published',
         p \in Doomed' => p \in Doomed,
         spent' = spent \/ spent' = spent + 1
  PROVE  CreditInv'
<1> SUFFICES ASSUME NEW q \in Partitions
             PROVE  Cardinality(Repeats(q)') + Cardinality(AtRisk(q)') + Cardinality(Doomed')
                      <= spent' * BatchSize
  BY DEF CreditInv
<1>1. \A d \in Events : InLog(d)' => InLog(d) \/ d \in {}
  BY DEF InLog
<1>2. AtRisk(q)' \subseteq AtRisk(q) /\ Doomed' \subseteq Doomed
  BY <1>1, RiskOfStep
<1>3. Repeats(q)' = Repeats(q)
  BY DEF Repeats
<1>4. /\ Cardinality(AtRisk(q)') <= Cardinality(AtRisk(q)) /\ Cardinality(AtRisk(q)') \in Nat
      /\ Cardinality(Doomed') <= Cardinality(Doomed) /\ Cardinality(Doomed') \in Nat
  BY <1>2, Finite, Counting
<1>5. spent * BatchSize <= spent' * BatchSize /\ spent * BatchSize \in Nat /\ spent' * BatchSize \in Nat
  <2>1. spent \in Nat /\ BatchSize \in Nat
    BY PublisherConstantsOK DEF IInv, TypeOK
  <2>2. spent * BatchSize \in Nat /\ (spent + 1) * BatchSize = spent * BatchSize + BatchSize
    BY <2>1
  <2> QED
    BY <2>1, <2>2
<1>6. Cardinality(Repeats(q)) + Cardinality(AtRisk(q)) + Cardinality(Doomed) <= spent * BatchSize
  BY DEF CreditInv
<1> QED
  BY <1>3, <1>4, <1>5, <1>6, Finite

\* What an append (k = 1), and giving up the events L, add to the repeats there
\* are and to those to come.
LEMMA CostOfStep ==
  ASSUME IInv, NEW p \in Publishers, Others(p), published' = published,
         NEW L, L \subseteq Safe(p), Safe(p) \subseteq Safe(p)' \cup L,
         NEW k \in {0, 1}, log' = log \/ (k = 1 /\ \E e \in Events : Deliver(e)),
         NEW q \in Partitions
  PROVE  /\ Cardinality(Repeats(q)') + Cardinality(AtRisk(q)')
               <= Cardinality(Repeats(q)) + Cardinality(AtRisk(q)) + Cardinality(L) + k
         /\ Cardinality(Repeats(q)') \in Nat /\ Cardinality(AtRisk(q)') \in Nat
         /\ Cardinality(L) \in Nat
<1>1. IsFiniteSet(L) /\ Cardinality(L) \in Nat
  BY Finite, FS_Subset, FS_CardinalityType
<1>2. IsFiniteSet(AtRisk(q) \cup L)
      /\ Cardinality(AtRisk(q) \cup L) <= Cardinality(AtRisk(q)) + Cardinality(L)
      /\ Cardinality(AtRisk(q) \cup L) \in Nat
  <2>1. /\ IsFiniteSet(AtRisk(q) \cup L)
        /\ Cardinality(AtRisk(q) \cup L) =
             Cardinality(AtRisk(q)) + Cardinality(L) - Cardinality(AtRisk(q) \cap L)
    BY <1>1, Finite, FS_Union
  <2>2. IsFiniteSet(AtRisk(q) \cap L)
    BY <1>1, FS_Intersection
  <2>3. Cardinality(AtRisk(q) \cap L) \in Nat
    BY <2>2, FS_CardinalityType
  <2> QED
    BY <1>1, <2>1, <2>3, Finite, FS_CardinalityType
<1>3. Cardinality(Repeats(q)') + Cardinality(AtRisk(q)')
        <= Cardinality(Repeats(q)) + Cardinality(AtRisk(q)) + Cardinality(L) + k
      /\ Cardinality(Repeats(q)') \in Nat /\ Cardinality(AtRisk(q)') \in Nat
  <2>1. CASE log' = log
    <3>1. \A d \in Events : InLog(d)' => InLog(d) \/ d \in {}
      BY <2>1 DEF InLog
    <3>2. AtRisk(q)' \subseteq AtRisk(q) \cup L
      BY <3>1, RiskOfStep
    <3>3. Cardinality(AtRisk(q)') <= Cardinality(AtRisk(q) \cup L) /\ Cardinality(AtRisk(q)') \in Nat
      BY <1>2, <3>2, Counting
    <3>4. Repeats(q)' = Repeats(q)
      BY <2>1 DEF Repeats
    <3> QED
      BY <1>1, <1>2, <3>3, <3>4, Finite
  <2>2. CASE k = 1 /\ \E e \in Events : Deliver(e)
    <3>1. PICK e \in Events : Deliver(e)
      BY <2>2
    <3>2. log \in [Partitions -> Seq(Events)]
      BY DEF IInv, TypeOK
    <3>3. \A d \in Events : InLog(d)' => InLog(d) \/ d \in {e}
      BY <3>1, <3>2, DeliverAppends
    <3>4. CASE InLog(e)
      <4>1. \A d \in Events : InLog(d)' => InLog(d) \/ d \in {}
        BY <3>3, <3>4
      <4>2. AtRisk(q)' \subseteq AtRisk(q) \cup L
        BY <4>1, RiskOfStep
      <4>3. Cardinality(AtRisk(q)') <= Cardinality(AtRisk(q) \cup L) /\ Cardinality(AtRisk(q)') \in Nat
        BY <1>2, <4>2, Counting
      <4>4. Repeats(q)' \subseteq Repeats(q) \cup {Len(log[q]) + 1}
        BY <3>1, <3>2, DeliverRepeats
      <4>5. Cardinality(Repeats(q)') <= Cardinality(Repeats(q)) + 1 /\ Cardinality(Repeats(q)') \in Nat
        <5>1. PICK i : Repeats(q)' \subseteq Repeats(q) \cup {i}
          BY <4>4
        <5> QED
          BY <5>1, Finite, Counting
      <4> QED
        BY <1>1, <1>2, <2>2, <4>3, <4>5, Finite
    <3>5. CASE ~InLog(e)
      <4>1. AtRisk(q)' \subseteq (AtRisk(q) \cup L) \cup {e}
        BY <3>3, RiskOfStep
      <4>2. Cardinality(AtRisk(q)') <= Cardinality(AtRisk(q) \cup L) + 1 /\ Cardinality(AtRisk(q)') \in Nat
        <5> DEFINE S == AtRisk(q) \cup L
        <5>1. IsFiniteSet(S) /\ AtRisk(q)' \subseteq S \cup {e}
          BY <1>2, <4>1
        <5> HIDE DEF S
        <5>2. Cardinality(AtRisk(q)') <= Cardinality(S) + 1 /\ Cardinality(AtRisk(q)') \in Nat
          BY <5>1, Counting
        <5> QED
          BY <5>2 DEF S
      <4>3. Repeats(q)' \subseteq Repeats(q)
        BY <3>1, <3>2, <3>5, DeliverRepeats
      <4>4. Cardinality(Repeats(q)') <= Cardinality(Repeats(q)) /\ Cardinality(Repeats(q)') \in Nat
        BY <4>3, Finite, Counting
      <4> QED
        BY <1>1, <1>2, <2>2, <4>2, <4>4, Finite
    <3> QED
      BY <3>4, <3>5
  <2> QED
    BY <2>1, <2>2
<1> QED
  BY <1>1, <1>3

\* A failure pays for BatchSize repeats: for what it makes unsafe, for what it
\* appends and for the message it dooms.
LEMMA FailureStep ==
  ASSUME IInv, CreditInv, NEW p \in Publishers, Others(p), published' = published,
         spent' = spent + 1,
         NEW L, L \subseteq Safe(p), Safe(p) \subseteq Safe(p)' \cup L,
         NEW k \in {0, 1}, log' = log \/ (k = 1 /\ \E e \in Events : Deliver(e)),
         NEW m \in {0, 1}, p \in Doomed' => p \in Doomed \/ m = 1,
         Cardinality(L) + k + m <= BatchSize
  PROVE  CreditInv'
<1> SUFFICES ASSUME NEW q \in Partitions
             PROVE  Cardinality(Repeats(q)') + Cardinality(AtRisk(q)') + Cardinality(Doomed')
                      <= spent' * BatchSize
  BY DEF CreditInv
<1>1. Cardinality(L) \in Nat
  BY CostOfStep
<1>3. Cardinality(Repeats(q)') + Cardinality(AtRisk(q)')
        <= Cardinality(Repeats(q)) + Cardinality(AtRisk(q)) + Cardinality(L) + k
      /\ Cardinality(Repeats(q)') \in Nat /\ Cardinality(AtRisk(q)') \in Nat
  BY CostOfStep
<1>4. Cardinality(Doomed') <= Cardinality(Doomed) + m /\ Cardinality(Doomed') \in Nat
  <2>1. Doomed' \subseteq Doomed \cup {p}
    BY DEF Doomed, Others
  <2>2. CASE m = 1
    BY <2>1, <2>2, Finite, Counting
  <2>3. CASE m = 0
    <3>1. Doomed' \subseteq Doomed
      BY <2>1, <2>3
    <3> QED
      BY <2>3, <3>1, Finite, Counting
  <2> QED
    BY <2>2, <2>3
<1>5. spent' * BatchSize = spent * BatchSize + BatchSize /\ spent * BatchSize \in Nat
  <2>1. spent \in Nat /\ BatchSize \in Nat
    BY PublisherConstantsOK DEF IInv, TypeOK
  <2> QED
    BY <2>1
<1>6. Cardinality(Repeats(q)) + Cardinality(AtRisk(q)) + Cardinality(Doomed) <= spent * BatchSize
  BY DEF CreditInv
<1> QED
  BY <1>1, <1>3, <1>4, <1>5, <1>6, Finite, PublisherConstantsOK

\* The brokers acknowledge: an event that was at risk is repeated and safe, a new
\* one is safe; a doomed message may be repeated, or is at risk.
LEMMA AcknowledgeKeepsCredit ==
  ASSUME IInv, CreditInv, NEW p \in Publishers, Acknowledge(p)
  PROVE  CreditInv'
<1> SUFFICES ASSUME NEW q \in Partitions
             PROVE  Cardinality(Repeats(q)') + Cardinality(AtRisk(q)') + Cardinality(Doomed')
                      <= spent' * BatchSize
  BY DEF CreditInv
<1>1. PICK e \in Events : e = inflight[p] /\ Deliver(e)
  BY DEF Acknowledge, IInv, TypeOK
<1>2. /\ batch' = batch /\ marked' = marked /\ inTx' = inTx /\ pc' = pc /\ spent' = spent
      /\ published' = published /\ noted' = noted
      /\ inflight[p] # None /\ inflight' = [inflight EXCEPT ![p] = None]
      /\ report' = [report EXCEPT ![p] = IF pc[p] = "await" THEN "delivered" ELSE None]
  BY DEF Acknowledge, tx, table
<1>3. Others(p)
  BY <1>2 DEF Others, IInv, TypeOK
<1>4. pc[p] \in {"await", "closing"} /\ report[p] = None /\ inflight'[p] = None
  BY <1>2 DEF IInv, Shape, TypeOK
<1>5. p \notin Doomed' /\ Doomed' \subseteq Doomed \cup {p}
  BY <1>2, <1>3, <1>4 DEF Doomed, Others
<1>6. Cardinality(Repeats(q)) + Cardinality(AtRisk(q)) + Cardinality(Doomed) <= spent * BatchSize
  BY DEF CreditInv
<1>7. spent \in Nat /\ BatchSize \in Nat /\ spent * BatchSize \in Nat
  BY PublisherConstantsOK DEF IInv, TypeOK
<1>8. log \in [Partitions -> Seq(Events)]
  BY DEF IInv, TypeOK
<1>9. CASE ~inTx[p]
  <2>1. Safe(p) = {} /\ Safe(p)' = {}
    BY <1>2, <1>9 DEF Safe
  <2>2. /\ Cardinality(Repeats(q)') + Cardinality(AtRisk(q)')
             <= Cardinality(Repeats(q)) + Cardinality(AtRisk(q)) + Cardinality({}) + 1
        /\ Cardinality(Repeats(q)') \in Nat /\ Cardinality(AtRisk(q)') \in Nat
    BY <1>1, <1>2, <1>3, <2>1, CostOfStep
  <2>3. p \in Doomed /\ Doomed' \subseteq Doomed \ {p}
    BY <1>2, <1>5, <1>9 DEF Doomed
  <2>4. Cardinality(Doomed') <= Cardinality(Doomed) - 1 /\ Cardinality(Doomed') \in Nat
    BY <2>3, Finite, Counting
  <2> QED
    BY <1>2, <1>6, <1>7, <2>2, <2>4, Finite, FS_EmptySet
<1>10. CASE inTx[p]
  <2>1. pc[p] = "await" /\ e = First(batch[p]) /\ e \in batch[p]
    BY <1>1, <1>2, <1>4, <1>10, HeadOfBatch DEF IInv, Shape
  <2>2. Safe(p) = marked[p]
    BY <1>4, <1>10, PublisherConstantsOK DEF Safe
  <2>3. report'[p] = "delivered"
    BY <1>2, <2>1 DEF IInv, TypeOK
  <2>4. Safe(p)' = marked[p] \cup {e}
    BY <1>2, <1>10, <2>1, <2>3 DEF Safe
  <2>5. Cardinality(Doomed') <= Cardinality(Doomed) /\ Cardinality(Doomed') \in Nat
    BY <1>5, Finite, Counting
  <2>6. \A d \in Events : InLog(d)' => InLog(d) \/ d \in {e}
    BY <1>1, <1>8, DeliverAppends
  <2>7. AtRisk(q)' \subseteq AtRisk(q) \cup {e} /\ e \notin AtRisk(q)'
    BY <1>2, <1>3, <2>2, <2>4, <2>6, RiskOfStep
  <2>8. CASE q # Home[e] \/ ~InLog(e)
    <3>1. Repeats(q)' \subseteq Repeats(q) /\ AtRisk(q)' \subseteq AtRisk(q)
      BY <1>1, <1>8, <2>7, <2>8, DeliverRepeats
    <3>2. /\ Cardinality(Repeats(q)') <= Cardinality(Repeats(q)) /\ Cardinality(Repeats(q)') \in Nat
          /\ Cardinality(AtRisk(q)') <= Cardinality(AtRisk(q)) /\ Cardinality(AtRisk(q)') \in Nat
      BY <3>1, Finite, Counting
    <3> QED
      BY <1>2, <1>6, <1>7, <2>5, <3>2, Finite
  <2>9. CASE q = Home[e] /\ InLog(e)
    <3>1. e \in Locked(p)
      BY <1>10, <2>1 DEF Locked
    <3>2. e \notin published /\ \A r \in Publishers \ {p} : e \notin Safe(r)
      BY <3>1, SafeIsLocked DEF IInv, LockInv
    <3>3. e \notin Safe(p)
      BY <2>1, <2>2 DEF IInv, Shape
    <3>4. e \in AtRisk(q) /\ AtRisk(q)' \subseteq AtRisk(q) \ {e}
      BY <2>7, <2>9, <3>2, <3>3 DEF AtRisk
    <3>5. Cardinality(AtRisk(q)') <= Cardinality(AtRisk(q)) - 1 /\ Cardinality(AtRisk(q)') \in Nat
      BY <3>4, Finite, Counting
    <3>6. PICK i : Repeats(q)' \subseteq Repeats(q) \cup {i}
      BY <1>1, <1>8, DeliverRepeats
    <3>7. Cardinality(Repeats(q)') <= Cardinality(Repeats(q)) + 1 /\ Cardinality(Repeats(q)') \in Nat
      BY <3>6, Finite, Counting
    <3> QED
      BY <1>2, <1>6, <1>7, <2>5, <3>5, <3>7, Finite
  <2> QED
    BY <2>8, <2>9
<1> QED
  BY <1>9, <1>10

\* What a publisher does when nothing fails costs nothing: what it gives up is
\* published, and a doomed publisher only gets rid of its doom.
LEMMA WorkKeepsCredit ==
  ASSUME IInv, CreditInv, NEW p \in Publishers, Work(p)
  PROVE  CreditInv'
<1>1. /\ inTx \in [Publishers -> BOOLEAN] /\ marked \in [Publishers -> SUBSET Events]
      /\ pc \in [Publishers -> PublisherSteps] /\ batch \in [Publishers -> SUBSET Events]
      /\ noted \in [Publishers -> SUBSET Events]
      /\ inflight \in [Publishers -> Events \cup {None}]
      /\ report \in [Publishers -> {"delivered", "error", None}]
  BY DEF IInv, TypeOK
<1>2. CASE Claim(p)
  <2>1. Others(p)
    BY <1>1, <1>2 DEF Claim, Goto, Others
  <2>2. Safe(p) = {}
    BY <1>2 DEF Claim, Safe, IInv, Shape
  <2>3. p \notin Doomed'
    BY <1>1, <1>2 DEF Claim, Doomed
  <2> QED
    BY <1>2, <2>1, <2>2, <2>3, QuietStep DEF Claim, table
<1>3. CASE Produce(p)
  <2>1. Others(p)
    BY <1>1, <1>3 DEF Produce, Goto, Others, tx
  <2>2. Safe(p)' = Safe(p)
    BY <1>3 DEF Produce, Safe, tx
  <2>3. p \in Doomed' => p \in Doomed
    BY <1>3 DEF Produce, Doomed, tx
  <2> QED
    BY <1>3, <2>1, <2>2, <2>3, QuietStep DEF Produce, table
<1>4. CASE ProduceRefuses(p)
  <2>1. Others(p)
    BY <1>1, <1>4 DEF ProduceRefuses, MarkFailed, Rollback, Goto, Others
  <2>2. Safe(p) \subseteq Safe(p)'
    <3>1. report[p] = None
      BY <1>4 DEF ProduceRefuses, IInv, Shape
    <3>2. Safe(p) \subseteq marked[p]
      BY <3>1, PublisherConstantsOK DEF Safe
    <3>3. inTx[p] => inTx'[p] /\ marked' = marked
      BY <1>4 DEF ProduceRefuses, MarkFailed
    <3> QED
      BY <3>2, <3>3 DEF Safe
  <2>3. p \in Doomed' => p \in Doomed
    <3>1. inflight'[p] = None
      BY <1>4 DEF ProduceRefuses, IInv, Shape
    <3>2. inTx[p] => inTx'[p]
      BY <1>4 DEF ProduceRefuses, MarkFailed
    <3>3. ~inTx[p] => pc'[p] = "idle"
      BY <1>1, <1>4 DEF ProduceRefuses, Goto
    <3> QED
      BY <3>1, <3>2, <3>3 DEF Doomed
  <2> QED
    BY <1>4, <2>1, <2>2, <2>3, QuietStep DEF ProduceRefuses, table
<1>5. CASE ReadReport(p)
  <2>1. Others(p)
    BY <1>1, <1>5 DEF ReadReport, MarkPublished, MarkFailed, Rollback, Goto, Others
  <2>2. Safe(p) \subseteq Safe(p)'
    <3>1. CASE inTx[p] /\ report[p] = "delivered"
      BY <1>1, <1>5, <3>1 DEF ReadReport, MarkPublished, Safe
    <3>2. CASE inTx[p] /\ report[p] # "delivered"
      BY <1>1, <1>5, <3>2 DEF ReadReport, MarkFailed, Safe
    <3>3. CASE ~inTx[p]
      BY <3>3 DEF Safe
    <3> QED
      BY <3>1, <3>2, <3>3
  <2>3. p \notin Doomed'
    <3>1. inflight'[p] = None
      BY <1>5 DEF ReadReport, IInv, Shape
    <3>2. inTx[p] => inTx'[p]
      BY <1>5 DEF ReadReport, MarkPublished, MarkFailed
    <3>3. ~inTx[p] => pc'[p] = "idle"
      BY <1>1, <1>5 DEF ReadReport, Goto
    <3> QED
      BY <3>1, <3>2, <3>3 DEF Doomed
  <2> QED
    BY <1>5, <2>1, <2>2, <2>3, QuietStep DEF ReadReport, table
<1>6. CASE CommitBatch(p)
  <2>1. Others(p)
    BY <1>1, <1>6 DEF CommitBatch, Rollback, Goto, Others
  <2>2. Safe(p) \subseteq published' /\ published \subseteq published'
    <3>1. report[p] # "delivered"
      BY <1>6, PublisherConstantsOK DEF CommitBatch, IInv, Shape
    <3> QED
      BY <1>6, <3>1 DEF CommitBatch, Safe
  <2>3. p \notin Doomed'
    BY <1>1, <1>6 DEF CommitBatch, Goto, Doomed, IInv, Shape
  <2> QED
    BY <1>6, <2>1, <2>2, <2>3, QuietStep DEF CommitBatch
<1>7. CASE Closed(p) \/ Restart(p)
  <2>1. Others(p)
    BY <1>1, <1>7 DEF Closed, Restart, Goto, Others, tx
  <2>2. Safe(p)' = Safe(p)
    BY <1>7 DEF Closed, Restart, Safe, tx
  <2>3. p \notin Doomed'
    <3>1. inflight'[p] = None /\ pc'[p] \in {"down", "idle"}
      BY <1>1, <1>7 DEF Closed, Restart, Goto, IInv, Shape
    <3> QED
      BY <3>1 DEF Doomed
  <2> QED
    BY <1>7, <2>1, <2>2, <2>3, QuietStep DEF Closed, Restart, table
<1> QED
  BY <1>2, <1>3, <1>4, <1>5, <1>6, <1>7 DEF Work

\* Every failure pays for what it causes.
LEMMA FailKeepsCredit ==
  ASSUME IInv, CreditInv, NEW p \in Publishers, Fail(p)
  PROVE  CreditInv'
<1>1. /\ inTx \in [Publishers -> BOOLEAN] /\ marked \in [Publishers -> SUBSET Events]
      /\ pc \in [Publishers -> PublisherSteps] /\ batch \in [Publishers -> SUBSET Events]
      /\ noted \in [Publishers -> SUBSET Events]
      /\ inflight \in [Publishers -> Events \cup {None}]
      /\ report \in [Publishers -> {"delivered", "error", None}]
  BY DEF IInv, TypeOK
<1>2. BatchSize \in Nat /\ BatchSize >= 1 /\ Cardinality({}) = 0
  BY PublisherConstantsOK, FS_EmptySet
<1>3. inflight[p] # None => inflight[p] \in Events /\ report[p] = None
  BY <1>1 DEF IInv, Shape
<1>4. Cardinality(Safe(p)) <= BatchSize
      /\ (pc[p] = "produce" \/ inflight[p] # None => Cardinality(Safe(p)) + 1 <= BatchSize)
  BY SafeFits
<1>5. Cardinality(Safe(p)) \in Nat
  BY SafeFits
<1>6. CASE DeliveryFails(p)
  <2>1. Others(p) /\ published' = published /\ spent' = spent + 1
    BY <1>1, <1>6 DEF DeliveryFails, Others, tx, table, Fault
  <2>2. Safe(p)' = Safe(p)
    <3>1. report[p] # "delivered" /\ report'[p] # "delivered"
      BY <1>1, <1>3, <1>6, PublisherConstantsOK DEF DeliveryFails
    <3> QED
      BY <1>6, <3>1 DEF DeliveryFails, Safe, tx
  <2>3. p \in Doomed' => p \in Doomed
    BY <1>1, <1>6 DEF DeliveryFails, Doomed, tx
  <2>4. log' = log \/ \E e \in Events : Deliver(e)
    BY <1>3, <1>6 DEF DeliveryFails
  <2> QED
    BY <1>2, <2>1, <2>2, <2>3, <2>4, FailureStep
<1>7. CASE LoseConnection(p)
  <2>1. Others(p) /\ published' = published /\ spent' = spent + 1 /\ log' = log
    BY <1>1, <1>7 DEF LoseConnection, Others, table, Fault
  <2>2. CASE pc[p] = "produce" \/ inflight[p] # None
    BY <1>2, <1>4, <1>5, <2>1, <2>2, FailureStep
  <2>3. CASE ~(pc[p] = "produce" \/ inflight[p] # None)
    <3>1. p \notin Doomed'
      BY <1>7, <2>3 DEF LoseConnection, Doomed
    <3> QED
      BY <1>2, <1>4, <1>5, <2>1, <3>1, FailureStep
  <2> QED
    BY <2>2, <2>3
<1>8. CASE Stop(p)
  <2>1. Others(p) /\ published' = published /\ spent' = spent + 1 /\ log' = log
    BY <1>1, <1>8 DEF Stop, Rollback, Goto, Others, table, Fault
  <2>2. p \in Doomed' => pc[p] = "produce" \/ inflight[p] # None
    BY <1>1, <1>8 DEF Stop, Goto, Doomed
  <2>3. CASE pc[p] = "produce" \/ inflight[p] # None
    BY <1>2, <1>4, <1>5, <2>1, <2>3, FailureStep
  <2>4. CASE ~(pc[p] = "produce" \/ inflight[p] # None)
    BY <1>2, <1>4, <1>5, <2>1, <2>2, <2>4, FailureStep
  <2> QED
    BY <2>3, <2>4
<1>9. CASE Crash(p)
  <2>1. Others(p) /\ published' = published /\ spent' = spent + 1
    BY <1>1, <1>9 DEF Crash, Rollback, Goto, Others, table, Fault
  <2>2. p \notin Doomed'
    BY <1>1, <1>9 DEF Crash, Goto, Doomed
  <2>3. CASE log' = log
    BY <1>2, <1>4, <1>5, <2>1, <2>2, <2>3, FailureStep
  <2>4. CASE inflight[p] # None /\ Deliver(inflight[p])
    <3>1. \E e \in Events : Deliver(e)
      BY <1>3, <2>4
    <3> QED
      BY <1>2, <1>4, <1>5, <2>1, <2>2, <2>4, <3>1, FailureStep
  <2> QED
    BY <1>9, <2>3, <2>4 DEF Crash
<1> QED
  BY <1>6, <1>7, <1>8, <1>9 DEF Fail

\* Publishers share the table without repeating each other's work: in each
\* partition the records that repeat an earlier one are at most BatchSize for
\* each failure.
THEOREM RepeatsArePaidFor == Spec => []RepeatsNeedFaults
<1>1. Init => CreditInv
  <2> SUFFICES ASSUME Init, NEW q \in Partitions
               PROVE  Cardinality(Repeats(q)) + Cardinality(AtRisk(q)) + Cardinality(Doomed)
                        <= spent * BatchSize
    BY DEF CreditInv
  <2>1. Repeats(q) = {} /\ AtRisk(q) = {} /\ Doomed = {} /\ spent = 0
    BY PublisherConstantsOK DEF Init, Repeats, AtRisk, Doomed, InLog
  <2> QED
    BY <2>1, FS_EmptySet, PublisherConstantsOK
<1>2. IInv /\ CreditInv /\ [Next]_vars => CreditInv'
  <2> SUFFICES ASSUME IInv, CreditInv, [Next]_vars PROVE CreditInv'
    OBVIOUS
  <2>1. CASE \/ \E e \in Events : Insert(e)
             \/ UNCHANGED vars
    <3>1. UNCHANGED <<published, log, pc, batch, marked, inTx, inflight, report, spent>>
      BY <2>1 DEF Insert, vars, tx
    <3>2. \A p \in Publishers : Safe(p)' = Safe(p)
      BY <3>1 DEF Safe
    <3>3. Doomed' = Doomed /\ \A q \in Partitions : Repeats(q)' = Repeats(q) /\ AtRisk(q)' = AtRisk(q)
      BY <3>1, <3>2 DEF Doomed, Repeats, AtRisk, InLog
    <3> QED
      BY <3>1, <3>3 DEF CreditInv
  <2>2. CASE Publish
    BY <2>2, WorkKeepsCredit, AcknowledgeKeepsCredit, FailKeepsCredit DEF Publish
  <2> QED
    BY <2>1, <2>2 DEF Next, Drained
<1>3. IInv /\ CreditInv => RepeatsNeedFaults
  <2> SUFFICES ASSUME IInv, CreditInv, NEW q \in Partitions
               PROVE  Cardinality(Repeats(q)) <= spent * BatchSize
    BY DEF RepeatsNeedFaults
  <2>1. Cardinality(Repeats(q)) + Cardinality(AtRisk(q)) + Cardinality(Doomed) <= spent * BatchSize
    BY DEF CreditInv
  <2>2. spent \in Nat /\ BatchSize \in Nat /\ spent * BatchSize \in Nat
    BY PublisherConstantsOK DEF IInv, TypeOK
  <2> QED
    BY <2>1, <2>2, Finite
<1> QED
  BY <1>1, <1>2, <1>3, Invariance, PTL DEF Spec

-----------------------------------------------------------------------------
(* The order of an order's events *)

\* When the order of events is kept: one publisher, no delivery that fails
\* without a record (a later event of the batch would overtake it), and no event
\* that Kafka takes after one of the same order that it refuses.
OrderConditions ==
  /\ \A p, r \in Publishers : p = r
  /\ "nack" \notin Faults
  /\ \A d \in Rejected, e \in Events : KeyOf[d] = KeyOf[e] /\ d < e => e \in Rejected

\* The earlier events of the same order.
Before(e) == {d \in Events : KeyOf[d] = KeyOf[e] /\ d < e}

\* The log is ready for e: it has every earlier event of its order.
Ready(e) == \A d \in Before(e) : InLog(d)

\* What keeps the order: rows are committed in order, the earlier events of an
\* event in a batch are in the log or in the batch as well, the log is ready for
\* the message in flight, and whatever is reported is in the log.
OrderInv ==
  /\ \A e \in rows : Before(e) \subseteq rows
  /\ \A p \in Publishers :
       /\ \A e \in batch[p] \ Rejected : \A d \in Before(e) : InLog(d) \/ d \in batch[p]
       /\ inflight[p] # None => Ready(inflight[p])
       /\ report[p] # None => InLog(First(batch[p]))
  /\ OrderKept

\* An event that is appended when the log is ready for it keeps the order.
LEMMA DeliverKeepsOrder ==
  ASSUME log \in [Partitions -> Seq(Events)], OrderKept,
         NEW e \in Events, Ready(e), Deliver(e)
  PROVE  OrderKept'
<1>1. Home[e] \in Partitions
  BY PublisherConstantsOK
<1> SUFFICES ASSUME NEW q \in Partitions, NEW j \in DOMAIN log'[q], NEW d \in Events,
                    KeyOf[d] = KeyOf[log'[q][j]], d < log'[q][j]
             PROVE  \E i \in 1..j - 1 : log'[q][i] = d
  BY DEF OrderKept
<1>2. log[q] \in Seq(Events) /\ Len(log[q]) \in Nat /\ DOMAIN log[q] = 1..Len(log[q])
  OBVIOUS
<1>3. CASE q # Home[e]
  <2>1. log'[q] = log[q]
    BY <1>1, <1>3 DEF Deliver
  <2> QED
    BY <2>1 DEF OrderKept
<1>4. CASE q = Home[e]
  <2>1. log'[q] = Append(log[q], e)
    BY <1>1, <1>4 DEF Deliver
  <2>2. /\ \A i \in 1..Len(log[q]) : log'[q][i] = log[q][i]
        /\ log'[q][Len(log[q]) + 1] = e
        /\ j \in 1..Len(log[q]) + 1
    BY <1>2, <2>1
  <2>3. CASE j \in 1..Len(log[q])
    <3>1. KeyOf[d] = KeyOf[log[q][j]] /\ d < log[q][j] /\ j \in DOMAIN log[q]
      BY <1>2, <2>2, <2>3
    <3>2. PICK i \in 1..j - 1 : log[q][i] = d
      BY <3>1 DEF OrderKept
    <3>3. i \in 1..Len(log[q])
      BY <1>2, <2>3, <3>2
    <3> QED
      BY <2>2, <3>2, <3>3
  <2>4. CASE j = Len(log[q]) + 1
    <3>1. d \in Before(e)
      BY <2>2, <2>4 DEF Before
    <3>2. InLog(d) /\ Home[d] = q
      BY <1>4, <3>1, PublisherConstantsOK DEF Ready, Before
    <3>3. PICK i \in DOMAIN log[q] : log[q][i] = d
      BY <3>2 DEF InLog
    <3>4. i \in 1..j - 1 /\ log'[q][i] = d
      BY <1>2, <2>2, <2>4, <3>3
    <3> QED
      BY <3>4
  <2> QED
    BY <1>2, <2>2, <2>3, <2>4
<1> QED
  BY <1>3, <1>4

\* What is in the log, and ready, stays so.
LEMMA LogStepKeepsOrder ==
  ASSUME IInv, OrderInv, log' = log \/ \E e \in Events : Deliver(e) /\ Ready(e)
  PROVE  /\ OrderKept'
         /\ \A d \in Events : InLog(d) => InLog(d)'
         /\ \A d \in Events : Ready(d) => Ready(d)'
<1>1. log \in [Partitions -> Seq(Events)]
  BY DEF IInv, TypeOK
<1>2. \A d \in Events : InLog(d) => InLog(d)'
  <2>1. CASE log' = log
    BY <2>1 DEF InLog
  <2>2. CASE \E e \in Events : Deliver(e) /\ Ready(e)
    BY <1>1, <2>2, DeliverAppends
  <2> QED
    BY <2>1, <2>2
<1>3. OrderKept'
  <2>1. CASE log' = log
    BY <2>1 DEF OrderInv, OrderKept
  <2>2. CASE \E e \in Events : Deliver(e) /\ Ready(e)
    BY <1>1, <2>2, DeliverKeepsOrder DEF OrderInv
  <2> QED
    BY <2>1, <2>2
<1>4. \A d \in Events : Ready(d) => Ready(d)'
  BY <1>2 DEF Ready, Before
<1> QED
  BY <1>2, <1>3, <1>4

\* The log is ready for the head of a batch, unless Kafka refuses it.
LEMMA HeadIsReady ==
  ASSUME IInv, OrderInv, NEW p \in Publishers, pc[p] \in {"produce", "await"},
         First(batch[p]) \notin Rejected
  PROVE  Ready(First(batch[p]))
<1>1. /\ First(batch[p]) \in batch[p] /\ First(batch[p]) \in Events
      /\ \A d \in batch[p] : First(batch[p]) <= d
  BY HeadOfBatch
<1>2. \A d \in Before(First(batch[p])) : d \in Events /\ d < First(batch[p])
  BY DEF Before
<1>3. \A d \in Events : d \in Nat
  BY PublisherConstantsOK
<1>4. \A d \in Before(First(batch[p])) : d \notin batch[p]
  BY <1>1, <1>2, <1>3
<1> QED
  BY <1>1, <1>4 DEF OrderInv, Ready

\* What a step of the publisher has to keep.
LEMMA StepKeepsOrder ==
  ASSUME OrderConditions, IInv, OrderInv, NEW p \in Publishers, rows' = rows,
         log' = log \/ \E e \in Events : Deliver(e) /\ Ready(e),
         \A e \in batch'[p] \ Rejected : \A d \in Before(e) : InLog(d) \/ d \in batch'[p],
         inflight'[p] = None \/ \E e \in Events : inflight'[p] = e /\ Ready(e),
         report'[p] = None \/ \E e \in Events : First(batch'[p]) = e /\ InLog(e)'
  PROVE  OrderInv'
<1>1. /\ OrderKept'
      /\ \A d \in Events : InLog(d) => InLog(d)'
      /\ \A d \in Events : Ready(d) => Ready(d)'
  BY LogStepKeepsOrder
<1>2. \A e : Before(e) \subseteq Events
  BY DEF Before
<1>3. \A e \in batch'[p] \ Rejected : \A d \in Before(e) : InLog(d)' \/ d \in batch'[p]
  BY <1>1, <1>2
<1>4. inflight'[p] # None => Ready(inflight[p])'
  <2> SUFFICES ASSUME inflight'[p] # None PROVE Ready(inflight[p])'
    OBVIOUS
  <2>1. PICK e \in Events : e = inflight'[p] /\ Ready(e)'
    BY <1>1
  <2> QED
    BY <2>1 DEF Ready, Before
<1>5. report'[p] # None => InLog(First(batch[p]))'
  <2> SUFFICES ASSUME report'[p] # None PROVE InLog(First(batch[p]))'
    OBVIOUS
  <2>1. PICK e \in Events : e = First(batch[p])' /\ InLog(e)'
    OBVIOUS
  <2> QED
    BY <2>1 DEF InLog
<1>6. \A r \in Publishers : r = p
  BY DEF OrderConditions
<1>7. \A e \in rows' : Before(e)' \subseteq rows'
  BY DEF OrderInv, Before
<1>8. \A e \in batch'[p] \ Rejected : \A d \in Before(e)' : InLog(d)' \/ d \in batch'[p]
  BY <1>3 DEF Before
<1> QED
  BY <1>1, <1>4, <1>5, <1>6, <1>7, <1>8 DEF OrderInv

\* Nothing fails.
LEMMA WorkKeepsOrder ==
  ASSUME OrderConditions, IInv, OrderInv, NEW p \in Publishers, Work(p)
  PROVE  OrderInv'
<1>1. /\ batch \in [Publishers -> SUBSET Events]
      /\ inflight \in [Publishers -> Events \cup {None}]
      /\ report \in [Publishers -> {"delivered", "error", None}]
  BY DEF IInv, TypeOK
<1>2. \A e \in batch[p] \ Rejected : \A d \in Before(e) : InLog(d) \/ d \in batch[p]
  BY DEF OrderInv
<1>3. inflight[p] = None \/ \E e \in Events : inflight[p] = e /\ Ready(e)
  BY <1>1 DEF OrderInv
<1>4. CASE Claim(p)
  <2> DEFINE C == Oldest(Claimable, BatchSize)
  <2>1. Claimable = rows \ published
    <3>1. \A r \in Publishers : Locked(r) = {}
      BY <1>4 DEF OrderConditions, Claim, Locked, IInv, Shape
    <3> QED
      BY <3>1 DEF Claimable
  <2>2. Claimable \in SUBSET Events
    BY <2>1 DEF IInv, TypeOK
  <2>3. C \in SUBSET Claimable /\ \A e \in C, d \in Claimable : d < e => d \in C
    BY <2>2, OldestRows, PublisherConstantsOK
  <2> HIDE DEF C
  <2>4. batch'[p] = C
    BY <1>1, <1>4 DEF Claim, C
  <2>5. ASSUME NEW e \in C, NEW d \in Before(e) PROVE InLog(d) \/ d \in C
    <3>1. d \in rows /\ d < e
      BY <2>1, <2>3 DEF OrderInv, Before
    <3>2. CASE d \in published
      BY <3>2 DEF IInv, PublishedIsInLog
    <3>3. CASE d \notin published
      BY <2>1, <2>3, <3>1, <3>3
    <3> QED
      BY <3>2, <3>3
  <2>6. inflight'[p] = None /\ report'[p] = None /\ rows' = rows /\ log' = log
    BY <1>4 DEF Claim, IInv, Shape, table
  <2> QED
    BY <2>4, <2>5, <2>6, StepKeepsOrder
<1>5. CASE Produce(p)
  <2>1. /\ inflight'[p] = First(batch[p]) /\ batch' = batch /\ report'[p] = None
        /\ rows' = rows /\ log' = log
    BY <1>1, <1>5 DEF Produce, IInv, Shape, table, tx
  <2>2. Ready(First(batch[p])) /\ First(batch[p]) \in Events
    BY <1>5, HeadIsReady, HeadOfBatch DEF Produce
  <2> QED
    BY <1>2, <2>1, <2>2, StepKeepsOrder
<1>6. CASE ProduceRefuses(p)
  <2>1. inflight' = inflight /\ report'[p] = None /\ rows' = rows /\ log' = log
    BY <1>6 DEF ProduceRefuses, IInv, Shape, table
  <2>2. batch'[p] = batch[p] \ {First(batch[p])} \/ batch'[p] = {}
    BY <1>1, <1>6 DEF ProduceRefuses, MarkFailed, Rollback
  <2>3. First(batch[p]) \in Rejected
    BY <1>6 DEF ProduceRefuses
  <2>4. ASSUME NEW e \in batch'[p] \ Rejected, NEW d \in Before(e)
        PROVE  InLog(d) \/ d \in batch'[p]
    <3>1. e \in batch[p] /\ e \in Events
      BY <1>1, <2>2
    <3>2. d # First(batch[p])
      BY <2>3, <3>1 DEF OrderConditions, Before
    <3> QED
      BY <1>2, <2>2, <3>1, <3>2
  <2> QED
    BY <1>3, <2>1, <2>4, StepKeepsOrder
<1>7. CASE ReadReport(p)
  <2>1. inflight' = inflight /\ report'[p] = None /\ rows' = rows /\ log' = log
    BY <1>1, <1>7 DEF ReadReport, table
  <2>2. batch'[p] = batch[p] \ {First(batch[p])} \/ batch'[p] = {}
    BY <1>1, <1>7 DEF ReadReport, MarkPublished, MarkFailed, Rollback
  <2>3. InLog(First(batch[p]))
    BY <1>7 DEF ReadReport, OrderInv
  <2>4. \A e \in batch'[p] \ Rejected : \A d \in Before(e) : InLog(d) \/ d \in batch'[p]
    BY <1>2, <2>2, <2>3
  <2> QED
    BY <1>3, <2>1, <2>4, StepKeepsOrder
<1>8. CASE CommitBatch(p)
  <2>1. inflight' = inflight /\ report'[p] = None /\ rows' = rows /\ log' = log /\ batch'[p] = {}
    BY <1>1, <1>8 DEF CommitBatch, Rollback, IInv, Shape
  <2> QED
    BY <1>3, <2>1, StepKeepsOrder
<1>9. CASE Closed(p) \/ Restart(p)
  <2>1. /\ inflight'[p] = None /\ report'[p] = None /\ rows' = rows /\ log' = log
        /\ batch' = batch
    BY <1>1, <1>9 DEF Closed, Restart, IInv, Shape, table, tx
  <2> QED
    BY <1>2, <2>1, StepKeepsOrder
<1> QED
  BY <1>4, <1>5, <1>6, <1>7, <1>8, <1>9 DEF Work

\* The brokers answer, or something fails.
LEMMA FailKeepsOrder ==
  ASSUME OrderConditions, IInv, OrderInv, NEW p \in Publishers, Acknowledge(p) \/ Fail(p)
  PROVE  OrderInv'
<1>1. /\ batch \in [Publishers -> SUBSET Events]
      /\ inflight \in [Publishers -> Events \cup {None}]
      /\ report \in [Publishers -> {"delivered", "error", None}]
  BY DEF IInv, TypeOK
<1>2. \A e \in batch[p] \ Rejected : \A d \in Before(e) : InLog(d) \/ d \in batch[p]
  BY DEF OrderInv
<1>3. inflight[p] = None \/ \E e \in Events : inflight[p] = e /\ Ready(e)
  BY <1>1 DEF OrderInv
<1>4. CASE Acknowledge(p) \/ DeliveryFails(p)
  <2>1. /\ inflight'[p] = None /\ batch' = batch /\ rows' = rows /\ inflight[p] # None
        /\ report'[p] # None => pc[p] = "await" /\ Deliver(inflight[p])
    BY <1>1, <1>4 DEF Acknowledge, DeliveryFails, Fault, OrderConditions, table, tx
  <2>2. PICK e \in Events : e = inflight[p] /\ Ready(e) /\ Deliver(e)
    BY <1>3, <1>4, <2>1 DEF Acknowledge, DeliveryFails, Fault, OrderConditions
  <2>3. InLog(e)'
    BY <2>2, DeliverAppends DEF IInv, TypeOK
  <2>4. report'[p] # None => First(batch'[p]) = e
    BY <2>1, <2>2 DEF IInv, Shape
  <2> QED
    BY <1>2, <2>1, <2>2, <2>3, <2>4, StepKeepsOrder
<1>5. CASE LoseConnection(p)
  <2>1. inflight' = inflight /\ batch' = batch /\ report' = report /\ rows' = rows /\ log' = log
    BY <1>5 DEF LoseConnection, table
  <2>2. report'[p] = None \/ \E e \in Events : First(batch'[p]) = e /\ InLog(e)'
    <3>1. report[p] # None => First(batch[p]) \in Events /\ InLog(First(batch[p]))
      BY HeadOfBatch DEF IInv, Shape, OrderInv
    <3> QED
      BY <2>1, <3>1 DEF InLog
  <2> QED
    BY <1>2, <1>3, <2>1, <2>2, StepKeepsOrder
<1>6. CASE Stop(p)
  <2>1. report'[p] = None /\ batch'[p] = {} /\ rows' = rows /\ log' = log
    BY <1>1, <1>6 DEF Stop, Rollback, table
  <2>2. inflight'[p] = None \/ \E e \in Events : inflight'[p] = e /\ Ready(e)
    <3>1. CASE pc[p] = "produce" /\ First(batch[p]) \notin Rejected
      <4>1. inflight'[p] = First(batch[p])
        BY <1>1, <1>6, <3>1 DEF Stop
      <4>2. Ready(First(batch[p])) /\ First(batch[p]) \in Events
        BY <3>1, HeadIsReady, HeadOfBatch
      <4> QED
        BY <4>1, <4>2
    <3>2. CASE ~(pc[p] = "produce" /\ First(batch[p]) \notin Rejected)
      BY <1>3, <1>6, <3>2 DEF Stop
    <3> QED
      BY <3>1, <3>2
  <2> QED
    BY <2>1, <2>2, StepKeepsOrder
<1>7. CASE Crash(p)
  <2>1. report'[p] = None /\ inflight'[p] = None /\ batch'[p] = {} /\ rows' = rows
    BY <1>1, <1>7 DEF Crash, Rollback, table
  <2>2. log' = log \/ \E e \in Events : Deliver(e) /\ Ready(e)
    BY <1>3, <1>7 DEF Crash
  <2> QED
    BY <2>1, <2>2, StepKeepsOrder
<1> QED
  BY <1>4, <1>5, <1>6, <1>7 DEF Fail

\* A new row comes after the earlier ones of its order.
LEMMA InsertKeepsOrder ==
  ASSUME OrderInv, NEW e \in Events, Insert(e)
  PROVE  OrderInv'
<1>1. rows' = rows \cup {e} /\ \A d \in Before(e) : d \in rows
  BY DEF Insert, Before
<1>2. log' = log /\ batch' = batch /\ inflight' = inflight /\ report' = report
  BY DEF Insert, tx
<1>3. \A d \in rows' : Before(d) \subseteq rows'
  BY <1>1 DEF OrderInv
<1> QED
  BY <1>2, <1>3 DEF OrderInv, OrderKept, InLog, Ready, Before

LEMMA PublishKeepsOrder ==
  ASSUME OrderConditions, IInv, OrderInv, Publish
  PROVE  OrderInv'
BY WorkKeepsOrder, FailKeepsOrder DEF Publish

LEMMA RestKeepsOrder ==
  ASSUME OrderInv, Rest
  PROVE  OrderInv'
BY DEF Rest, OrderInv, OrderKept, InLog, Ready, Before

LEMMA InitOrder ==
  ASSUME Init
  PROVE  OrderInv
BY PublisherConstantsOK DEF Init, OrderInv, OrderKept, Ready

\* With one publisher, and no failed delivery that left nothing in the topic, the
\* events of an order reach the topic in their order, though messages that were
\* stored time out, transactions are lost and the publisher stops or dies.
THEOREM OrderIsKept == OrderConditions => (Spec => []OrderKept)
<1> SUFFICES ASSUME OrderConditions PROVE Spec => []OrderKept
  OBVIOUS
<1>1. Init => OrderInv
  BY InitOrder
<1>2. IInv /\ OrderInv /\ [Next]_vars => OrderInv'
  <2> SUFFICES ASSUME IInv, OrderInv, [Next]_vars PROVE OrderInv'
    OBVIOUS
  <2>1. CASE \E e \in Events : Insert(e)
    BY <2>1, InsertKeepsOrder
  <2>2. CASE Publish
    BY <2>2, PublishKeepsOrder
  <2>3. CASE UNCHANGED vars
    <3>1. Rest
      BY <2>3 DEF vars, Rest, IInv, TypeOK
    <3> QED
      BY <3>1, RestKeepsOrder
  <2> QED
    BY <2>1, <2>2, <2>3 DEF Next, Drained
<1> QED
  BY <1>1, <1>2, Invariance, PTL DEF Spec, OrderInv

-----------------------------------------------------------------------------
(* Where the records come from *)

\* Only committed rows are claimed, and only acceptable ones of them are sent.
OriginInv ==
  /\ \A p \in Publishers :
       /\ batch[p] \subseteq rows
       /\ inflight[p] # None => inflight[p] \in rows \ Rejected
  /\ \A q \in Partitions : \A i \in 1..Len(log[q]) : log[q][i] \in rows \ Rejected

LEMMA StepKeepsOrigin ==
  ASSUME IInv, OriginInv, NEW p \in Publishers, rows' = rows,
         \A r \in Publishers \ {p} : batch'[r] = batch[r] /\ inflight'[r] = inflight[r],
         batch'[p] \subseteq rows,
         inflight'[p] # None => inflight'[p] \in rows \ Rejected,
         log' = log \/ (inflight[p] # None /\ Deliver(inflight[p]))
  PROVE  OriginInv'
<1>1. \A r \in Publishers :
        batch'[r] \subseteq rows /\ (inflight'[r] # None => inflight'[r] \in rows \ Rejected)
  BY DEF OriginInv
<1>2. ASSUME NEW q \in Partitions, NEW i \in 1..Len(log'[q]) PROVE log'[q][i] \in rows \ Rejected
  <2>1. CASE log' = log
    BY <1>2, <2>1 DEF OriginInv
  <2>2. CASE inflight[p] # None /\ Deliver(inflight[p])
    <3>1. PICK e \in Events : e = inflight[p] /\ e \in rows \ Rejected
      BY <2>2 DEF IInv, TypeOK, OriginInv
    <3>2. log[q] \in Seq(Events) /\ log \in [Partitions -> Seq(Events)]
      BY DEF IInv, TypeOK
    <3>3. log'[q] = log[q] \/ log'[q] = Append(log[q], e)
      BY <2>2, <3>1, <3>2 DEF Deliver
    <3>4. \A j \in 1..Len(log[q]) : log[q][j] \in rows \ Rejected
      BY DEF OriginInv
    <3>5. CASE log'[q] = log[q]
      BY <3>4, <3>5
    <3>6. CASE log'[q] = Append(log[q], e)
      BY <1>2, <3>1, <3>2, <3>4, <3>6
    <3> QED
      BY <3>3, <3>5, <3>6
  <2> QED
    BY <2>1, <2>2
<1> QED
  BY <1>1, <1>2 DEF OriginInv

LEMMA PublishKeepsOrigin ==
  ASSUME IInv, OriginInv, Publish
  PROVE  OriginInv'
<1>1. PICK p \in Publishers : Work(p) \/ Acknowledge(p) \/ Fail(p)
  BY DEF Publish
<1>2. /\ batch \in [Publishers -> SUBSET Events]
      /\ inflight \in [Publishers -> Events \cup {None}]
      /\ batch[p] \subseteq rows
      /\ inflight[p] # None => inflight[p] \in rows \ Rejected
  BY DEF IInv, TypeOK, OriginInv
<1>3. rows' = rows
  BY <1>1 DEF Work, Fail, Claim, Produce, ProduceRefuses, ReadReport, CommitBatch, Closed,
     Restart, Acknowledge, DeliveryFails, LoseConnection, Stop, Crash, table
<1>4. CASE Claim(p)
  <2>1. Claimable \in SUBSET Events /\ Claimable \subseteq rows
    BY DEF Claimable, IInv, TypeOK
  <2>2. Oldest(Claimable, BatchSize) \subseteq rows
    BY <2>1, OldestRows, PublisherConstantsOK
  <2>3. /\ batch' = [batch EXCEPT ![p] = Oldest(Claimable, BatchSize)]
        /\ inflight' = inflight /\ log' = log
    BY <1>4 DEF Claim
  <2>4. batch'[p] \subseteq rows /\ \A r \in Publishers \ {p} : batch'[r] = batch[r]
    BY <1>2, <2>2, <2>3
  <2> QED
    BY <1>2, <1>3, <2>3, <2>4, StepKeepsOrigin
<1>5. CASE Produce(p) \/ Stop(p)
  <2>1. PICK e : e = First(batch[p])
    OBVIOUS
  <2>2. pc[p] = "produce" => e \in rows
    BY <1>2, <2>1, HeadOfBatch
  <2>3. /\ log' = log
        /\ batch' = batch \/ batch' = [batch EXCEPT ![p] = {}]
        /\ \/ inflight' = inflight
           \/ pc[p] = "produce" /\ e \notin Rejected /\ inflight' = [inflight EXCEPT ![p] = e]
    BY <1>5, <2>1 DEF Produce, Stop, Rollback, tx
  <2>4. batch'[p] \subseteq rows /\ \A r \in Publishers \ {p} : batch'[r] = batch[r]
    BY <1>2, <2>3
  <2>5. /\ inflight'[p] # None => inflight'[p] \in rows \ Rejected
        /\ \A r \in Publishers \ {p} : inflight'[r] = inflight[r]
    BY <1>2, <2>2, <2>3
  <2> QED
    BY <1>3, <2>3, <2>4, <2>5, StepKeepsOrigin
<1>6. CASE ProduceRefuses(p) \/ ReadReport(p) \/ CommitBatch(p)
  <2>1. /\ log' = log /\ inflight' = inflight
        /\ \/ batch' = [batch EXCEPT ![p] = {}]
           \/ batch' = [batch EXCEPT ![p] = @ \ {First(@)}]
    BY <1>6 DEF ProduceRefuses, ReadReport, CommitBatch, Rollback, MarkFailed, MarkPublished
  <2>2. batch'[p] \subseteq batch[p] /\ \A r \in Publishers \ {p} : batch'[r] = batch[r]
    BY <1>2, <2>1
  <2> QED
    BY <1>2, <1>3, <2>1, <2>2, StepKeepsOrigin
<1>7. CASE \/ Closed(p) \/ Restart(p) \/ Acknowledge(p) \/ DeliveryFails(p)
          \/ LoseConnection(p) \/ Crash(p)
  <2>1. /\ log' = log \/ (inflight[p] # None /\ Deliver(inflight[p]))
        /\ inflight' = inflight \/ inflight' = [inflight EXCEPT ![p] = None]
        /\ batch' = batch \/ batch' = [batch EXCEPT ![p] = {}]
    BY <1>7 DEF Closed, Restart, Acknowledge, DeliveryFails, LoseConnection, Crash, Rollback, tx
  <2>2. batch'[p] \subseteq rows /\ \A r \in Publishers \ {p} : batch'[r] = batch[r]
    BY <1>2, <2>1
  <2>3. /\ inflight'[p] # None => inflight'[p] \in rows \ Rejected
        /\ \A r \in Publishers \ {p} : inflight'[r] = inflight[r]
    BY <1>2, <2>1
  <2> QED
    BY <1>3, <2>1, <2>2, <2>3, StepKeepsOrigin
<1> QED
  BY <1>1, <1>4, <1>5, <1>6, <1>7 DEF Work, Fail

LEMMA InsertKeepsOrigin ==
  ASSUME OriginInv, NEW e \in Events, Insert(e)
  PROVE  OriginInv'
BY DEF Insert, tx, OriginInv

LEMMA RestKeepsOrigin ==
  ASSUME OriginInv, Rest
  PROVE  OriginInv'
BY DEF Rest, OriginInv

LEMMA InitOrigin ==
  ASSUME Init
  PROVE  OriginInv
BY DEF Init, OriginInv

\* What the topic holds was committed with an order's change: no crash, lost
\* transaction or repeated batch sends an event of a row that is not there.
THEOREM OnlyCommittedRows == Spec => []OriginInv
<1>1. Init => OriginInv
  BY InitOrigin
<1>2. IInv /\ OriginInv /\ [Next]_vars => OriginInv'
  <2> SUFFICES ASSUME IInv, OriginInv, [Next]_vars PROVE OriginInv'
    OBVIOUS
  <2>1. CASE UNCHANGED vars
    <3>1. Rest
      BY <2>1 DEF vars, Rest, IInv, TypeOK
    <3> QED
      BY <3>1, RestKeepsOrigin
  <2> QED
    BY <2>1, InsertKeepsOrigin, PublishKeepsOrigin DEF Next, Drained
<1> QED
  BY <1>1, <1>2, Invariance, PTL DEF Spec
=============================================================================
