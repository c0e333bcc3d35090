--------------------------- MODULE WorkQueueProofs ---------------------------
(***************************************************************************)
(* Proofs about WorkQueue, for any set of applications, any number of      *)
(* children and any value of the --concurrent-reconciles flag: the gauge   *)
(* of active reconciles does not drift.                                    *)
(***************************************************************************)
EXTENDS WorkQueue, FiniteSetTheorems, SequenceTheorems, TLAPS

\* The line without its i-th key is a line.
LEMMA RemovedIsLine ==
  ASSUME NEW S, NEW s \in Seq(S), NEW i \in 1 .. Len(s)
  PROVE  SubSeq(s, 1, i - 1) \o SubSeq(s, i + 1, Len(s)) \in Seq(S)
<1>1. Len(s) \in Nat /\ \A j \in 1 .. Len(s) : s[j] \in S
  BY LenProperties, ElementOfSeq
<1>2. SubSeq(s, 1, i - 1) \in Seq(S)
  BY <1>1, SubSeqProperties
<1>3. SubSeq(s, i + 1, Len(s)) \in Seq(S)
  BY <1>1, SubSeqProperties
<1> QED
  BY <1>2, <1>3, ConcatProperties

\* SetupWithManager: at least one worker, and finitely many.
LEMMA WorkersFinite == IsFiniteSet(Workers)
  BY ConcurrencyAssumption, FS_Interval DEF Workers

------------------------------------------------------------------------------
(* The inductive invariant: the gauge, and what the keys in line and with the  *)
(* workers are, since a worker is counted by the key it has.                   *)

WorkersAtWork == {w \in Workers : working[w] # NoKey}

QueueType ==
  /\ line \in Seq(Keys)
  /\ working \in [Workers -> Keys \cup {NoKey}]

GaugeIInv == QueueType /\ GaugeIsTrue

\* A free worker that takes up a key makes one more worker at work.
LEMMA OneMoreAtWork ==
  ASSUME QueueType, GaugeIsTrue, NEW w \in Workers, NEW k \in Keys,
         working[w] = NoKey, working' = [working EXCEPT ![w] = k],
         active' = active + 1
  PROVE  GaugeIsTrue'
<1>1. WorkersAtWork' = WorkersAtWork \cup {w} /\ w \notin WorkersAtWork
  BY NoKeyAssumption DEF WorkersAtWork, QueueType
<1>2. IsFiniteSet(WorkersAtWork)
  BY WorkersFinite, FS_Subset DEF WorkersAtWork
<1>3. Cardinality(WorkersAtWork') = Cardinality(WorkersAtWork) + 1
  BY <1>1, <1>2, FS_AddElement
<1> QED
  BY <1>3 DEF GaugeIsTrue, WorkersAtWork

\* A worker that is done makes one fewer.
LEMMA OneFewerAtWork ==
  ASSUME QueueType, GaugeIsTrue, NEW w \in Workers,
         working[w] # NoKey, working' = [working EXCEPT ![w] = NoKey],
         active' = active - 1
  PROVE  GaugeIsTrue'
<1>1. WorkersAtWork' = WorkersAtWork \ {w} /\ w \in WorkersAtWork
  BY DEF WorkersAtWork, QueueType
<1>2. IsFiniteSet(WorkersAtWork)
  BY WorkersFinite, FS_Subset DEF WorkersAtWork
<1>3. Cardinality(WorkersAtWork') = Cardinality(WorkersAtWork) - 1
  BY <1>1, <1>2, FS_RemoveElement
<1> QED
  BY <1>3 DEF GaugeIsTrue, WorkersAtWork

\* Events and timers leave the workers alone.
LEMMA AddingKeeps ==
  ASSUME GaugeIInv, NEW k \in Keys, MakeReady(k)
  PROVE  GaugeIInv'
<1>1. line' \in Seq(Keys)
  BY AppendProperties DEF GaugeIInv, QueueType, MakeReady
<1> QED
  BY <1>1 DEF GaugeIInv, QueueType, GaugeIsTrue, MakeReady, workerVars

LEMMA TakeKeeps ==
  ASSUME GaugeIInv, NEW w \in Workers, Take(w)
  PROVE  GaugeIInv'
<1> PICK i \in 1 .. Len(line) :
      /\ working' = [working EXCEPT ![w] = line[i]]
      /\ line' = SubSeq(line, 1, i - 1) \o SubSeq(line, i + 1, Len(line))
  BY DEF Take
<1>1. line \in Seq(Keys)
  BY DEF GaugeIInv, QueueType
<1>2. line[i] \in Keys /\ line' \in Seq(Keys)
  BY <1>1, RemovedIsLine, ElementOfSeq
<1>3. QueueType'
  BY <1>2 DEF GaugeIInv, QueueType
<1>4. GaugeIsTrue'
  BY <1>2, OneMoreAtWork DEF GaugeIInv, Take
<1> QED
  BY <1>3, <1>4 DEF GaugeIInv

LEMMA EndKeeps ==
  ASSUME GaugeIInv, NEW w \in Workers, NEW ending \in Endings, End(w, ending)
  PROVE  GaugeIInv'
<1>1. QueueType'
  BY DEF GaugeIInv, QueueType, End
<1>2. GaugeIsTrue'
  BY OneFewerAtWork DEF GaugeIInv, End, Lowered
<1> QED
  BY <1>1, <1>2 DEF GaugeIInv

LEMMA InitGauge == Init => GaugeIInv
<1> SUFFICES ASSUME Init PROVE GaugeIInv
  OBVIOUS
<1>1. QueueType
  BY EmptySeq DEF Init, QueueType
<1>2. WorkersAtWork = {}
  BY DEF Init, WorkersAtWork
<1> QED
  BY <1>1, <1>2, FS_EmptySet DEF GaugeIInv, Init, GaugeIsTrue, WorkersAtWork

LEMMA NextGauge == GaugeIInv /\ [Next]_vars => GaugeIInv'
<1> SUFFICES ASSUME GaugeIInv, [Next]_vars PROVE GaugeIInv'
  OBVIOUS
<1>1. ASSUME NEW k \in Keys, NEW isLow \in BOOLEAN, Event(k, isLow) PROVE GaugeIInv'
  BY <1>1, AddingKeeps DEF Event
<1>2. ASSUME NEW k \in Keys, Fire(k) PROVE GaugeIInv'
  BY <1>2, AddingKeeps DEF Fire
<1>3. ASSUME NEW w \in Workers, Take(w) PROVE GaugeIInv'
  BY <1>3, TakeKeeps
<1>4. ASSUME NEW w \in Workers, RetryConflict(w) PROVE GaugeIInv'
  BY <1>4 DEF RetryConflict, GaugeIInv, QueueType, GaugeIsTrue
<1>5. ASSUME NEW w \in Workers, NEW ending \in Endings, End(w, ending) PROVE GaugeIInv'
  BY <1>5, EndKeeps
<1>6. CASE UNCHANGED vars
  BY <1>6 DEF vars, workerVars, GaugeIInv, QueueType, GaugeIsTrue
<1> QED
  BY <1>1, <1>2, <1>3, <1>4, <1>5, <1>6 DEF Next, Reconcile

\* metrics.ActiveReconcilers is the number of workers at work after any history of
\* endings, panics among them, for any number of workers.
THEOREM GaugeNeverDrifts == Spec => []GaugeIsTrue
<1>1. GaugeIInv => GaugeIsTrue
  BY DEF GaugeIInv
<1> QED
  BY <1>1, InitGauge, NextGauge, PTL DEF Spec
==============================================================================
