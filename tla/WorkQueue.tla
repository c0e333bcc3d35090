------------------------------ MODULE WorkQueue ------------------------------
(***************************************************************************)
(* The controller as SetupWithManager builds it: one work queue for all    *)
(* applications and --concurrent-reconciles workers that share it.  What a *)
(* reconcile does to its application is in Reconciler; here it is how it   *)
(* ends, how long it may hold its worker, and what that does to the other  *)
(* applications.  The queue itself is external: the priority queue that    *)
(* controller-runtime v0.24 uses unless a controller turns it off.  It has *)
(* one entry per key, ready or delayed.  Ready keys are handed out by      *)
(* priority and then in the order they became ready, never while a worker  *)
(* has the key.                                                            *)
(***************************************************************************)
EXTENDS Integers, Sequences, FiniteSets

CONSTANTS
  Keys,         \* the applications
  Concurrency,  \* the --concurrent-reconciles flag
  Children,     \* how many children a reconcile applies
  NoKey         \* an idle worker

ASSUME ConcurrencyAssumption == Concurrency \in Int
ASSUME ChildrenAssumption == Children \in Nat
ASSUME NoKeyAssumption == NoKey \notin Keys

\* SetupWithManager
Workers == 1 .. (IF Concurrency < 1 THEN 1 ELSE Concurrency)

\* Of each child.
MaxApplyRetries == 3

VARIABLES
  entry,    \* entry[k]: "none", "ready" or "delayed"
  low,      \* the keys whose entry has low priority
  line,     \* the ready keys in the order they became ready
  working,  \* working[w]: the key worker w has
  lowWork,  \* the workers that got their key at low priority
  retries,  \* retries[w]: how often Apply has retried in w's reconcile
  active    \* metrics.ActiveReconcilers

workerVars == <<working, lowWork, retries, active>>
vars == <<entry, low, line, workerVars>>

Init ==
  /\ entry = [k \in Keys |-> "none"]
  /\ low = {}
  /\ line = <<>>
  /\ working = [w \in Workers |-> NoKey]
  /\ lowWork = {}
  /\ retries = [w \in Workers |-> 0]
  /\ active = 0

Busy == {working[w] : w \in Workers} \ {NoKey}

------------------------------------------------------------------------------
(* The queue                                                                 *)

\* An entry has the highest priority it was added with.
LowAfter(k, isLow) ==
  IF isLow /\ (entry[k] = "none" \/ k \in low) THEN low \cup {k} ELSE low \ {k}

MakeReady(k) ==
  /\ entry' = [entry EXCEPT ![k] = "ready"]
  /\ line' = IF entry[k] = "ready" THEN line ELSE Append(line, k)
  /\ UNCHANGED workerVars

\* For and Owns: an event of the application or of its Deployment.  It has low
\* priority when it comes of the initial list or of a resync.
Event(k, isLow) == MakeReady(k) /\ low' = LowAfter(k, isLow)

\* AddAfter or AddRateLimited comes due.
Fire(k) == entry[k] = "delayed" /\ MakeReady(k) /\ UNCHANGED low

\* The i-th key in line goes before the j-th.
Before(i, j) ==
  IF (line[i] \in low) = (line[j] \in low) THEN i < j ELSE line[j] \in low

\* The i-th is the first that no worker has.
FirstFree(i) ==
  /\ line[i] \notin Busy
  /\ \A j \in 1 .. Len(line) : line[j] \notin Busy => ~Before(j, i)

\* The worker enters Reconcile, whose first statement raises the gauge.
Take(w) ==
  /\ working[w] = NoKey
  /\ \E i \in 1 .. Len(line) :
       /\ FirstFree(i)
       /\ working' = [working EXCEPT ![w] = line[i]]
       /\ lowWork' = IF line[i] \in low THEN lowWork \cup {w} ELSE lowWork
       /\ entry' = [entry EXCEPT ![line[i]] = "none"]
       /\ low' = low \ {line[i]}
       /\ line' = SubSeq(line, 1, i - 1) \o SubSeq(line, i + 1, Len(line))
  /\ active' = active + 1
  /\ UNCHANGED retries

------------------------------------------------------------------------------
(* Reconcile, by how it ends                                                 *)

\* Ready, gone, finalizer written.
Finished == {"complete", "notFound", "finalizer"}

\* RequeueAfter without an error: pods are missing, a conflicting write, and two
\* classes of handleErrorResult.
Later == {"notReady", "writeConflict", "Conflict", "Permanent"}

\* A returned error, which makes controller-runtime ignore any RequeueAfter, or
\* a panic, which it recovers and treats alike.
Failed == {"fetchError", "writeError", "Transient", "Unknown", "panic"}

Endings == Finished \cup Later \cup Failed

\* Variant: the loop goes on while there are conflicts.
RetryConflictForever(w) ==
  /\ working[w] # NoKey
  /\ retries' = [retries EXCEPT ![w] = (@ + 1) % (Children * MaxApplyRetries + 1)]
  /\ UNCHANGED <<entry, low, line, working, lowWork, active>>

\* Apply sleeps and tries again, and the worker with it: a few times for each of
\* the children, one after the other.
RetryConflict(w) ==
  /\ working[w] # NoKey /\ retries[w] < Children * MaxApplyRetries
  /\ retries' = [retries EXCEPT ![w] = @ + 1]
  /\ UNCHANGED <<entry, low, line, working, lowWork, active>>

\* Variant: the gauge is lowered at the end of the function, not deferred.
LoweredUnlessPanic(ending) == IF ending = "panic" THEN active ELSE active - 1

Lowered(ending) == active - 1

\* A key that is to come back keeps its priority; an entry that is there already
\* is not delayed.
End(w, ending) ==
  /\ working[w] # NoKey
  /\ IF ending \in Finished THEN UNCHANGED <<entry, low>>
     ELSE /\ entry' = [entry EXCEPT ![working[w]] = IF @ = "none" THEN "delayed" ELSE @]
          /\ low' = LowAfter(working[w], w \in lowWork)
  /\ working' = [working EXCEPT ![w] = NoKey]
  /\ lowWork' = lowWork \ {w}
  /\ retries' = [retries EXCEPT ![w] = 0]
  /\ active' = Lowered(ending)
  /\ UNCHANGED line

Reconcile(w) == RetryConflict(w) \/ \E ending \in Endings : End(w, ending)

------------------------------------------------------------------------------

Next ==
  \/ \E k \in Keys : Fire(k) \/ \E isLow \in BOOLEAN : Event(k, isLow)
  \/ \E w \in Workers : Take(w) \/ Reconcile(w)

Spec == Init /\ [][Next]_vars

\* Workers and timers keep going; nobody owes an event.
FairSpec ==
  /\ Spec
  /\ \A w \in Workers : WF_vars(Take(w)) /\ WF_vars(Reconcile(w))
  /\ \A k \in Keys : WF_vars(Fire(k))

------------------------------------------------------------------------------
(* Properties                                                                *)

\* metrics.go: ActiveReconcilers is the number of workers at work, through every
\* way out of Reconcile, a panic among them.
GaugeIsTrue == active = Cardinality({w \in Workers : working[w] # NoKey})

\* An ordinary key that could be handed out at once.
OrdinaryWaits(k) == entry[k] = "ready" /\ k \notin low /\ k \notin Busy

\* No application waits for ever with the entry of an ordinary event or retry,
\* however often the others fail, conflict or are woken, and with one worker too.
\* One that is only known from a list or a resync, and so has low priority through
\* all its retries, may wait for ever, but only while ordinary events of others
\* keep coming.
NobodyStarves ==
  \A k \in Keys :
    /\ entry[k] # "none" /\ k \notin low ~> k \in Busy
    /\ \/ entry[k] # "none" ~> k \in Busy
       \/ []<>(\E other \in Keys \ {k} : OrdinaryWaits(other))
=============================================================================
