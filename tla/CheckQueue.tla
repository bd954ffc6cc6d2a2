----------------------------- MODULE CheckQueue -----------------------------
(***************************************************************************)
(* The script check queue (checkqueue.h) as ConnectBlock uses it.  The     *)
(* thread that connects a block, the master, adds script checks and then   *)
(* joins the workers until all of them are done; it is told whether all    *)
(* succeeded.  One critical section of CCheckQueue is one action; checks   *)
(* run outside it.                                                         *)
(*                                                                         *)
(* Threads are boost threads: each may be interrupted where it waits on a  *)
(* condition variable.  Workers are interrupted when the node stops, the   *)
(* master also when the miner is switched off (GenerateBitcoins) while the *)
(* node goes on; its CCheckQueueControl then waits again as it unwinds.    *)
(* The order of the checks in the queue is left open.                      *)
(***************************************************************************)
EXTENDS Integers, FiniteSets

CONSTANTS
  Worker, Master,  \* ThreadScriptCheck threads; the thread in ConnectBlock
  Check,           \* script checks a block may need
  Bad,             \* the checks that fail
  BatchSize,       \* 128: nBatchSize
  None,
  MaxInterrupt     \* interruptions of the master explored

Thread == Worker \cup {Master}

ASSUME QueueAssumption ==
  /\ IsFiniteSet(Worker) /\ Master \notin Worker
  /\ IsFiniteSet(Check) /\ Bad \subseteq Check
  /\ BatchSize \in Nat /\ MaxInterrupt \in Nat
  /\ None \notin BOOLEAN

VARIABLES
  queue,        \* checks nobody has taken
  nIdle, nTotal, nTodo, fAllOk,
  at,           \* where each thread is
  batch,        \* vChecks of each thread
  ok,           \* fOk of each thread
  added,        \* checks added for the block being connected
  verdict,      \* what Wait returned for the last block, None if nobody was told
  asked,        \* Wait was called by ConnectBlock, not by a destructor
  stopping,     \* the workers have been interrupted
  interrupts    \* interruptions of the master so far

counters == <<nIdle, nTotal, nTodo, fAllOk>>
block == <<added, verdict, asked>>
vars == <<queue, counters, at, batch, ok, block, stopping, interrupts>>

(* "out": not in the queue's code; "adding": a control exists; "start":    *)
(* entering Loop; "wait": blocked; "woken": notified, wants the mutex;     *)
(* "work": has a batch; "merge": has run it; "gone": ended.                *)
Place == {"out", "adding", "start", "wait", "woken", "work", "merge", "gone"}

Min2(a, b) == IF a < b THEN a ELSE b
Max2(a, b) == IF a > b THEN a ELSE b

(* IsIdle *)
IsIdle == nTotal = nIdle /\ nTodo = 0 /\ fAllOk

Init ==
  /\ queue = {} /\ nIdle = 0 /\ nTotal = 0 /\ nTodo = 0 /\ fAllOk = TRUE
  /\ at = [t \in Thread |-> IF t = Master THEN "out" ELSE "start"]
  /\ batch = [t \in Thread |-> {}] /\ ok = [t \in Thread |-> TRUE]
  /\ added = {} /\ verdict = None /\ asked = FALSE
  /\ stopping = FALSE /\ interrupts = 0

-----------------------------------------------------------------------------
(* The master: CCheckQueueControl in ConnectBlock *)

(* The constructor.  Its assertion is the invariant StartsIdle. *)
Begin ==
  /\ at[Master] = "out"
  /\ at' = [at EXCEPT ![Master] = "adding"]
  /\ added' = {} /\ verdict' = None /\ asked' = FALSE
  /\ UNCHANGED <<queue, counters, batch, ok, stopping, interrupts>>

Waiting == {w \in Worker : at[w] = "wait"}

(* notify_one for one new check, notify_all for more *)
Notified(S) ==
  IF Cardinality(S) = 1 THEN {{w} : w \in Waiting} \cup {x \in {{}} : Waiting = {}}
  ELSE {Waiting}

(* One check is counted whatever is added. *)
AddOne(S) ==
  /\ at[Master] = "adding" /\ S # {} /\ S \subseteq Check \ added
  /\ queue' = queue \cup S /\ added' = added \cup S
  /\ nTodo' = nTodo + 1
  /\ \E W \in Notified(S) : at' = [t \in Thread |-> IF t \in W THEN "woken" ELSE at[t]]
  /\ UNCHANGED <<nIdle, nTotal, fAllOk, batch, ok, verdict, asked, stopping, interrupts>>

(* Add, with the checks of one transaction *)
Add(S) ==
  /\ at[Master] = "adding" /\ S # {} /\ S \subseteq Check \ added
  /\ queue' = queue \cup S /\ added' = added \cup S
  /\ nTodo' = nTodo + Cardinality(S)
  /\ \E W \in Notified(S) : at' = [t \in Thread |-> IF t \in W THEN "woken" ELSE at[t]]
  /\ UNCHANGED <<nIdle, nTotal, fAllOk, batch, ok, verdict, asked, stopping, interrupts>>

(* control.Wait(), or the destructor after an early return *)
CallWait(explicit) ==
  /\ at[Master] = "adding"
  /\ at' = [at EXCEPT ![Master] = "start"]
  /\ asked' = explicit
  /\ UNCHANGED <<queue, counters, batch, ok, added, verdict, stopping, interrupts>>

-----------------------------------------------------------------------------
(* Loop.  The operators below give the rest of a critical section that     *)
(* has brought the counters to idle, total, todo and allOk; places is at   *)
(* after its notifications.                                                *)

NowTaken(total, idle) ==
  Max2(1, Min2(BatchSize, Cardinality(queue) \div (total + idle + 1)))

Take(t, total, idle, todo, allOk, places) ==
  /\ queue # {}
  /\ \E S \in SUBSET queue :
       /\ Cardinality(S) = NowTaken(total, idle)
       /\ batch' = [batch EXCEPT ![t] = S]
       /\ queue' = queue \ S
  /\ ok' = [ok EXCEPT ![t] = allOk]
  /\ at' = [places EXCEPT ![t] = "work"]
  /\ nIdle' = idle /\ nTotal' = total /\ nTodo' = todo /\ fAllOk' = allOk
  /\ UNCHANGED block

Sleep(t, total, idle, todo, allOk, places) ==
  /\ queue = {} /\ (t # Master \/ todo # 0)
  /\ at' = [places EXCEPT ![t] = "wait"]
  /\ batch' = [batch EXCEPT ![t] = {}]
  /\ nIdle' = idle + 1 /\ nTotal' = total /\ nTodo' = todo /\ fAllOk' = allOk
  /\ UNCHANGED <<queue, ok, block>>

(* The status is not reset for the next block. *)
LeaveFailed(t, total, idle, todo, allOk, places) ==
  /\ queue = {} /\ t = Master /\ todo = 0
  /\ at' = [places EXCEPT ![t] = "out"]
  /\ batch' = [batch EXCEPT ![t] = {}]
  /\ nIdle' = idle /\ nTotal' = total - 1 /\ nTodo' = todo /\ fAllOk' = allOk
  /\ verdict' = IF asked THEN allOk ELSE None
  /\ UNCHANGED <<queue, ok, added, asked>>

Leave(t, total, idle, todo, allOk, places) ==
  /\ queue = {} /\ t = Master /\ todo = 0
  /\ at' = [places EXCEPT ![t] = "out"]
  /\ batch' = [batch EXCEPT ![t] = {}]
  /\ nIdle' = idle /\ nTotal' = total - 1 /\ nTodo' = todo /\ fAllOk' = TRUE
  /\ verdict' = IF asked THEN allOk ELSE None
  /\ UNCHANGED <<queue, ok, added, asked>>

Rest(t, total, idle, todo, allOk, places) ==
  /\ \/ Take(t, total, idle, todo, allOk, places)
     \/ Sleep(t, total, idle, todo, allOk, places)
     \/ Leave(t, total, idle, todo, allOk, places)
  /\ UNCHANGED <<stopping, interrupts>>

(* The first round of Loop *)
Enter(t) ==
  /\ at[t] = "start"
  /\ Rest(t, nTotal + 1, nIdle, nTodo, fAllOk, at)

(* cond.wait returned and the mutex is held again *)
Resume(t) ==
  /\ at[t] = "woken"
  /\ Rest(t, nTotal, nIdle - 1, nTodo, fAllOk, at)

(* The checks of the batch, without the mutex *)
Work(t) ==
  /\ at[t] = "work"
  /\ at' = [at EXCEPT ![t] = "merge"]
  /\ ok' = [ok EXCEPT ![t] = @ /\ batch[t] \cap Bad = {}]
  /\ UNCHANGED <<queue, counters, batch, block, stopping, interrupts>>

(* Nobody tells the master. *)
MasterForgotten(t, todo) == at

(* condMaster.notify_one by the worker that finishes the last check *)
MasterWoken(t, todo) ==
  IF todo = 0 /\ t # Master /\ at[Master] = "wait" THEN [at EXCEPT ![Master] = "woken"] ELSE at

(* The result of the batch replaces the results before it. *)
MergeLast(t) ==
  LET todo == nTodo - Cardinality(batch[t]) IN
  /\ at[t] = "merge"
  /\ Rest(t, nTotal, nIdle, todo, ok[t], MasterWoken(t, todo))

(* The clean-up at the start of the next round *)
Merge(t) ==
  LET todo == nTodo - Cardinality(batch[t]) IN
  /\ at[t] = "merge"
  /\ Rest(t, nTotal, nIdle, todo, fAllOk /\ ok[t], MasterWoken(t, todo))

-----------------------------------------------------------------------------
(* What the environment may do *)

(* A condition variable may wake a thread that nobody notified. *)
Spurious(t) ==
  /\ at[t] = "wait"
  /\ at' = [at EXCEPT ![t] = "woken"]
  /\ UNCHANGED <<queue, counters, batch, ok, block, stopping, interrupts>>

(* threadGroup.interrupt_all in PrepareShutdown *)
InterruptWorkers ==
  /\ ~stopping /\ stopping' = TRUE
  /\ UNCHANGED <<queue, counters, at, batch, ok, block, interrupts>>

(* An interrupted worker leaves Loop by an exception thrown in cond.wait,  *)
(* which skips the counters.                                               *)
WorkerEnds(w) ==
  /\ stopping /\ at[w] \in {"wait", "woken"}
  /\ at' = [at EXCEPT ![w] = "gone"]
  /\ UNCHANGED <<queue, counters, batch, ok, block, stopping, interrupts>>

(* An interrupted master leaves Wait in the same way; fDone is not set, so *)
(* the destructor of its control waits again.  An exception that leaves    *)
(* the destructor would end the process.                                   *)
MasterInterrupted ==
  /\ asked /\ interrupts < MaxInterrupt /\ at[Master] \in {"wait", "woken"}
  /\ at' = [at EXCEPT ![Master] = "start"]
  /\ asked' = FALSE /\ interrupts' = interrupts + 1
  /\ UNCHANGED <<queue, counters, batch, ok, added, verdict, stopping>>

-----------------------------------------------------------------------------
Step(t) == Enter(t) \/ Resume(t) \/ Work(t) \/ Merge(t)

Next ==
  \/ Begin
  \/ \E S \in SUBSET Check : Add(S)
  \/ \E e \in BOOLEAN : CallWait(e)
  \/ \E t \in Thread : Enter(t)
  \/ \E t \in Thread : Resume(t)
  \/ \E t \in Thread : Work(t)
  \/ \E t \in Thread : Merge(t)
  \/ \E t \in Thread : Spurious(t)
  \/ InterruptWorkers
  \/ \E w \in Worker : WorkerEnds(w)
  \/ MasterInterrupted

Spec == Init /\ [][Next]_vars

(* A thread that can run does run: the mutex is held for short, bounded    *)
(* sections, so no thread waits for it for ever.                           *)
FairSpec == Spec /\ \A t \in Thread : WF_vars(Step(t))

-----------------------------------------------------------------------------
TypeOK ==
  /\ queue \subseteq Check
  /\ nIdle \in Nat /\ nTotal \in Nat /\ nTodo \in Nat /\ fAllOk \in BOOLEAN
  /\ at \in [Thread -> Place] /\ batch \in [Thread -> SUBSET Check] /\ ok \in [Thread -> BOOLEAN]
  /\ added \subseteq Check /\ verdict \in BOOLEAN \cup {None} /\ asked \in BOOLEAN
  /\ stopping \in BOOLEAN /\ interrupts \in 0 .. MaxInterrupt

Outstanding == queue \cup UNION {batch[t] : t \in Thread}
Entered == {t \in Thread : at[t] \in {"wait", "woken", "work", "merge"}}
Asleep == {t \in Thread : at[t] \in {"wait", "woken"}}
Ended == {w \in Worker : at[w] = "gone"}

(* The counters say what they are documented to say (checkqueue.h:48-64):  *)
(* nTodo counts the checks in the queue and in batches, and nTotal and     *)
(* nIdle count the threads, where a thread that was interrupted stays      *)
(* counted in both for ever.                                               *)
CountersExact ==
  /\ nTodo = Cardinality(Outstanding)
  /\ nTotal = Cardinality(Entered) + Cardinality(Ended) + interrupts
  /\ nIdle = Cardinality(Asleep) + Cardinality(Ended) + interrupts

(* assert(isIdle) in the constructor of CCheckQueueControl holds whenever  *)
(* a block may be connected, after failed, abandoned and interrupted       *)
(* blocks too.                                                             *)
StartsIdle == at[Master] = "out" => IsIdle

(* The answer ConnectBlock gets is exactly whether all checks of this      *)
(* block succeed: no failure is lost in a batch that was merged late, and  *)
(* none comes from the block before.                                       *)
VerdictExact ==
  (at[Master] = "out" /\ verdict # None) => verdict = (added \cap Bad = {})

(* The master always comes back from Wait: no wake-up it depends on is     *)
(* lost, whether workers are there, busy, asleep or interrupted.           *)
WaitReturns == (at[Master] = "start") ~> (at[Master] = "out")
=============================================================================
