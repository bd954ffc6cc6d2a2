---------------------------- MODULE ConnectProofs ----------------------------
(***************************************************************************)
(* The two services ConnectBlock calls on.  The check queue: its counters, *)
(* the constructor's assertion and its verdict, for any number of workers, *)
(* checks and interruptions.  The coin views: the flags of every entry are *)
(* truthful, and the stack of caches implements the plain map of CoinsMap. *)
(***************************************************************************)
EXTENDS CheckQueue, CoinsCache, FiniteSetTheorems, TLAPS

(* Most leaves are about sets, which Zenon is best at; where numbers count *)
(* the leaf cites SMT.                                                     *)
USE Zenon

(* A check is in the queue or in one batch, never in two places. *)
Apart ==
  \A t \in Thread : /\ batch[t] \cap queue = {}
                    /\ \A u \in Thread \ {t} : batch[t] \cap batch[u] = {}

(* A thread has a batch exactly while it works on it. *)
Placed ==
  /\ \A t \in Thread : batch[t] # {} <=> at[t] \in {"work", "merge"}
  /\ \A w \in Worker : at[w] \notin {"out", "adding"}
  /\ at[Master] # "gone"

(* A failing check of this block is seen: in the status, or by a batch     *)
(* that will be merged, or it is still to be run.                          *)
Seen(b) ==
  \/ ~fAllOk \/ b \in queue
  \/ \E u \in Thread : b \in batch[u] /\ (at[u] = "work" \/ ~ok[u])

Judged ==
  /\ Outstanding \subseteq added
  /\ added \cap Bad = {} =>
       fAllOk /\ \A u \in Thread : at[u] \in {"work", "merge"} => ok[u]
  /\ at[Master] # "out" => \A b \in added \cap Bad : Seen(b)

Done == at[Master] = "out" => Outstanding = {} /\ fAllOk

Inv == TypeOK /\ CountersExact /\ Apart /\ Placed /\ Judged /\ Done /\ VerdictExact
-----------------------------------------------------------------------------
(* Threads and checks are finitely many, so every set counted below is. *)
LEMMA Finite == IsFiniteSet(Thread) /\ IsFiniteSet(Check)
<1>1. IsFiniteSet({Master})
  BY FS_Singleton
<1>2. IsFiniteSet(Worker \cup {Master})
  BY <1>1, FS_Union, QueueAssumption
<1> QED BY <1>2, QueueAssumption DEF Thread

LEMMA ThreadsFinite == ASSUME NEW S, S \subseteq Thread PROVE IsFiniteSet(S) /\ Cardinality(S) \in Nat
BY Finite, FS_Subset, FS_CardinalityType

LEMMA ChecksFinite == ASSUME NEW S, S \subseteq Check PROVE IsFiniteSet(S) /\ Cardinality(S) \in Nat
BY Finite, FS_Subset, FS_CardinalityType

(* How many threads a set has with t and without it *)
LEMMA Counting ==
  ASSUME NEW S, S \subseteq Thread, NEW t \in Thread
  PROVE  /\ t \in S => Cardinality(S \ {t}) = Cardinality(S) - 1
         /\ t \notin S => S \ {t} = S
         /\ Cardinality((S \ {t}) \cup {t}) = Cardinality(S \ {t}) + 1
<1>1. IsFiniteSet(S) /\ IsFiniteSet(S \ {t})
  BY ThreadsFinite
<1>2. t \in S => Cardinality(S \ {t}) = Cardinality(S) - 1
  BY <1>1, FS_RemoveElement
<1>3. Cardinality((S \ {t}) \cup {t}) = Cardinality(S \ {t}) + 1
  BY <1>1, FS_AddElement
<1> QED BY <1>2, <1>3

-----------------------------------------------------------------------------
(* The checks outstanding once the batch of t is merged *)
Others(t) == queue \cup UNION {batch[u] : u \in Thread \ {t}}

SeenBeside(t, allOk, b) ==
  \/ ~allOk \/ b \in queue
  \/ \E u \in Thread \ {t} : b \in batch[u] /\ (at[u] = "work" \/ ~ok[u])

(* What the head of a critical section of Loop has established when its    *)
(* rest begins: the counters are those of the state without t's batch.     *)
Ready(t, total, idle, todo, allOk, places) ==
  /\ total \in Nat /\ idle \in Nat /\ todo \in Nat /\ allOk \in BOOLEAN
  /\ places \in [Thread -> Place]
  /\ at[t] \in {"start", "woken", "merge"}
  /\ \A u \in Thread \ {t} : \/ places[u] = at[u]
                             \/ at[u] = "wait" /\ places[u] = "woken"
  /\ todo = Cardinality(Others(t))
  /\ total = Cardinality(Entered \ {t}) + 1 + Cardinality(Ended) + interrupts
  /\ idle = Cardinality(Asleep \ {t}) + Cardinality(Ended) + interrupts
  /\ added \cap Bad = {} => allOk
  /\ at[Master] # "out" => \A b \in added \cap Bad : SeenBeside(t, allOk, b)
  /\ at[Master] = "out" => Others(t) = {} /\ allOk

(* The rest of a critical section keeps the invariant. *)
LEMMA TakeStep ==
  ASSUME Inv, NEW t \in Thread, NEW total, NEW idle, NEW todo, NEW allOk, NEW places,
         Ready(t, total, idle, todo, allOk, places),
         Take(t, total, idle, todo, allOk, places), UNCHANGED <<stopping, interrupts>>
  PROVE  Inv'
<1>1. PICK S \in SUBSET queue : /\ Cardinality(S) = NowTaken(total, idle)
                               /\ batch' = [batch EXCEPT ![t] = S]
                               /\ queue' = queue \ S
  BY DEF Take
<1>2. /\ ok' = [ok EXCEPT ![t] = allOk] /\ at' = [places EXCEPT ![t] = "work"]
      /\ nIdle' = idle /\ nTotal' = total /\ nTodo' = todo /\ fAllOk' = allOk
      /\ added' = added /\ verdict' = verdict /\ asked' = asked
      /\ stopping' = stopping /\ interrupts' = interrupts
  BY DEF Take, block
<1>t. TypeOK
  BY DEF Inv
<1>3. S # {}
  <2>1. NowTaken(total, idle) # 0
    BY SMT DEF NowTaken, Max2, Min2
  <2> QED BY <1>1, <2>1, FS_EmptySet
<1>4. TypeOK'
  <2>1. batch' \in [Thread -> SUBSET Check] /\ queue' \subseteq Check
    BY <1>1, <1>t DEF TypeOK
  <2>2. ok' \in [Thread -> BOOLEAN] /\ at' \in [Thread -> Place]
    BY <1>2, <1>t DEF TypeOK, Ready, Place
  <2> QED BY <1>2, <1>t, <2>1, <2>2 DEF TypeOK, Ready
<1>5. \A u \in Thread : /\ u = t => batch'[u] = S /\ at'[u] = "work" /\ ok'[u] = allOk
                        /\ u # t => batch'[u] = batch[u] /\ at'[u] = places[u] /\ ok'[u] = ok[u]
  BY <1>1, <1>2, <1>t DEF TypeOK, Ready
<1>6. Outstanding' = Others(t)
  BY SMT, <1>1, <1>5 DEF Outstanding, Others
<1>7. Entered' = (Entered \ {t}) \cup {t} /\ Asleep' = Asleep \ {t}
  BY SMT, <1>5 DEF Entered, Asleep, Ready
<1>8. Ended' = Ended
  BY <1>5, <1>t DEF Ended, Ready, Thread, TypeOK
<1>9. CountersExact'
  <2>1. Cardinality((Entered \ {t}) \cup {t}) = Cardinality(Entered \ {t}) + 1
    BY Counting DEF Entered
  <2> QED BY <1>2, <1>6, <1>7, <1>8, <2>1 DEF CountersExact, Ready
<1>10. Apart'
  BY <1>1, <1>5 DEF Inv, Apart
<1>11. Placed'
  BY ZenonT(30), <1>3, <1>5 DEF Inv, Placed, Ready, Thread
<1>12. at[Master] # "out" <=> at'[Master] # "out"
  BY <1>5 DEF Ready, Thread
<1>13. Judged'
  <2>1. Outstanding' \subseteq added'
    BY <1>2, <1>6 DEF Inv, Judged, Others, Outstanding
  <2>2. (added \cap Bad = {}) => allOk /\ \A u \in Thread : at'[u] \in {"work", "merge"} => ok'[u]
    BY <1>5 DEF Inv, Judged, Ready
  <2>3. ASSUME at'[Master] # "out", NEW b \in added \cap Bad PROVE Seen(b)'
    <3>1. SeenBeside(t, allOk, b)
      BY <1>12, <2>3 DEF Ready
    <3>2. CASE ~allOk
      BY <3>2, <1>2 DEF Seen
    <3>3. CASE allOk /\ b \in queue
      BY <3>3, <1>1, <1>5 DEF Seen
    <3>4. ASSUME NEW u \in Thread \ {t}, b \in batch[u], at[u] = "work" \/ ~ok[u] PROVE Seen(b)'
      BY <3>4, <1>5 DEF Seen, Ready
    <3> QED BY <3>1, <3>2, <3>3, <3>4 DEF SeenBeside, Ready
  <2> QED BY <1>2, <2>1, <2>2, <2>3 DEF Judged
<1>14. Done'
  BY <1>2, <1>6, <1>12 DEF Done, Ready
<1>15. VerdictExact'
  BY <1>2, <1>12 DEF Inv, VerdictExact
<1> QED BY <1>4, <1>9, <1>10, <1>11, <1>13, <1>14, <1>15 DEF Inv

LEMMA SleepStep ==
  ASSUME Inv, NEW t \in Thread, NEW total, NEW idle, NEW todo, NEW allOk, NEW places,
         Ready(t, total, idle, todo, allOk, places),
         Sleep(t, total, idle, todo, allOk, places), UNCHANGED <<stopping, interrupts>>
  PROVE  Inv'
<1>1. /\ queue = {} /\ queue' = queue /\ batch' = [batch EXCEPT ![t] = {}] /\ ok' = ok
      /\ at' = [places EXCEPT ![t] = "wait"]
      /\ nIdle' = idle + 1 /\ nTotal' = total /\ nTodo' = todo /\ fAllOk' = allOk
      /\ added' = added /\ verdict' = verdict /\ asked' = asked
      /\ stopping' = stopping /\ interrupts' = interrupts
  BY DEF Sleep, block
<1>t. TypeOK
  BY DEF Inv
<1>4. TypeOK'
  <2>1. batch' \in [Thread -> SUBSET Check] /\ at' \in [Thread -> Place]
    BY <1>1, <1>t DEF TypeOK, Ready, Place
  <2> QED BY SMT, <1>1, <1>t, <2>1 DEF TypeOK, Ready
<1>5. \A u \in Thread : /\ u = t => batch'[u] = {} /\ at'[u] = "wait"
                        /\ u # t => batch'[u] = batch[u] /\ at'[u] = places[u]
  BY <1>1, <1>t DEF TypeOK, Ready
<1>6. Outstanding' = Others(t)
  BY <1>1, <1>5 DEF Outstanding, Others
<1>7. Entered' = (Entered \ {t}) \cup {t} /\ Asleep' = (Asleep \ {t}) \cup {t}
  BY SMT, <1>5 DEF Entered, Asleep, Ready
<1>8. Ended' = Ended
  BY <1>5, <1>t DEF Ended, Ready, Thread, TypeOK
<1>9. CountersExact'
  <2>1. /\ Cardinality((Entered \ {t}) \cup {t}) = Cardinality(Entered \ {t}) + 1
        /\ Cardinality((Asleep \ {t}) \cup {t}) = Cardinality(Asleep \ {t}) + 1
    BY Counting DEF Entered, Asleep
  <2>2. /\ Cardinality(Asleep \ {t}) \in Nat /\ Cardinality(Ended) \in Nat /\ interrupts \in Nat
    BY SMT, ThreadsFinite, <1>t, QueueAssumption DEF Asleep, Ended, Thread, TypeOK
  <2> QED BY SMT, <1>1, <1>6, <1>7, <1>8, <2>1, <2>2 DEF CountersExact, Ready
<1>10. Apart'
  BY <1>1, <1>5 DEF Inv, Apart
<1>11. Placed'
  BY ZenonT(30), <1>5 DEF Inv, Placed, Ready, Thread
<1>12. at[Master] # "out" <=> at'[Master] # "out"
  BY <1>5 DEF Ready, Thread
<1>13. Judged'
  <2>1. Outstanding' \subseteq added'
    BY SMT, <1>1, <1>6 DEF Inv, Judged, Others, Outstanding
  <2>2. (added \cap Bad = {}) => allOk /\ \A u \in Thread : at'[u] \in {"work", "merge"} => ok'[u]
    BY <1>1, <1>5 DEF Inv, Judged, Ready
  <2>3. ASSUME at'[Master] # "out", NEW b \in added \cap Bad PROVE Seen(b)'
    <3>1. SeenBeside(t, allOk, b)
      BY <1>12, <2>3 DEF Ready
    <3>2. CASE ~allOk
      BY <3>2, <1>1 DEF Seen
    <3>4. ASSUME NEW u \in Thread \ {t}, b \in batch[u], at[u] = "work" \/ ~ok[u] PROVE Seen(b)'
      BY <3>4, <1>1, <1>5 DEF Seen, Ready
    <3> QED BY <1>1, <3>1, <3>2, <3>4 DEF SeenBeside, Ready
  <2> QED BY <1>1, <2>1, <2>2, <2>3 DEF Judged
<1>14. Done'
  BY <1>1, <1>6, <1>12 DEF Done, Ready
<1>15. VerdictExact'
  BY <1>1, <1>12 DEF Inv, VerdictExact
<1> QED BY <1>4, <1>9, <1>10, <1>11, <1>13, <1>14, <1>15 DEF Inv

LEMMA LeaveStep ==
  ASSUME Inv, NEW t \in Thread, NEW total, NEW idle, NEW todo, NEW allOk, NEW places,
         Ready(t, total, idle, todo, allOk, places),
         Leave(t, total, idle, todo, allOk, places), UNCHANGED <<stopping, interrupts>>
  PROVE  Inv'
<1>1. /\ queue = {} /\ queue' = queue /\ batch' = [batch EXCEPT ![t] = {}] /\ ok' = ok
      /\ at' = [places EXCEPT ![t] = "out"] /\ t = Master /\ todo = 0
      /\ nIdle' = idle /\ nTotal' = total - 1 /\ nTodo' = todo /\ fAllOk' = TRUE
      /\ added' = added /\ asked' = asked /\ verdict' = IF asked THEN allOk ELSE None
      /\ stopping' = stopping /\ interrupts' = interrupts
  BY DEF Leave
<1>t. TypeOK
  BY DEF Inv
<1>2. Cardinality(Entered \ {t}) \in Nat /\ Cardinality(Ended) \in Nat /\ interrupts \in Nat
  BY SMT, ThreadsFinite, <1>t, QueueAssumption DEF Entered, Ended, Thread, TypeOK
<1>3. nTotal' = Cardinality(Entered \ {t}) + Cardinality(Ended) + interrupts
  BY SMT, <1>1, <1>2 DEF Ready
<1>4. TypeOK'
  <2>1. batch' \in [Thread -> SUBSET Check] /\ at' \in [Thread -> Place]
    BY <1>1, <1>t DEF TypeOK, Ready, Place
  <2>2. nTotal' \in Nat
    BY SMT, <1>2, <1>3
  <2> QED BY <1>1, <1>t, <2>1, <2>2 DEF TypeOK, Ready
<1>5. \A u \in Thread : /\ u = t => batch'[u] = {} /\ at'[u] = "out"
                        /\ u # t => batch'[u] = batch[u] /\ at'[u] = places[u]
  BY <1>1, <1>t DEF TypeOK, Ready
<1>6. Outstanding' = Others(t) /\ Others(t) = {}
  <2>1. Outstanding' = Others(t)
    BY SMT, <1>1, <1>5 DEF Outstanding, Others
  <2>2. IsFiniteSet(Others(t))
    BY ChecksFinite, <1>t DEF Others, TypeOK
  <2> QED BY <2>1, <2>2, <1>1, FS_EmptySet DEF Ready
<1>7. Entered' = Entered \ {t} /\ Asleep' = Asleep \ {t}
  BY SMT, <1>5 DEF Entered, Asleep, Ready
<1>8. Ended' = Ended
  BY <1>5, <1>t DEF Ended, Ready, Thread, TypeOK
<1>9. CountersExact'
  BY <1>1, <1>3, <1>6, <1>7, <1>8 DEF CountersExact, Ready
<1>10. Apart'
  BY <1>1, <1>5 DEF Inv, Apart
<1>11. Placed'
  BY SMT, <1>1, <1>5, QueueAssumption DEF Inv, Placed, Ready, Thread
<1>13. Judged'
  <2>1. \A u \in Thread : batch'[u] = {} /\ at'[u] \notin {"work", "merge"}
    BY SMT, <1>5, <1>6, <1>11 DEF Others, Placed
  <2> QED BY <1>1, <1>5, <1>6, <2>1 DEF Judged
<1>14. Done'
  BY <1>1, <1>6 DEF Done
<1>15. VerdictExact'
  <2>1. at[Master] # "out"
    BY <1>1 DEF Ready
  <2>2. ASSUME NEW b \in added \cap Bad PROVE ~allOk
    <3>1. SeenBeside(t, allOk, b)
      BY <2>1, <2>2 DEF Ready
    <3> QED BY <3>1, <1>6 DEF SeenBeside, Others
  <2>3. allOk = (added \cap Bad = {})
    BY <2>2 DEF Ready
  <2> QED BY <1>1, <2>3 DEF VerdictExact
<1> QED BY <1>4, <1>9, <1>10, <1>11, <1>13, <1>14, <1>15 DEF Inv

LEMMA RestStep ==
  ASSUME Inv, NEW t \in Thread, NEW total, NEW idle, NEW todo, NEW allOk, NEW places,
         Ready(t, total, idle, todo, allOk, places), Rest(t, total, idle, todo, allOk, places)
  PROVE  Inv'
BY TakeStep, SleepStep, LeaveStep DEF Rest

-----------------------------------------------------------------------------
(* A thread without a batch: nothing to merge *)
LEMMA Unburdened ==
  ASSUME Inv, NEW t \in Thread, at[t] \in {"start", "woken"}
  PROVE  /\ Others(t) = Outstanding
         /\ added \cap Bad = {} => fAllOk
         /\ at[Master] # "out" => \A b \in added \cap Bad : SeenBeside(t, fAllOk, b)
         /\ at[Master] = "out" => Others(t) = {} /\ fAllOk
<1>1. batch[t] = {}
  BY DEF Inv, Placed
<1>2. Others(t) = Outstanding
  BY <1>1 DEF Others, Outstanding
<1>3. ASSUME at[Master] # "out", NEW b \in added \cap Bad PROVE SeenBeside(t, fAllOk, b)
  BY <1>1, <1>3 DEF Inv, Judged, Seen, SeenBeside
<1>4. at[Master] = "out" => Others(t) = {} /\ fAllOk
  BY <1>2 DEF Inv, Done
<1>5. added \cap Bad = {} => fAllOk
  BY DEF Inv, Judged
<1> QED BY <1>2, <1>3, <1>4, <1>5

LEMMA EnterStep == ASSUME Inv, NEW t \in Thread, Enter(t) PROVE Inv'
<1>1. at[t] = "start" /\ Rest(t, nTotal + 1, nIdle, nTodo, fAllOk, at)
  BY DEF Enter
<1>2. t \notin Entered /\ t \notin Asleep /\ Entered \subseteq Thread /\ Asleep \subseteq Thread
  BY <1>1 DEF Entered, Asleep
<1>3. Entered \ {t} = Entered /\ Asleep \ {t} = Asleep
  BY <1>2
<1>4. Cardinality(Entered) \in Nat /\ Cardinality(Ended) \in Nat /\ interrupts \in Nat
  BY SMT, ThreadsFinite, QueueAssumption DEF Entered, Ended, Thread, Inv, TypeOK
<1>5. nTotal + 1 = Cardinality(Entered \ {t}) + 1 + Cardinality(Ended) + interrupts
  <2>1. nTotal = Cardinality(Entered) + Cardinality(Ended) + interrupts
    BY DEF Inv, CountersExact
  <2>2. Cardinality(Entered \ {t}) = Cardinality(Entered)
    BY <1>3
  <2> QED BY SMT, <1>4, <2>1, <2>2
<1>6. /\ nIdle = Cardinality(Asleep \ {t}) + Cardinality(Ended) + interrupts
      /\ nTodo = Cardinality(Others(t))
  BY <1>1, <1>3, Unburdened DEF Inv, CountersExact
<1>7. /\ nTotal + 1 \in Nat /\ nIdle \in Nat /\ nTodo \in Nat /\ fAllOk \in BOOLEAN
      /\ at \in [Thread -> Place]
  BY SMT DEF Inv, TypeOK
<1>8. Ready(t, nTotal + 1, nIdle, nTodo, fAllOk, at)
  BY <1>1, <1>5, <1>6, <1>7, Unburdened DEF Ready
<1> QED BY <1>1, <1>8, RestStep

LEMMA ResumeStep == ASSUME Inv, NEW t \in Thread, Resume(t) PROVE Inv'
<1>1. at[t] = "woken" /\ Rest(t, nTotal, nIdle - 1, nTodo, fAllOk, at)
  BY DEF Resume
<1>2. t \in Entered /\ t \in Asleep /\ Entered \subseteq Thread /\ Asleep \subseteq Thread
  BY <1>1 DEF Entered, Asleep
<1>3. /\ Cardinality(Entered \ {t}) = Cardinality(Entered) - 1
      /\ Cardinality(Asleep \ {t}) = Cardinality(Asleep) - 1
  BY <1>2, Counting
<1>4. /\ Cardinality(Entered) \in Nat /\ Cardinality(Asleep) \in Nat /\ Cardinality(Ended) \in Nat
      /\ interrupts \in Nat /\ Cardinality(Asleep \ {t}) \in Nat
  BY SMT, ThreadsFinite, QueueAssumption DEF Entered, Asleep, Ended, Thread, Inv, TypeOK
<1>5. /\ nTotal = Cardinality(Entered \ {t}) + 1 + Cardinality(Ended) + interrupts
      /\ nIdle - 1 = Cardinality(Asleep \ {t}) + Cardinality(Ended) + interrupts
  BY SMT, <1>3, <1>4 DEF Inv, CountersExact
<1>6. nTodo = Cardinality(Others(t))
  BY <1>1, Unburdened DEF Inv, CountersExact
<1>7. /\ nTotal \in Nat /\ nIdle - 1 \in Nat /\ nTodo \in Nat /\ fAllOk \in BOOLEAN
      /\ at \in [Thread -> Place]
  BY SMT, <1>4, <1>5 DEF Inv, TypeOK
<1>8. Ready(t, nTotal, nIdle - 1, nTodo, fAllOk, at)
  BY <1>1, <1>5, <1>6, <1>7, Unburdened DEF Ready
<1> QED BY <1>1, <1>8, RestStep

LEMMA MergeStep == ASSUME Inv, NEW t \in Thread, Merge(t) PROVE Inv'
<1> DEFINE todo == nTodo - Cardinality(batch[t])
           allOk == fAllOk /\ ok[t]
           places == MasterWoken(t, todo)
<1>1. at[t] = "merge" /\ Rest(t, nTotal, nIdle, todo, allOk, places)
  BY DEF Merge
<1>2. t \in Entered /\ t \notin Asleep /\ Entered \subseteq Thread /\ Asleep \ {t} = Asleep
  BY <1>1 DEF Entered, Asleep
<1>3. Cardinality(Entered \ {t}) = Cardinality(Entered) - 1
  BY <1>2, Counting
<1>4. Cardinality(Entered) \in Nat /\ Cardinality(Ended) \in Nat /\ interrupts \in Nat
  BY SMT, ThreadsFinite, QueueAssumption DEF Entered, Ended, Thread, Inv, TypeOK
<1>5. /\ nTotal = Cardinality(Entered \ {t}) + 1 + Cardinality(Ended) + interrupts
      /\ nIdle = Cardinality(Asleep \ {t}) + Cardinality(Ended) + interrupts
  <2>1. /\ nTotal = Cardinality(Entered) + Cardinality(Ended) + interrupts
        /\ nIdle = Cardinality(Asleep) + Cardinality(Ended) + interrupts
    BY DEF Inv, CountersExact
  <2>2. Cardinality(Asleep \ {t}) = Cardinality(Asleep)
    BY <1>2
  <2> QED BY SMT, <1>3, <1>4, <2>1, <2>2
<1>6. todo = Cardinality(Others(t)) /\ todo \in Nat
  <2>1. Outstanding = Others(t) \cup batch[t] /\ Others(t) \cap batch[t] = {}
    BY DEF Outstanding, Others, Inv, Apart
  <2>2. /\ IsFiniteSet(Others(t)) /\ IsFiniteSet(batch[t])
        /\ Cardinality(Others(t)) \in Nat /\ Cardinality(batch[t]) \in Nat
    BY ChecksFinite DEF Others, Inv, TypeOK
  <2>3. Cardinality(Outstanding) = Cardinality(Others(t)) + Cardinality(batch[t])
    <3>1. Cardinality(Others(t) \cup batch[t]) =
            Cardinality(Others(t)) + Cardinality(batch[t]) - Cardinality(Others(t) \cap batch[t])
      BY <2>2, FS_Union
    <3>2. Cardinality({}) = 0
      BY FS_EmptySet
    <3>3. /\ Cardinality(Outstanding) = Cardinality(Others(t) \cup batch[t])
          /\ Cardinality(Others(t) \cap batch[t]) = 0
      BY <2>1, <3>2
    <3> QED BY SMT, <2>2, <3>1, <3>3
  <2> QED BY SMT, <2>2, <2>3 DEF Inv, CountersExact
<1> HIDE DEF todo
<1>7. /\ places \in [Thread -> Place]
      /\ \A u \in Thread \ {t} : \/ places[u] = at[u]
                                 \/ at[u] = "wait" /\ places[u] = "woken"
  BY DEF MasterWoken, Inv, TypeOK, Place, Thread
<1> HIDE DEF places
<1>8. allOk \in BOOLEAN /\ (added \cap Bad = {} => allOk)
  BY <1>1 DEF Inv, TypeOK, Judged
<1>9. ASSUME at[Master] # "out", NEW b \in added \cap Bad PROVE SeenBeside(t, allOk, b)
  <2>1. Seen(b)
    BY <1>9 DEF Inv, Judged
  <2>2. ASSUME NEW u \in Thread, b \in batch[u], at[u] = "work" \/ ~ok[u] PROVE SeenBeside(t, allOk, b)
    BY <1>1, <2>2 DEF SeenBeside
  <2> QED BY <2>1, <2>2 DEF Seen, SeenBeside
<1>10. at[Master] = "out" => Others(t) = {} /\ allOk
  <2>1. batch[t] # {} /\ batch[t] \subseteq Outstanding
    BY <1>1 DEF Inv, Placed, Outstanding
  <2> QED BY <2>1 DEF Inv, Done
<1> HIDE DEF allOk
<1>11. nTotal \in Nat /\ nIdle \in Nat
  BY DEF Inv, TypeOK
<1>12. Ready(t, nTotal, nIdle, todo, allOk, places)
  BY <1>1, <1>5, <1>6, <1>7, <1>8, <1>9, <1>10, <1>11 DEF Ready
<1> QED BY <1>1, <1>12, RestStep

-----------------------------------------------------------------------------
(* Steps that move threads between places of the same kind and leave the   *)
(* checks alone *)
SameKind(t) ==
  \/ at'[t] = at[t]
  \/ at[t] \in {"wait", "woken"} /\ at'[t] \in {"wait", "woken"}
  \/ at[t] = "adding" /\ at'[t] = "start"

LEMMA MoveStep ==
  ASSUME Inv, at' \in [Thread -> Place], \A t \in Thread : SameKind(t),
         UNCHANGED <<queue, counters, batch, ok, added, verdict, interrupts>>,
         asked' \in BOOLEAN, stopping' \in BOOLEAN
  PROVE  Inv'
<1>1. /\ queue' = queue /\ nIdle' = nIdle /\ nTotal' = nTotal /\ nTodo' = nTodo /\ fAllOk' = fAllOk
      /\ batch' = batch /\ ok' = ok /\ added' = added /\ verdict' = verdict
      /\ interrupts' = interrupts
  BY DEF counters
<1>2. TypeOK'
  BY <1>1 DEF Inv, TypeOK
<1>3. /\ Entered' = Entered /\ Asleep' = Asleep /\ Ended' = Ended
      /\ Outstanding' = Outstanding
  BY <1>1 DEF Entered, Asleep, Ended, Outstanding, SameKind, Thread
<1>4. CountersExact'
  BY <1>1, <1>3 DEF Inv, CountersExact
<1>5. Apart' /\ Placed'
  BY <1>1 DEF Inv, Apart, Placed, SameKind, Thread
<1>6. (at[Master] = "out") <=> (at'[Master] = "out")
  BY DEF SameKind, Thread
<1>7. \A t \in Thread : (at[t] = "work" <=> at'[t] = "work") /\ (at[t] = "merge" <=> at'[t] = "merge")
  BY DEF SameKind
<1>8. Judged'
  BY <1>1, <1>3, <1>6, <1>7 DEF Inv, Judged, Seen
<1>9. Done' /\ VerdictExact'
  BY <1>1, <1>3, <1>6 DEF Inv, Done, VerdictExact
<1> QED BY <1>2, <1>4, <1>5, <1>8, <1>9 DEF Inv

LEMMA BeginStep == ASSUME Inv, Begin PROVE Inv'
<1>1. /\ at[Master] = "out" /\ at' = [at EXCEPT ![Master] = "adding"]
      /\ added' = {} /\ verdict' = None /\ asked' = FALSE
      /\ queue' = queue /\ nIdle' = nIdle /\ nTotal' = nTotal /\ nTodo' = nTodo /\ fAllOk' = fAllOk
      /\ batch' = batch /\ ok' = ok /\ stopping' = stopping /\ interrupts' = interrupts
  BY DEF Begin, counters
<1>2. Outstanding = {} /\ fAllOk /\ Outstanding' = Outstanding
  BY <1>1 DEF Inv, Done, Outstanding
<1>3. at'[Master] = "adding" /\ \A t \in Thread \ {Master} : at'[t] = at[t]
  BY <1>1 DEF Inv, TypeOK, Thread
<1>4. TypeOK'
  BY <1>1 DEF Inv, TypeOK, Place, Thread
<1>5. Entered' = Entered /\ Asleep' = Asleep /\ Ended' = Ended
  BY <1>1, <1>3, QueueAssumption DEF Entered, Asleep, Ended, Thread
<1>6. CountersExact'
  BY <1>1, <1>2, <1>5 DEF Inv, CountersExact
<1>7. Apart' /\ Placed'
  BY <1>1, <1>3, QueueAssumption DEF Inv, Apart, Placed, Thread
<1>8. \A t \in Thread : batch'[t] = {}
  BY <1>1, <1>2 DEF Outstanding
<1>9. Judged'
  BY <1>1, <1>2, <1>7, <1>8 DEF Judged, Placed
<1>10. Done' /\ VerdictExact'
  BY <1>1, <1>3 DEF Done, VerdictExact
<1> QED BY <1>4, <1>6, <1>7, <1>9, <1>10 DEF Inv

LEMMA AddStep == ASSUME Inv, NEW S \in SUBSET Check, Add(S) PROVE Inv'
<1>1. PICK W \in Notified(S) : at' = [t \in Thread |-> IF t \in W THEN "woken" ELSE at[t]]
  BY DEF Add
<1>2. /\ at[Master] = "adding" /\ S \subseteq Check \ added
      /\ queue' = queue \cup S /\ added' = added \cup S /\ nTodo' = nTodo + Cardinality(S)
      /\ nIdle' = nIdle /\ nTotal' = nTotal /\ fAllOk' = fAllOk /\ batch' = batch /\ ok' = ok
      /\ verdict' = verdict /\ asked' = asked /\ stopping' = stopping /\ interrupts' = interrupts
  BY DEF Add
<1>3. W \subseteq Waiting
  <2>1. CASE Cardinality(S) = 1
    <3>1. W \in {{w} : w \in Waiting} \cup {x \in {{}} : Waiting = {}}
      BY <2>1 DEF Notified
    <3> QED BY <3>1
  <2>2. CASE Cardinality(S) # 1
    BY <2>2 DEF Notified
  <2> QED BY <2>1, <2>2
<1>4. \A t \in Thread : at'[t] = at[t] \/ (at[t] = "wait" /\ at'[t] = "woken")
  BY <1>1, <1>3 DEF Waiting
<1>5. at' \in [Thread -> Place]
  BY <1>1 DEF Inv, TypeOK, Place
<1>6. Cardinality(S) \in Nat /\ IsFiniteSet(S)
  BY ChecksFinite
<1>7. TypeOK'
  BY SMT, <1>2, <1>5, <1>6 DEF Inv, TypeOK
<1>8. Entered' = Entered /\ Asleep' = Asleep /\ Ended' = Ended
  BY <1>4 DEF Entered, Asleep, Ended, Thread
<1>9. Outstanding' = Outstanding \cup S /\ Outstanding \cap S = {}
  BY SMT, <1>2 DEF Outstanding, Inv, Judged
<1>10. nTodo' = Cardinality(Outstanding')
  <2>1. IsFiniteSet(Outstanding) /\ Cardinality(Outstanding) \in Nat
    BY SMT, ChecksFinite DEF Outstanding, Inv, TypeOK
  <2>2. Cardinality(Outstanding \cup S) = Cardinality(Outstanding) + Cardinality(S) - Cardinality(Outstanding \cap S)
    BY <1>6, <2>1, FS_Union
  <2>3. Cardinality(Outstanding \cap S) = 0
    BY <1>9, FS_EmptySet
  <2>4. Cardinality(Outstanding \cup S) = nTodo + Cardinality(S)
    BY SMT, <1>6, <2>1, <2>2, <2>3 DEF Inv, CountersExact
  <2> QED BY <1>2, <1>9, <2>4
<1>11. CountersExact'
  BY <1>2, <1>8, <1>10 DEF Inv, CountersExact
<1>12. Apart'
  <2>1. \A t \in Thread : batch[t] \cap S = {}
    BY <1>9 DEF Outstanding
  <2> QED BY <1>2, <2>1 DEF Inv, Apart
<1>13. Placed'
  BY <1>2, <1>4 DEF Inv, Placed, Thread
<1>14. at'[Master] # "out"
  BY <1>2, <1>4 DEF Thread
<1>15. Judged'
  <2>1. Outstanding' \subseteq added'
    BY <1>2, <1>9 DEF Inv, Judged
  <2>2. (added' \cap Bad = {}) => fAllOk' /\ \A u \in Thread : at'[u] \in {"work", "merge"} => ok'[u]
    BY <1>2, <1>4 DEF Inv, Judged
  <2>3. ASSUME NEW b \in added' \cap Bad PROVE Seen(b)'
    <3>1. CASE b \in S
      BY <1>2, <3>1 DEF Seen
    <3>2. CASE b \in added
      <4>1. Seen(b)
        BY <1>2, <2>3, <3>2 DEF Inv, Judged
      <4> QED BY <1>2, <1>4, <4>1 DEF Seen
    <3> QED BY <1>2, <2>3, <3>1, <3>2
  <2> QED BY <2>1, <2>2, <2>3 DEF Judged
<1>16. Done' /\ VerdictExact'
  BY <1>14 DEF Done, VerdictExact
<1> QED BY <1>7, <1>11, <1>12, <1>13, <1>15, <1>16 DEF Inv

LEMMA WorkStep == ASSUME Inv, NEW t \in Thread, Work(t) PROVE Inv'
<1>1. /\ at[t] = "work" /\ at' = [at EXCEPT ![t] = "merge"]
      /\ ok' = [ok EXCEPT ![t] = @ /\ batch[t] \cap Bad = {}]
      /\ queue' = queue /\ nIdle' = nIdle /\ nTotal' = nTotal /\ nTodo' = nTodo /\ fAllOk' = fAllOk
      /\ batch' = batch /\ added' = added /\ verdict' = verdict /\ asked' = asked
      /\ stopping' = stopping /\ interrupts' = interrupts
  BY DEF Work, counters, block
<1>2. \A u \in Thread : /\ u = t => at'[u] = "merge" /\ ok'[u] = (ok[u] /\ batch[u] \cap Bad = {})
                        /\ u # t => at'[u] = at[u] /\ ok'[u] = ok[u]
  BY <1>1 DEF Inv, TypeOK
<1>3. TypeOK'
  <2>1. at' \in [Thread -> Place] /\ ok' \in [Thread -> BOOLEAN]
    BY <1>1 DEF Inv, TypeOK, Place
  <2> QED BY <1>1, <2>1 DEF Inv, TypeOK
<1>4. Entered' = Entered /\ Asleep' = Asleep /\ Outstanding' = Outstanding
  BY <1>1, <1>2 DEF Entered, Asleep, Outstanding
<1>5. Ended' = Ended
  BY <1>1, <1>2 DEF Ended, Thread
<1>6. CountersExact'
  BY <1>1, <1>4, <1>5 DEF Inv, CountersExact
<1>7. Apart' /\ Placed'
  BY <1>1, <1>2 DEF Inv, Apart, Placed, Thread
<1>8. (at[Master] = "out") <=> (at'[Master] = "out")
  BY <1>1, <1>2 DEF Thread
<1>9. Judged'
  <2>1. (added \cap Bad = {}) => \A u \in Thread : at'[u] \in {"work", "merge"} => ok'[u]
    <3>1. \A u \in Thread : batch[u] \subseteq added
      BY DEF Inv, Judged, Outstanding
    <3> QED BY <1>1, <1>2, <3>1 DEF Inv, Judged
  <2>2. ASSUME at[Master] # "out", NEW b \in added \cap Bad PROVE Seen(b)'
    <3>1. Seen(b)
      BY <2>2 DEF Inv, Judged
    <3>2. ASSUME NEW u \in Thread, b \in batch[u], at[u] = "work" \/ ~ok[u] PROVE at'[u] = "work" \/ ~ok'[u]
      BY <1>2, <3>2
    <3> QED BY <1>1, <3>1, <3>2 DEF Seen
  <2> QED BY <1>1, <1>4, <1>8, <2>1, <2>2 DEF Inv, Judged
<1>10. Done' /\ VerdictExact'
  BY <1>1, <1>4, <1>8 DEF Inv, Done, VerdictExact
<1> QED BY <1>3, <1>6, <1>7, <1>9, <1>10 DEF Inv

(* An interrupted worker moves from Asleep to Ended, and stays counted. *)
LEMMA WorkerEndsStep == ASSUME Inv, NEW w \in Worker, WorkerEnds(w) PROVE Inv'
<1>1. /\ at[w] \in {"wait", "woken"} /\ at' = [at EXCEPT ![w] = "gone"]
      /\ queue' = queue /\ nIdle' = nIdle /\ nTotal' = nTotal /\ nTodo' = nTodo /\ fAllOk' = fAllOk
      /\ batch' = batch /\ ok' = ok /\ added' = added /\ verdict' = verdict /\ asked' = asked
      /\ stopping' = stopping /\ interrupts' = interrupts
  BY DEF WorkerEnds, counters, block
<1>2. w \in Thread /\ w # Master /\ at'[w] = "gone" /\ \A u \in Thread \ {w} : at'[u] = at[u]
  BY <1>1, QueueAssumption DEF Inv, TypeOK, Thread
<1>3. TypeOK'
  BY <1>1 DEF Inv, TypeOK, Place
<1>4. /\ w \in Entered /\ w \in Asleep /\ w \notin Ended /\ Entered' = Entered \ {w}
      /\ Asleep' = Asleep \ {w} /\ Ended' = (Ended \ {w}) \cup {w} /\ Ended \ {w} = Ended
  BY <1>1, <1>2 DEF Entered, Asleep, Ended, Thread
<1>5. Entered \subseteq Thread /\ Asleep \subseteq Thread /\ Ended \subseteq Thread
  BY DEF Entered, Asleep, Ended, Thread
<1>6. /\ Cardinality(Entered') = Cardinality(Entered) - 1
      /\ Cardinality(Asleep') = Cardinality(Asleep) - 1
      /\ Cardinality(Ended') = Cardinality(Ended) + 1
  BY <1>2, <1>4, <1>5, Counting
<1>7. /\ Cardinality(Entered) \in Nat /\ Cardinality(Asleep) \in Nat /\ Cardinality(Ended) \in Nat
      /\ interrupts \in Nat
  BY SMT, <1>5, ThreadsFinite, QueueAssumption DEF Inv, TypeOK
<1>8. Outstanding' = Outstanding
  BY <1>1 DEF Outstanding
<1>9. CountersExact'
  <2>1. /\ nTotal = Cardinality(Entered) + Cardinality(Ended) + interrupts
        /\ nIdle = Cardinality(Asleep) + Cardinality(Ended) + interrupts
    BY DEF Inv, CountersExact
  <2>2. /\ nTotal' = Cardinality(Entered') + Cardinality(Ended') + interrupts'
        /\ nIdle' = Cardinality(Asleep') + Cardinality(Ended') + interrupts'
    BY SMT, <1>1, <1>6, <1>7, <2>1
  <2> QED BY <1>1, <1>8, <2>2 DEF Inv, CountersExact
<1>10. Apart' /\ Placed'
  BY <1>1, <1>2 DEF Inv, Apart, Placed, Thread
<1>11. Judged'
  <2>1. \A u \in Thread : (at[u] = "work" <=> at'[u] = "work") /\ (at[u] = "merge" <=> at'[u] = "merge")
    BY <1>1, <1>2
  <2> QED BY <1>1, <1>2, <1>8, <2>1 DEF Inv, Judged, Seen, Thread
<1>12. Done' /\ VerdictExact'
  BY <1>1, <1>2, <1>8 DEF Inv, Done, VerdictExact, Thread
<1> QED BY <1>3, <1>9, <1>10, <1>11, <1>12 DEF Inv

LEMMA InterruptedStep == ASSUME Inv, MasterInterrupted PROVE Inv'
<1>1. /\ at[Master] \in {"wait", "woken"} /\ at' = [at EXCEPT ![Master] = "start"]
      /\ asked' = FALSE /\ interrupts' = interrupts + 1 /\ interrupts < MaxInterrupt
      /\ queue' = queue /\ nIdle' = nIdle /\ nTotal' = nTotal /\ nTodo' = nTodo /\ fAllOk' = fAllOk
      /\ batch' = batch /\ ok' = ok /\ added' = added /\ verdict' = verdict /\ stopping' = stopping
  BY DEF MasterInterrupted, counters
<1>2. Master \in Thread /\ at'[Master] = "start" /\ \A u \in Thread \ {Master} : at'[u] = at[u]
  BY <1>1 DEF Inv, TypeOK, Thread
<1>3. TypeOK'
  <2>1. at' \in [Thread -> Place]
    BY <1>1 DEF Inv, TypeOK, Place
  <2>2. interrupts' \in 0 .. MaxInterrupt
    BY SMT, <1>1, QueueAssumption DEF Inv, TypeOK
  <2> QED BY <1>1, <2>1, <2>2 DEF Inv, TypeOK
<1>4. /\ Master \in Entered /\ Master \in Asleep /\ Entered' = Entered \ {Master}
      /\ Asleep' = Asleep \ {Master} /\ Ended' = Ended
  BY <1>1, <1>2, QueueAssumption DEF Entered, Asleep, Ended, Thread
<1>5. Entered \subseteq Thread /\ Asleep \subseteq Thread /\ Ended \subseteq Thread
  BY DEF Entered, Asleep, Ended, Thread
<1>6. /\ Cardinality(Entered') = Cardinality(Entered) - 1
      /\ Cardinality(Asleep') = Cardinality(Asleep) - 1
      /\ Cardinality(Ended') = Cardinality(Ended)
  BY <1>2, <1>4, <1>5, Counting
<1>7. /\ Cardinality(Entered) \in Nat /\ Cardinality(Asleep) \in Nat /\ Cardinality(Ended) \in Nat
      /\ interrupts \in Nat
  BY SMT, <1>5, ThreadsFinite, QueueAssumption DEF Inv, TypeOK
<1>8. Outstanding' = Outstanding
  BY <1>1 DEF Outstanding
<1>9. CountersExact'
  <2>1. /\ nTotal = Cardinality(Entered) + Cardinality(Ended) + interrupts
        /\ nIdle = Cardinality(Asleep) + Cardinality(Ended) + interrupts
    BY DEF Inv, CountersExact
  <2>2. /\ nTotal' = Cardinality(Entered') + Cardinality(Ended') + interrupts'
        /\ nIdle' = Cardinality(Asleep') + Cardinality(Ended') + interrupts'
    <3>1. nTotal' = nTotal /\ nIdle' = nIdle /\ interrupts' = interrupts + 1
      BY <1>1
    <3> DEFINE e == Cardinality(Entered)  s == Cardinality(Asleep)  g == Cardinality(Ended)
    <3>2. /\ e \in Nat /\ s \in Nat /\ g \in Nat
          /\ nTotal' = e + g + interrupts /\ nIdle' = s + g + interrupts
      BY <1>7, <2>1, <3>1
    <3>3. Cardinality(Entered') = e - 1 /\ Cardinality(Asleep') = s - 1 /\ Cardinality(Ended') = g
      BY <1>6
    <3> HIDE DEF e, s, g
    <3> QED BY SMT, <1>7, <3>1, <3>2, <3>3
  <2> QED BY <1>1, <1>8, <2>2 DEF Inv, CountersExact
<1>10. Apart' /\ Placed'
  BY <1>1, <1>2, QueueAssumption DEF Inv, Apart, Placed, Thread
<1>11. Judged'
  <2>1. \A u \in Thread : (at[u] = "work" <=> at'[u] = "work") /\ (at[u] = "merge" <=> at'[u] = "merge")
    BY <1>1, <1>2
  <2> QED BY <1>1, <1>2, <1>8, <2>1 DEF Inv, Judged, Seen
<1>12. Done' /\ VerdictExact'
  BY <1>2 DEF Done, VerdictExact
<1> QED BY <1>3, <1>9, <1>10, <1>11, <1>12 DEF Inv

LEMMA InitInv == Init => Inv
<1> SUFFICES ASSUME Init PROVE Inv
  OBVIOUS
<1>1. TypeOK
  <2>1. at \in [Thread -> Place] /\ batch \in [Thread -> SUBSET Check] /\ ok \in [Thread -> BOOLEAN]
    BY DEF Init, Place
  <2>2. interrupts \in 0 .. MaxInterrupt
    BY SMT, QueueAssumption DEF Init
  <2> QED BY <2>1, <2>2 DEF Init, TypeOK
<1>2. Outstanding = {} /\ Entered = {} /\ Asleep = {} /\ Ended = {}
  BY DEF Init, Outstanding, Entered, Asleep, Ended, Thread
<1>3. CountersExact
  BY SMT, <1>2, FS_EmptySet DEF Init, CountersExact
<1>4. Apart /\ Placed
  BY QueueAssumption DEF Init, Apart, Placed, Thread
<1>5. Judged /\ Done /\ VerdictExact
  BY <1>2 DEF Init, Judged, Done, VerdictExact, Thread
<1> QED BY <1>1, <1>3, <1>4, <1>5 DEF Inv

LEMMA NextInv == Inv /\ [Next]_vars => Inv'
<1> SUFFICES ASSUME Inv, [Next]_vars PROVE Inv'
  OBVIOUS
<1>t. at \in [Thread -> Place] /\ asked \in BOOLEAN /\ stopping \in BOOLEAN
  BY DEF Inv, TypeOK
<1>1. CASE Begin
  BY <1>1, BeginStep
<1>2. ASSUME NEW S \in SUBSET Check, Add(S) PROVE Inv'
  BY <1>2, AddStep
<1>3. ASSUME NEW e \in BOOLEAN, CallWait(e) PROVE Inv'
  <2>1. at' \in [Thread -> Place] /\ \A t \in Thread : SameKind(t)
    BY <1>3, <1>t DEF CallWait, SameKind, Place
  <2>2. UNCHANGED <<queue, counters, batch, ok, added, verdict, interrupts>> /\ asked' = e /\ stopping' = stopping
    BY <1>3 DEF CallWait
  <2> QED BY <1>t, <2>1, <2>2, MoveStep
<1>4. ASSUME NEW t \in Thread, Enter(t) PROVE Inv'
  BY <1>4, EnterStep
<1>5. ASSUME NEW t \in Thread, Resume(t) PROVE Inv'
  BY <1>5, ResumeStep
<1>6. ASSUME NEW t \in Thread, Work(t) PROVE Inv'
  BY <1>6, WorkStep
<1>7. ASSUME NEW t \in Thread, Merge(t) PROVE Inv'
  BY <1>7, MergeStep
<1>8. ASSUME NEW t \in Thread, Spurious(t) PROVE Inv'
  <2>1. at' \in [Thread -> Place] /\ \A u \in Thread : SameKind(u)
    BY <1>8, <1>t DEF Spurious, SameKind, Place
  <2>2. /\ UNCHANGED <<queue, counters, batch, ok, added, verdict, interrupts>>
        /\ asked' = asked /\ stopping' = stopping
    BY <1>8 DEF Spurious, block
  <2> QED BY <1>t, <2>1, <2>2, MoveStep
<1>9. CASE InterruptWorkers
  <2>1. /\ UNCHANGED <<queue, counters, batch, ok, added, verdict, interrupts>>
        /\ at' = at /\ asked' = asked /\ stopping' = TRUE
    BY <1>9 DEF InterruptWorkers, block
  <2> QED BY <1>t, <2>1, MoveStep DEF SameKind
<1>10. ASSUME NEW w \in Worker, WorkerEnds(w) PROVE Inv'
  BY <1>10, WorkerEndsStep
<1>11. CASE MasterInterrupted
  BY <1>11, InterruptedStep
<1>12. CASE UNCHANGED vars
  <2>1. /\ UNCHANGED <<queue, counters, batch, ok, added, verdict, interrupts>>
        /\ at' = at /\ asked' = asked /\ stopping' = stopping
    BY <1>12 DEF vars, block
  <2> QED BY <1>t, <2>1, MoveStep DEF SameKind
<1> QED BY <1>1, <1>2, <1>3, <1>4, <1>5, <1>6, <1>7, <1>8, <1>9, <1>10, <1>11, <1>12 DEF Next

LEMMA InvHolds == Spec => []Inv
BY InitInv, NextInv, PTL DEF Spec

(* Every variable of the check queue keeps its type; in particular nTodo,  *)
(* which the code keeps in an unsigned int, never goes below zero.         *)
THEOREM QueueTyped == Spec => []TypeOK
<1>1. Inv => TypeOK
  BY DEF Inv
<1> QED BY <1>1, InvHolds, PTL

(* nTodo, nTotal and nIdle count what their comments say, for any number   *)
(* of threads and any interleaving of their critical sections.             *)
THEOREM CountersAlwaysExact == Spec => []CountersExact
<1>1. Inv => CountersExact
  BY DEF Inv
<1> QED BY <1>1, InvHolds, PTL

(* assert(isIdle) of CCheckQueueControl never fails: between two blocks no *)
(* check is outstanding and every thread that is counted is asleep or      *)
(* gone.                                                                   *)
THEOREM AlwaysStartsIdle == Spec => []StartsIdle
<1>1. Inv => StartsIdle
  <2> SUFFICES ASSUME Inv, at[Master] = "out" PROVE IsIdle
    BY DEF StartsIdle
  <2>1. Outstanding = {} /\ fAllOk
    BY DEF Inv, Done
  <2>2. nTodo = 0
    BY <2>1, FS_EmptySet DEF Inv, CountersExact
  <2>3. \A t \in Thread : batch[t] = {}
    BY <2>1 DEF Outstanding
  <2>4. Entered = Asleep
    BY <2>3 DEF Inv, Placed, Entered, Asleep
  <2>5. nTotal = nIdle
    BY <2>4 DEF Inv, CountersExact
  <2> QED BY <2>1, <2>2, <2>5 DEF IsIdle
<1> QED BY <1>1, InvHolds, PTL

(* ConnectBlock is told exactly whether all script checks of this block    *)
(* succeed.                                                                *)
THEOREM VerdictAlwaysExact == Spec => []VerdictExact
<1>1. Inv => VerdictExact
  BY DEF Inv
<1> QED BY <1>1, InvHolds, PTL

-----------------------------------------------------------------------------
(* The coin views.  One entry: each operation keeps an entry well formed   *)
(* and truthful.                                                           *)

Maybe == Entry \cup {NoEntry}

(* NoEntry is told from every entry. *)
LEMMA EntryNotNone == \A e \in Entry : e # NoEntry
  BY NoEntryAssumption

(* FetchCoin gives an entry, truthful about what the view below answered.  *)
LEMMA FetchFacts ==
  ASSUME NEW e \in Maybe, NEW v \in Value, NEW below \in Value \cup {NoEntry},
         below # NoEntry => below = v, below = NoEntry => v = Spent,
         Truthful(e, v)
  PROVE  /\ FetchCoin(e, below) \in Maybe
         /\ Truthful(FetchCoin(e, below), v)
         /\ e # NoEntry => FetchCoin(e, below) = e
         /\ FetchCoin(e, below) # NoEntry /\ e = NoEntry => FetchCoin(e, below).coin = v
         /\ FetchCoin(e, below) = NoEntry => v = Spent
  BY EntryNotNone DEF FetchCoin, Maybe, Truthful, Entry, Value

(* AddCoin over a spent coin gives a truthful entry. *)
LEMMA AddFacts ==
  ASSUME NEW e \in Maybe, NEW v \in Value, NEW c \in Coin, Truthful(e, v),
         (IF e = NoEntry THEN v ELSE e.coin) = Spent
  PROVE  /\ AddCoin(e, c) \in Entry
         /\ Truthful(AddCoin(e, c), v)
         /\ AddCoin(e, c).coin = c
  BY EntryNotNone DEF AddCoin, Maybe, Truthful, Entry, Value

(* SpendCoin leaves no coin, in the entry or below it. *)
LEMMA SpendFacts ==
  ASSUME NEW e \in Maybe, NEW v \in Value, Truthful(e, v), e = NoEntry => v = Spent
  PROVE  /\ SpendCoin(e) \in Maybe
         /\ Truthful(SpendCoin(e), v)
         /\ (IF SpendCoin(e) = NoEntry THEN v ELSE SpendCoin(e).coin) = Spent
  BY EntryNotNone DEF SpendCoin, Maybe, Truthful, Entry, Value

(* BatchWrite makes the parent read like the child did. *)
LEMMA WriteFacts ==
  ASSUME NEW e \in Maybe, NEW p \in Maybe, NEW v \in Value, Truthful(p, v),
         Truthful(e, IF p = NoEntry THEN v ELSE p.coin)
  PROVE  /\ BatchWrite(e, p) \in Maybe
         /\ Truthful(BatchWrite(e, p), v)
         /\ (IF BatchWrite(e, p) = NoEntry THEN v ELSE BatchWrite(e, p).coin)
            = (IF e = NoEntry THEN IF p = NoEntry THEN v ELSE p.coin ELSE e.coin)
<1>1. CASE e = NoEntry
  BY <1>1 DEF BatchWrite
<1>2. CASE e # NoEntry /\ ~e.dirty
  BY <1>2 DEF BatchWrite, Truthful
<1>3. CASE e # NoEntry /\ e.dirty /\ p = NoEntry
  <2>1. e \in Entry
    BY <1>3 DEF Maybe
  <2>2. CASE e.fresh /\ e.coin = Spent
    BY <1>3, <2>2 DEF BatchWrite, Maybe, Truthful
  <2>3. CASE ~(e.fresh /\ e.coin = Spent)
    <3> DEFINE w == [coin |-> e.coin, dirty |-> TRUE, fresh |-> e.fresh]
    <3>1. BatchWrite(e, p) = w
      BY <1>3, <2>3 DEF BatchWrite
    <3>2. w \in Entry /\ w # NoEntry
      BY <2>1, EntryNotNone DEF Entry
    <3>3. Truthful(w, v)
      BY <1>3 DEF Truthful
    <3> QED
      BY SMT, <1>3, <3>1, <3>2, <3>3 DEF Maybe
  <2> QED
    BY <2>2, <2>3
<1>4. CASE e # NoEntry /\ e.dirty /\ p # NoEntry
  <2>1. e \in Entry /\ p \in Entry
    BY <1>4 DEF Maybe
  <2>2. CASE p.fresh /\ e.coin = Spent
    BY <1>4, <2>2 DEF BatchWrite, Maybe, Truthful
  <2>3. CASE ~(p.fresh /\ e.coin = Spent)
    BY <1>4, <2>1, <2>3, EntryNotNone DEF BatchWrite, Maybe, Truthful, Entry
  <2> QED
    BY <2>2, <2>3
<1> QED
  BY <1>1, <1>2, <1>3, <1>4

(* What pcoinsTip writes to the database is what it answered. *)
LEMMA StoredFacts ==
  ASSUME NEW e \in Maybe, NEW v \in Value, Truthful(e, v)
  PROVE  /\ Stored(e, v) \in Value
         /\ Stored(e, v) = (IF e = NoEntry THEN v ELSE e.coin)
  BY EntryNotNone DEF Stored, Maybe, Truthful, Entry, Value

-----------------------------------------------------------------------------
(* The inductive invariant: type correctness and truthful flags.           *)

CoinsInv == CoinsTypeOK /\ FlagsTruthful

(* What the invariant says of one outpoint. *)
LEMMA AtOutpoint ==
  ASSUME CoinsInv, NEW o \in Outpoint
  PROVE  /\ db[o] \in Value /\ tip[o] \in Maybe /\ view[o] \in Maybe
         /\ Truthful(tip[o], db[o]) /\ Truthful(view[o], TipCoin(o))
         /\ TipCoin(o) \in Value /\ ViewCoin(o) \in Value
  BY DEF CoinsInv, CoinsTypeOK, FlagsTruthful, Cache, Maybe, TipCoin, ViewCoin, Entry

(* A look-up in pcoinsTip. *)
LEMMA TipFetchedFacts ==
  ASSUME CoinsInv, NEW o \in Outpoint
  PROVE  /\ TipFetched(o) \in Maybe
         /\ Truthful(TipFetched(o), db[o])
         /\ (IF TipFetched(o) = NoEntry THEN db[o] ELSE TipFetched(o).coin) = TipCoin(o)
         /\ TipFetched(o) = NoEntry => TipCoin(o) = Spent
<1> DEFINE below == IF db[o] = Spent THEN NoEntry ELSE db[o]
<1>1. /\ tip[o] \in Maybe /\ db[o] \in Value /\ Truthful(tip[o], db[o])
  BY AtOutpoint
<1>2. /\ below \in Value \cup {NoEntry}
      /\ below # NoEntry => below = db[o]
      /\ below = NoEntry => db[o] = Spent
  BY <1>1, NoEntryAssumption
<1>3. TipFetched(o) = FetchCoin(tip[o], below)
  BY DEF TipFetched
<1> HIDE DEF below
<1>4. /\ TipFetched(o) \in Maybe
      /\ Truthful(TipFetched(o), db[o])
      /\ tip[o] # NoEntry => TipFetched(o) = tip[o]
      /\ TipFetched(o) # NoEntry /\ tip[o] = NoEntry => TipFetched(o).coin = db[o]
      /\ TipFetched(o) = NoEntry => db[o] = Spent
  BY SMT, <1>1, <1>2, <1>3, FetchFacts
<1> QED
  BY <1>4 DEF TipCoin

(* A look-up in the scratch view. *)
LEMMA ViewFetchedFacts ==
  ASSUME CoinsInv, NEW o \in Outpoint
  PROVE  /\ ViewFetched(o) \in Maybe
         /\ Truthful(ViewFetched(o), TipCoin(o))
         /\ (IF ViewFetched(o) = NoEntry THEN TipCoin(o) ELSE ViewFetched(o).coin) = ViewCoin(o)
         /\ ViewFetched(o) = NoEntry => TipCoin(o) = Spent
<1> DEFINE below == IF TipFetched(o) = NoEntry THEN NoEntry ELSE TipFetched(o).coin
<1>1. /\ view[o] \in Maybe /\ TipCoin(o) \in Value /\ Truthful(view[o], TipCoin(o))
  BY AtOutpoint
<1>2. /\ below \in Value \cup {NoEntry}
      /\ below # NoEntry => below = TipCoin(o)
      /\ below = NoEntry => TipCoin(o) = Spent
  BY <1>1, TipFetchedFacts, NoEntryAssumption
<1>3. ViewFetched(o) = FetchCoin(view[o], below)
  BY DEF ViewFetched
<1> HIDE DEF below
<1>4. /\ ViewFetched(o) \in Maybe
      /\ Truthful(ViewFetched(o), TipCoin(o))
      /\ view[o] # NoEntry => ViewFetched(o) = view[o]
      /\ ViewFetched(o) # NoEntry /\ view[o] = NoEntry => ViewFetched(o).coin = TipCoin(o)
      /\ ViewFetched(o) = NoEntry => TipCoin(o) = Spent
  BY SMT, <1>1, <1>2, <1>3, FetchFacts
<1> QED
  BY <1>4 DEF ViewCoin
-----------------------------------------------------------------------------
(* The steps.  Shape and EntryOK are the two halves of the invariant: what *)
(* does not depend on an outpoint, and what is said of each one.           *)

Shape ==
  /\ db = [q \in Outpoint |-> db[q]] /\ tip = [q \in Outpoint |-> tip[q]]
  /\ view = [q \in Outpoint |-> view[q]]
  /\ dbBest \in Blocks /\ tipBest \in Blocks \cup {Null}

EntryOK(q) ==
  /\ db[q] \in Value /\ tip[q] \in Maybe /\ view[q] \in Maybe
  /\ Truthful(tip[q], db[q]) /\ Truthful(view[q], TipCoin(q))

(* The two halves make the invariant, in a state and in the next one.      *)
LEMMA InvParts == CoinsInv <=> Shape /\ \A q \in Outpoint : EntryOK(q)
  BY DEF CoinsInv, CoinsTypeOK, FlagsTruthful, Cache, Shape, EntryOK, Maybe

(* The same decomposition, of the state after a step. *)
LEMMA InvPartsNext == CoinsInv' <=> Shape' /\ \A q \in Outpoint : EntryOK(q)'
  BY DEF CoinsInv, CoinsTypeOK, FlagsTruthful, Cache, Shape, EntryOK, Maybe

(* Look-ups in pcoinsTip change nothing that can be read. *)
LEMMA AccessTipStep ==
  ASSUME CoinsInv, NEW o \in Outpoint, AccessTip(o)
  PROVE  /\ CoinsInv'
         /\ \A q \in Outpoint : TipCoin(q)' = TipCoin(q) /\ ViewCoin(q)' = ViewCoin(q)
<1>1. Shape'
  BY InvParts DEF AccessTip, Shape
<1>2. ASSUME NEW q \in Outpoint
      PROVE  EntryOK(q)' /\ TipCoin(q)' = TipCoin(q) /\ ViewCoin(q)' = ViewCoin(q)
  <2>1. db'[q] = db[q] /\ view'[q] = view[q]
    BY DEF AccessTip
  <2>2. tip'[q] = IF q = o THEN TipFetched(o) ELSE tip[q]
    BY InvParts DEF AccessTip, Shape
  <2>3. TipCoin(q)' = TipCoin(q)
    BY <2>1, <2>2, TipFetchedFacts DEF TipCoin
  <2>4. tip'[q] \in Maybe /\ Truthful(tip'[q], db'[q])
    BY <2>1, <2>2, TipFetchedFacts, AtOutpoint
  <2> QED
    BY <2>1, <2>3, <2>4, AtOutpoint DEF EntryOK, ViewCoin
<1> QED
  BY <1>1, <1>2, InvPartsNext

(* pcoinsTip as a look-up in the scratch view leaves it. *)
LEMMA TouchedFacts ==
  ASSUME CoinsInv, NEW o \in Outpoint, tip' = TipTouched(o), UNCHANGED db, NEW q \in Outpoint
  PROVE  /\ tip' = [p \in Outpoint |-> tip'[p]]
         /\ tip'[q] \in Maybe /\ Truthful(tip'[q], db'[q]) /\ TipCoin(q)' = TipCoin(q)
<1>1. CASE view[o] # NoEntry
  BY <1>1, InvParts, AtOutpoint DEF TipTouched, Shape, TipCoin
<1>2. CASE view[o] = NoEntry
  <2>1. tip' = [tip EXCEPT ![o] = TipFetched(o)]
    BY <1>2 DEF TipTouched
  <2>2. tip'[q] = (IF q = o THEN TipFetched(o) ELSE tip[q]) /\ tip' = [p \in Outpoint |-> tip'[p]]
    BY <2>1, InvParts DEF Shape
  <2> QED
    BY <2>2, TipFetchedFacts, AtOutpoint DEF TipCoin
<1> QED
  BY <1>1, <1>2

(* Look-ups in the scratch view change nothing that can be read. *)
LEMMA AccessViewStep ==
  ASSUME CoinsInv, NEW o \in Outpoint, AccessView(o)
  PROVE  /\ CoinsInv'
         /\ \A q \in Outpoint : TipCoin(q)' = TipCoin(q) /\ ViewCoin(q)' = ViewCoin(q)
<1>1. ASSUME NEW q \in Outpoint
      PROVE  EntryOK(q)' /\ TipCoin(q)' = TipCoin(q) /\ ViewCoin(q)' = ViewCoin(q)
  <2>1. db'[q] = db[q] /\ view'[q] = IF q = o THEN ViewFetched(o) ELSE view[q]
    BY InvParts DEF AccessView, Shape
  <2>2. tip'[q] \in Maybe /\ Truthful(tip'[q], db'[q]) /\ TipCoin(q)' = TipCoin(q)
    BY TouchedFacts DEF AccessView
  <2>3. view'[q] \in Maybe /\ Truthful(view'[q], TipCoin(q)) /\ ViewCoin(q)' = ViewCoin(q)
    BY <2>1, <2>2, ViewFetchedFacts, AtOutpoint DEF ViewCoin
  <2> QED
    BY <2>1, <2>2, <2>3, AtOutpoint DEF EntryOK
<1>2. Shape'
  BY InvParts, TouchedFacts DEF AccessView, Shape
<1> QED
  BY <1>1, <1>2, InvPartsNext

(* Adding a coin changes that coin in the scratch view only. *)
LEMMA AddNewStep ==
  ASSUME CoinsInv, NEW o \in Outpoint, NEW c \in Coin, AddNew(o, c)
  PROVE  /\ CoinsInv'
         /\ \A q \in Outpoint : /\ TipCoin(q)' = TipCoin(q)
                                /\ ViewCoin(q)' = IF q = o THEN c ELSE ViewCoin(q)
<1>1. Shape'
  BY InvParts DEF AddNew, Shape
<1>2. ASSUME NEW q \in Outpoint
      PROVE  /\ EntryOK(q)' /\ TipCoin(q)' = TipCoin(q)
             /\ ViewCoin(q)' = IF q = o THEN c ELSE ViewCoin(q)
  <2>1. db'[q] = db[q] /\ tip'[q] = tip[q] /\ TipCoin(q)' = TipCoin(q)
    BY DEF AddNew, TipCoin
  <2>2. view'[q] = IF q = o THEN AddCoin(view[o], c) ELSE view[q]
    BY InvParts DEF AddNew, Shape
  <2>3. /\ AddCoin(view[o], c) \in Entry /\ AddCoin(view[o], c).coin = c
        /\ Truthful(AddCoin(view[o], c), TipCoin(o))
    BY AtOutpoint, AddFacts DEF AddNew, ViewCoin
  <2>4. /\ view'[q] \in Maybe /\ Truthful(view'[q], TipCoin(q))
        /\ ViewCoin(q)' = IF q = o THEN c ELSE ViewCoin(q)
    BY <2>1, <2>2, <2>3, AtOutpoint, EntryNotNone DEF ViewCoin, Maybe
  <2> QED
    BY <2>1, <2>4, AtOutpoint DEF EntryOK
<1> QED
  BY <1>1, <1>2, InvPartsNext

(* So does putting a coin back. *)
LEMMA RestoreStep ==
  ASSUME CoinsInv, NEW o \in Outpoint, NEW c \in Coin, Restore(o, c)
  PROVE  /\ CoinsInv'
         /\ \A q \in Outpoint : /\ TipCoin(q)' = TipCoin(q)
                                /\ ViewCoin(q)' = IF q = o THEN c ELSE ViewCoin(q)
<1>1. ASSUME NEW q \in Outpoint
      PROVE  /\ EntryOK(q)' /\ TipCoin(q)' = TipCoin(q)
             /\ ViewCoin(q)' = IF q = o THEN c ELSE ViewCoin(q)
  <2>1. db'[q] = db[q] /\ view'[q] = IF q = o THEN AddCoin(ViewFetched(o), c) ELSE view[q]
    BY InvParts DEF Restore, Shape
  <2>2. tip'[q] \in Maybe /\ Truthful(tip'[q], db'[q]) /\ TipCoin(q)' = TipCoin(q)
    BY TouchedFacts DEF Restore
  <2>3. /\ AddCoin(ViewFetched(o), c) \in Entry /\ AddCoin(ViewFetched(o), c).coin = c
        /\ Truthful(AddCoin(ViewFetched(o), c), TipCoin(o))
    BY ViewFetchedFacts, AtOutpoint, AddFacts DEF Restore
  <2>4. /\ view'[q] \in Maybe /\ Truthful(view'[q], TipCoin(q))
        /\ ViewCoin(q)' = IF q = o THEN c ELSE ViewCoin(q)
    BY <2>1, <2>2, <2>3, AtOutpoint, EntryNotNone DEF ViewCoin, Maybe
  <2> QED
    BY <2>1, <2>2, <2>4, AtOutpoint DEF EntryOK
<1>2. Shape'
  BY InvParts, TouchedFacts DEF Restore, Shape
<1> QED
  BY <1>1, <1>2, InvPartsNext

(* Spending a coin changes that coin in the scratch view only. *)
LEMMA SpendStep ==
  ASSUME CoinsInv, NEW o \in Outpoint, Spend(o)
  PROVE  /\ CoinsInv'
         /\ \A q \in Outpoint : /\ TipCoin(q)' = TipCoin(q)
                                /\ ViewCoin(q)' = IF q = o THEN Spent ELSE ViewCoin(q)
<1>1. ASSUME NEW q \in Outpoint
      PROVE  /\ EntryOK(q)' /\ TipCoin(q)' = TipCoin(q)
             /\ ViewCoin(q)' = IF q = o THEN Spent ELSE ViewCoin(q)
  <2>1. db'[q] = db[q] /\ view'[q] = IF q = o THEN SpendCoin(ViewFetched(o)) ELSE view[q]
    BY InvParts DEF Spend, Shape
  <2>2. tip'[q] \in Maybe /\ Truthful(tip'[q], db'[q]) /\ TipCoin(q)' = TipCoin(q)
    BY TouchedFacts DEF Spend
  <2>3. /\ SpendCoin(ViewFetched(o)) \in Maybe
        /\ Truthful(SpendCoin(ViewFetched(o)), TipCoin(o))
        /\ (IF SpendCoin(ViewFetched(o)) = NoEntry THEN TipCoin(o)
            ELSE SpendCoin(ViewFetched(o)).coin) = Spent
    BY ViewFetchedFacts, AtOutpoint, SpendFacts
  <2>4. /\ view'[q] \in Maybe /\ Truthful(view'[q], TipCoin(q))
        /\ ViewCoin(q)' = IF q = o THEN Spent ELSE ViewCoin(q)
    BY <2>1, <2>2, <2>3, AtOutpoint DEF ViewCoin
  <2> QED
    BY <2>1, <2>2, <2>4, AtOutpoint DEF EntryOK
<1>2. Shape'
  BY InvParts, TouchedFacts DEF Spend, Shape
<1> QED
  BY <1>1, <1>2, InvPartsNext

(* Flushing the scratch view makes pcoinsTip answer like it. *)
LEMMA FlushStep ==
  ASSUME CoinsInv, NEW b \in Blocks, Flush(b)
  PROVE  /\ CoinsInv'
         /\ \A q \in Outpoint : TipCoin(q)' = ViewCoin(q) /\ ViewCoin(q)' = ViewCoin(q)
<1>1. Shape'
  BY InvParts DEF Flush, Shape, NoEntries
<1>2. ASSUME NEW q \in Outpoint
      PROVE  EntryOK(q)' /\ TipCoin(q)' = ViewCoin(q) /\ ViewCoin(q)' = ViewCoin(q)
  <2>1. db'[q] = db[q] /\ tip'[q] = BatchWrite(view[q], tip[q]) /\ view'[q] = NoEntry
    BY DEF Flush, NoEntries
  <2>2. /\ tip'[q] \in Maybe /\ Truthful(tip'[q], db[q])
        /\ (IF tip'[q] = NoEntry THEN db[q] ELSE tip'[q].coin) = ViewCoin(q)
    BY SMT, <2>1, AtOutpoint, WriteFacts DEF TipCoin, ViewCoin
  <2>3. TipCoin(q)' = ViewCoin(q) /\ ViewCoin(q)' = ViewCoin(q)
    BY <2>1, <2>2 DEF TipCoin, ViewCoin
  <2> QED
    BY <2>1, <2>2, <2>3, AtOutpoint DEF EntryOK, Maybe, Truthful
<1> QED
  BY <1>1, <1>2, InvPartsNext

(* Dropping the scratch view makes it answer like pcoinsTip. *)
LEMMA DiscardStep ==
  ASSUME CoinsInv, Discard
  PROVE  /\ CoinsInv'
         /\ \A q \in Outpoint : TipCoin(q)' = TipCoin(q) /\ ViewCoin(q)' = TipCoin(q)
<1>1. Shape'
  BY InvParts DEF Discard, Shape, NoEntries
<1>2. ASSUME NEW q \in Outpoint
      PROVE  EntryOK(q)' /\ TipCoin(q)' = TipCoin(q) /\ ViewCoin(q)' = TipCoin(q)
  <2>1. db'[q] = db[q] /\ tip'[q] = tip[q] /\ view'[q] = NoEntry
    BY DEF Discard, NoEntries
  <2> QED
    BY <2>1, AtOutpoint DEF EntryOK, Maybe, Truthful, TipCoin, ViewCoin
<1> QED
  BY <1>1, <1>2, InvPartsNext

(* An entry without flags can be forgotten. *)
LEMMA UncacheStep ==
  ASSUME CoinsInv, NEW o \in Outpoint, Uncache(o)
  PROVE  /\ CoinsInv'
         /\ \A q \in Outpoint : TipCoin(q)' = TipCoin(q) /\ ViewCoin(q)' = ViewCoin(q)
<1>1. Shape'
  BY InvParts DEF Uncache, Shape
<1>2. ASSUME NEW q \in Outpoint
      PROVE  EntryOK(q)' /\ TipCoin(q)' = TipCoin(q) /\ ViewCoin(q)' = ViewCoin(q)
  <2>1. /\ db'[q] = db[q] /\ view'[q] = view[q]
        /\ tip'[q] = IF q = o THEN NoEntry ELSE tip[q]
    BY InvParts DEF Uncache, Shape
  <2>2. TipCoin(q)' = TipCoin(q)
    BY SMT, <2>1, AtOutpoint DEF Uncache, Unflagged, Truthful, TipCoin
  <2>3. tip'[q] \in Maybe /\ Truthful(tip'[q], db[q])
    BY <2>1, AtOutpoint DEF Maybe, Truthful
  <2> QED
    BY <2>1, <2>2, <2>3, AtOutpoint DEF EntryOK, ViewCoin
<1> QED
  BY <1>1, <1>2, InvPartsNext

(* Flushing pcoinsTip makes the database answer like it. *)
LEMMA FlushTipStep ==
  ASSUME CoinsInv, FlushTip
  PROVE  /\ CoinsInv'
         /\ \A q \in Outpoint : /\ TipCoin(q)' = TipCoin(q) /\ ViewCoin(q)' = ViewCoin(q)
                                /\ db'[q] = TipCoin(q)
<1>1. Shape'
  BY InvParts DEF FlushTip, Shape, NoEntries, Best
<1>2. ASSUME NEW q \in Outpoint
      PROVE  /\ EntryOK(q)' /\ TipCoin(q)' = TipCoin(q) /\ ViewCoin(q)' = ViewCoin(q)
             /\ db'[q] = TipCoin(q)
  <2>1. db'[q] = Stored(tip[q], db[q]) /\ view'[q] = view[q] /\ tip'[q] = NoEntry
    BY DEF FlushTip, NoEntries
  <2>2. db'[q] \in Value /\ db'[q] = TipCoin(q)
    BY <2>1, AtOutpoint, StoredFacts DEF TipCoin
  <2>3. TipCoin(q)' = TipCoin(q)
    BY <2>1, <2>2 DEF TipCoin
  <2> QED
    BY <2>1, <2>2, <2>3, AtOutpoint DEF EntryOK, Maybe, Truthful, ViewCoin
<1> QED
  BY <1>1, <1>2, InvPartsNext

(* After a crash every view answers like the database. *)
LEMMA CrashStep ==
  ASSUME CoinsInv, Crash
  PROVE  /\ CoinsInv'
         /\ \A q \in Outpoint : TipCoin(q)' = db[q] /\ ViewCoin(q)' = db[q]
<1>1. Shape'
  BY InvParts DEF Crash, Shape, NoEntries
<1>2. ASSUME NEW q \in Outpoint
      PROVE  EntryOK(q)' /\ TipCoin(q)' = db[q] /\ ViewCoin(q)' = db[q]
  <2>1. db'[q] = db[q] /\ view'[q] = NoEntry /\ tip'[q] = NoEntry
    BY DEF Crash, NoEntries
  <2> QED
    BY <2>1, AtOutpoint DEF EntryOK, Maybe, Truthful, TipCoin, ViewCoin
<1> QED
  BY <1>1, <1>2, InvPartsNext

-----------------------------------------------------------------------------
(* The theorems *)

(* The invariant holds at the start, and every step keeps it. *)
LEMMA InvInit == CoinsInit => CoinsInv
  BY CoinsAssumption
  DEF CoinsInit, CoinsInv, CoinsTypeOK, FlagsTruthful, Cache, NoEntries, Truthful, Value

(* Every step, and every stutter, keeps the invariant. *)
LEMMA InvNext == CoinsInv /\ [CoinsNext]_coinVars => CoinsInv'
<1> SUFFICES ASSUME CoinsInv, [CoinsNext]_coinVars PROVE CoinsInv'
  OBVIOUS
<1>1. CASE UNCHANGED coinVars
  BY <1>1 DEF coinVars, CoinsInv, CoinsTypeOK, FlagsTruthful, TipCoin
<1>2. CASE CoinsNext
  BY <1>2, AccessTipStep, AccessViewStep, AddNewStep, RestoreStep, SpendStep, FlushStep,
     DiscardStep, UncacheStep, FlushTipStep, CrashStep DEF CoinsNext
<1> QED
  BY <1>1, <1>2

(* Every variable has its type, for any outpoints, coins and blocks. *)
THEOREM CoinsTyped == CoinsSpec => []CoinsTypeOK
<1>1. CoinsInv => CoinsTypeOK
  BY DEF CoinsInv
<1> QED
  BY <1>1, InvInit, InvNext, PTL DEF CoinsSpec

(* CCoinsCacheEntry::Flags: the flags of every entry are truthful, however *)
(* look-ups, edits, flushes, uncaching and crashes are interleaved.        *)
THEOREM FlagsAlwaysTruthful == CoinsSpec => []FlagsTruthful
<1>1. CoinsInv => FlagsTruthful
  BY DEF CoinsInv
<1> QED
  BY <1>1, InvInit, InvNext, PTL DEF CoinsSpec

(* CCoinsViewCache::BatchWrite never finds a FRESH entry over a spendable  *)
(* one: its exception cannot be thrown.                                    *)
THEOREM FreshNeverMisapplied == CoinsSpec => []NeverMisapplied
<1>1. CoinsInv => NeverMisapplied
  BY DEF CoinsInv, FlagsTruthful, NeverMisapplied, Misapplied, Truthful, TipCoin
<1> QED
  BY <1>1, InvInit, InvNext, PTL DEF CoinsSpec

(* AddCoin, SpendCoin and ApplyTxInUndo: an edit has exactly its effect.   *)
THEOREM EditsAlwaysExact == CoinsSpec => EditsExact
<1> DEFINE Exact == \A o \in Outpoint :
                      /\ Spend(o) => Edited(o, Spent)
                      /\ \A c \in Coin : AddNew(o, c) \/ Restore(o, c) => Edited(o, c)
<1>1. CoinsInv /\ [CoinsNext]_coinVars => [Exact]_coinVars
  BY AddNewStep, RestoreStep, SpendStep DEF Edited
<1> QED
  BY <1>1, InvInit, InvNext, PTL DEF CoinsSpec, EditsExact

(* The stack of caches implements the plain map of coins: initial states   *)
(* map to initial states and every step to a step of the map or a stutter. *)
THEOREM CachesImplementMap == CoinsSpec => ImplementsMap
<1>1. CoinsInit => Map!MapInit
  BY DEF CoinsInit, Map!MapInit, ViewCoin, TipCoin, NoEntries, Best
<1>2. CoinsInv /\ [CoinsNext]_coinVars => [Map!MapNext]_(Map!mapVars)
  <2> SUFFICES ASSUME CoinsInv, [CoinsNext]_coinVars PROVE [Map!MapNext]_(Map!mapVars)
    OBVIOUS
  <2> DEFINE coins == [o \in Outpoint |-> ViewCoin(o)]
             below == [o \in Outpoint |-> TipCoin(o)]
  <2>1. CASE UNCHANGED coinVars
    BY <2>1 DEF coinVars, Map!mapVars, ViewCoin, TipCoin, Best
  <2>2. ASSUME NEW o \in Outpoint, AccessTip(o) \/ AccessView(o) \/ Uncache(o)
        PROVE  UNCHANGED Map!mapVars
    <3>1. coins' = coins /\ below' = below
      BY <2>2, AccessTipStep, AccessViewStep, UncacheStep
    <3>2. UNCHANGED <<db, dbBest, tipBest>>
      BY <2>2 DEF AccessTip, AccessView, Uncache
    <3> QED
      BY <3>1, <3>2 DEF Map!mapVars, Best
  <2>3. ASSUME NEW o \in Outpoint, NEW c \in Coin, AddNew(o, c) \/ Restore(o, c)
        PROVE  Map!Put(o, c)
    <3>1. coins' = [coins EXCEPT ![o] = c] /\ below' = below
      BY <2>3, AddNewStep, RestoreStep
    <3>2. UNCHANGED <<db, dbBest, tipBest>>
      BY <2>3 DEF AddNew, Restore
    <3> QED
      BY <3>1, <3>2 DEF Map!Put, Best
  <2>4. ASSUME NEW o \in Outpoint, Spend(o)
        PROVE  Map!Put(o, Spent)
    <3>1. coins' = [coins EXCEPT ![o] = Spent] /\ below' = below
      BY <2>4, SpendStep
    <3>2. UNCHANGED <<db, dbBest, tipBest>>
      BY <2>4 DEF Spend
    <3> QED
      BY <3>1, <3>2 DEF Map!Put, Best
  <2>5. ASSUME NEW b \in Blocks, Flush(b)
        PROVE  Map!Commit(b)
    <3>1. coins' = coins /\ below' = coins
      BY <2>5, FlushStep
    <3>2. UNCHANGED <<db, dbBest>> /\ Best' = b
      BY <2>5, CoinsAssumption DEF Flush, Best
    <3> QED
      BY <3>1, <3>2 DEF Map!Commit
  <2>6. CASE Discard
    <3>1. coins' = below /\ below' = below
      BY <2>6, DiscardStep
    <3>2. UNCHANGED <<db, dbBest, tipBest>>
      BY <2>6 DEF Discard
    <3>3. Map!Drop
      BY <3>1, <3>2 DEF Map!Drop, Best
    <3> QED
      BY <3>3 DEF Map!MapNext
  <2>7. CASE FlushTip
    <3>1. coins' = coins /\ below' = below /\ db' = below
      BY <2>7, FlushTipStep, InvParts, InvPartsNext DEF Shape
    <3>2. dbBest' = Best /\ Best' = Best
      BY <2>7 DEF FlushTip, Best
    <3>3. Map!Persist
      BY <3>1, <3>2 DEF Map!Persist
    <3> QED
      BY <3>3 DEF Map!MapNext
  <2>8. CASE Crash
    <3>1. coins' = db /\ below' = db
      BY <2>8, CrashStep, InvParts DEF Shape
    <3>2. UNCHANGED <<db, dbBest>> /\ Best' = dbBest
      BY <2>8 DEF Crash, Best
    <3>3. Map!Crash
      BY <3>1, <3>2 DEF Map!Crash
    <3> QED
      BY <3>3 DEF Map!MapNext
  <2> QED
    BY <2>1, <2>2, <2>3, <2>4, <2>5, <2>6, <2>7, <2>8 DEF CoinsNext, Map!MapNext
<1> QED
  BY <1>1, <1>2, InvInit, InvNext, PTL DEF CoinsSpec, ImplementsMap, Map!MapSpec
=============================================================================
