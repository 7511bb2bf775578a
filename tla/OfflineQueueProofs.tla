------------------------- MODULE OfflineQueueProofs -------------------------
(***************************************************************************)
(* For any number of tasks, saves, reads, faults and rival saves: no save  *)
(* that returned Ok is lost, and the node executes a save more than once   *)
(* only for answers the client never saw.                                  *)
(***************************************************************************)
EXTENDS OfflineQueue, SequenceTheorems, TLAPS

(* Where a save that was answered Ok, or a value the cache shows, can be. *)
Kept == Ran \cup Range(queue) \cup refused

(* What a task holds agrees with where it is: a drain carries the front of *)
(* the queue, and a command its own save.                                  *)
TaskAgrees(k) ==
    /\ k.at = "idle" => k = IdleTask
    /\ k.at = "drain" =>
           draining /\ queue # <<>> /\ k.value = Head(queue) /\ k.wire # "none"
    /\ k.at = "command" => k.wire # "none" /\ (k.save # None => k.value = k.save)
    /\ k.at = "command" /\ k.save = None =>
           k.wire # "refused" /\ (k.wire = "sent" => k.value = None)
    /\ k.at = "mirror" =>
           k.wire = "none" /\ k.value \in Kept /\ (k.save # None => k.value = k.save)
    /\ k.wire = "done" => k.value \in {None} \cup Ran
    /\ k.wire = "refused" => k.value \in refused

(* One task drains at a time. *)
OneDrain ==
    \A t, u \in Tasks : task[t].at = "drain" /\ task[u].at = "drain" => t = u

Survival ==
    /\ \A t \in Tasks : TaskAgrees(task[t])
    /\ OneDrain
    /\ AckedSavesSurvive

-----------------------------------------------------------------------------
Distinct(q) == \A i, j \in 1 .. Len(q) : q[i] = q[j] => i = j

(* A task on its way to its own save's first answer. *)
Busy(k) == k.at \in {"drain", "command"} /\ k.save # None

(* A save is with one task or in one place of the queue. *)
OnePlace ==
    /\ Distinct(queue)
    /\ \A n \in Range(queue) : n < next
    /\ \A t \in Tasks : Busy(task[t]) => task[t].save < next /\ task[t].save \notin Range(queue)
    /\ \A t, u \in Tasks :
           Busy(task[t]) /\ Busy(task[u]) /\ task[t].save = task[u].save => t = u

(* The node may yet execute the save n at the client's request. *)
ByTask(n) ==
    \E t \in Tasks : /\ Busy(task[t]) /\ task[t].save = n
                     /\ task[t].at = "drain" \/ task[t].wire # "done"
ByDrain(n) ==
    /\ n \in Range(queue)
    /\ \A t \in Tasks : task[t].at = "drain" /\ task[t].value = n => task[t].wire # "done"
Open(n) == next <= n \/ ByTask(n) \/ ByDrain(n)

One(b) == IF b THEN 1 ELSE 0

(* Executions so far and to come are paid for by answers that were lost. *)
Budget == \A n \in Saves : executed[n] + One(n \in orphans) + One(Open(n)) <= 1 + lost[n]

QueueInv == QueueTypeOK /\ Survival /\ OnePlace /\ Budget

-----------------------------------------------------------------------------
(* What pushing to and popping from a queue do to the set of its elements. *)
LEMMA QueueElements ==
    ASSUME NEW S, NEW q \in Seq(S), NEW e \in S
    PROVE  /\ Append(q, e) \in Seq(S) /\ Append(q, e) # <<>>
           /\ Range(Append(q, e)) = Range(q) \cup {e}
           /\ q # <<>> => /\ Head(Append(q, e)) = Head(q)
                         /\ Head(q) \in S /\ Tail(q) \in Seq(S)
                         /\ Range(q) = {Head(q)} \cup Range(Tail(q))
           /\ Range(q) \subseteq S
<1>1. /\ Append(q, e) \in Seq(S) /\ Append(q, e) # <<>>
      /\ DOMAIN q = 1 .. Len(q) /\ DOMAIN Append(q, e) = 1 .. Len(q) + 1 /\ Len(q) \in Nat
      /\ \A i \in 1 .. Len(q) : Append(q, e)[i] = q[i]
      /\ Append(q, e)[Len(q) + 1] = e
  BY SMTT(30), AppendProperties, LenProperties
<1>2. Range(Append(q, e)) = Range(q) \cup {e}
  BY SMTT(30), <1>1 DEF Range
<1>3. Range(q) \subseteq S
  BY Zenon, RangeOfSeq
<1>4. ASSUME q # <<>>
      PROVE  /\ Head(Append(q, e)) = Head(q) /\ Head(q) \in S /\ Tail(q) \in Seq(S)
             /\ Range(q) = {Head(q)} \cup Range(Tail(q))
  <2>1. /\ Head(q) \in S /\ Tail(q) \in Seq(S) /\ Len(Tail(q)) = Len(q) - 1
        /\ \A i \in 1 .. Len(q) - 1 : Tail(q)[i] = q[i + 1]
    BY Zenon, <1>4, HeadTailProperties
  <2>2. DOMAIN Tail(q) = 1 .. Len(q) - 1 /\ Len(q) # 0
    BY Zenon, <1>4, <2>1, LenProperties, EmptySeq
  <2>3. Head(q) = q[1] /\ Head(Append(q, e)) = Head(q)
    BY SMTT(30), <1>4, HeadTailAppend
  <2>4. \A x \in Range(q) : x \in {Head(q)} \cup Range(Tail(q))
    <3> SUFFICES ASSUME NEW i \in 1 .. Len(q) PROVE q[i] \in {Head(q)} \cup Range(Tail(q))
      BY Zenon, <1>1 DEF Range
    <3>1. CASE i = 1
      BY Zenon, <3>1, <2>3
    <3>2. CASE i # 1
      <4>1. i - 1 \in 1 .. Len(q) - 1 /\ q[i] = Tail(q)[i - 1]
        BY SMTT(30), <3>2, <2>1, <1>1
      <4> QED
        BY Zenon, <4>1, <2>2 DEF Range
    <3> QED
      BY Zenon, <3>1, <3>2
  <2>5. \A i \in 1 .. Len(q) - 1 : Tail(q)[i] \in Range(q)
    BY SMTT(30), <2>1, <1>1 DEF Range
  <2>6. Head(q) \in Range(q)
    BY SMTT(30), <2>2, <2>3, <1>1 DEF Range
  <2>7. \A x \in Range(Tail(q)) : x \in Range(q)
    BY Zenon, <2>5, <2>2 DEF Range
  <2> QED
    BY Zenon, <2>1, <2>3, <2>4, <2>6, <2>7
<1> QED
  BY Zenon, <1>1, <1>2, <1>3, <1>4

(* And to elements that are all different. *)
LEMMA QueueDistinct ==
    ASSUME NEW S, NEW q \in Seq(S), NEW e \in S, Distinct(q)
    PROVE  /\ e \notin Range(q) => Distinct(Append(q, e))
           /\ q # <<>> => Distinct(Tail(q)) /\ Head(q) \notin Range(Tail(q))
<1>1. ASSUME e \notin Range(q) PROVE Distinct(Append(q, e))
  <2>1. \A i \in 1 .. Len(q) : Append(q, e)[i] = q[i] /\ q[i] # e
    BY SMTT(30), <1>1, AppendProperties, LenProperties DEF Range
  <2>2. Append(q, e)[Len(q) + 1] = e /\ Len(Append(q, e)) = Len(q) + 1 /\ Len(q) \in Nat
    BY ZenonT(30), AppendProperties, LenProperties
  <2> QED
    BY SMTT(30), <2>1, <2>2 DEF Distinct
<1>2. ASSUME q # <<>> PROVE Distinct(Tail(q)) /\ Head(q) \notin Range(Tail(q))
  <2>1. /\ Len(Tail(q)) = Len(q) - 1 /\ DOMAIN Tail(q) = 1 .. Len(q) - 1
        /\ Len(q) \in Nat /\ Len(q) # 0 /\ Head(q) = q[1]
    BY SMTT(30), <1>2, HeadTailProperties, LenProperties, EmptySeq
  <2>2. \A i \in 1 .. Len(q) - 1 : Tail(q)[i] = q[i + 1]
    BY Zenon, <1>2, <2>1, HeadTailProperties
  <2> QED
    BY SMTT(30), <2>1, <2>2 DEF Distinct, Range
<1> QED
  BY Zenon, <1>1, <1>2

-----------------------------------------------------------------------------
(* The node's execution of a value. *)
LEMMA RunAdds ==
    ASSUME QueueTypeOK, NEW v \in Saves \cup RivalValues, Run(v)
    PROVE  /\ executed' \in [Saves \cup RivalValues -> Nat]
           /\ Ran' = Ran \cup {v}
           /\ live' \in {None} \cup Ran'
           /\ executed'[v] = executed[v] + 1
           /\ \A w \in (Saves \cup RivalValues) \ {v} : executed'[w] = executed[w]
<1>1. /\ executed \in [Saves \cup RivalValues -> Nat]
      /\ executed' = [executed EXCEPT ![v] = executed[v] + 1] /\ live' = v
  BY Zenon DEF QueueTypeOK, Run
<1>2. /\ executed' \in [Saves \cup RivalValues -> Nat]
      /\ executed'[v] = executed[v] + 1
      /\ \A w \in (Saves \cup RivalValues) \ {v} : executed'[w] = executed[w]
  BY SMTT(30), <1>1
<1>3. Ran' = Ran \cup {v}
  BY SMTT(30), <1>1, <1>2 DEF Ran
<1> QED
  BY Zenon, <1>1, <1>2, <1>3

(* A save that is abandoned is a save. *)
LEMMA AbandonTypes ==
    ASSUME QueueTypeOK, Survival, NEW t \in Tasks, Abandon(t)
    PROVE  orphans' \subseteq Saves /\ lost' \in [Saves -> Nat]
<1>1. CASE UNCHANGED <<orphans, lost>>
  BY Zenon, <1>1 DEF QueueTypeOK
<1>2. CASE task[t].wire \in {"sent", "done"} /\ ~IsGet(t) /\ task[t].at # "mirror"
  <2>1. TaskAgrees(task[t]) /\ task[t].at \in {"idle", "drain", "command", "mirror"}
    BY Zenon DEF Survival, QueueTypeOK, TaskStates
  <2>2. queue # <<>> => Head(queue) \in Saves
    BY Zenon, HeadTailProperties DEF QueueTypeOK
  <2>3. task[t].save \in {None} \cup Saves
    BY Zenon DEF QueueTypeOK, TaskStates
  <2>4. task[t].value \in Saves
    BY SMTT(30), <1>2, <2>1, <2>2, <2>3 DEF TaskAgrees, IdleTask, IsGet
  <2>5. \/ orphans' = orphans \/ orphans' = orphans \cup {task[t].value}
    BY Zenon, <1>2 DEF Abandon
  <2>6. lost' = lost \/ lost' = [lost EXCEPT ![task[t].value] = lost[task[t].value] + 1]
    BY Zenon, <1>2 DEF Abandon
  <2> QED
    BY SMTT(30), <2>4, <2>5, <2>6 DEF QueueTypeOK
<1> QED
  BY Zenon, <1>1, <1>2 DEF Abandon

(* A task that does not move still agrees with the queue after a step that *)
(* takes nothing from what is kept and leaves a drain its front.           *)
LEMMA OthersAgree ==
    ASSUME Survival, NEW u \in Tasks, task'[u] = task[u],
           Ran \subseteq Ran', refused \subseteq refused', Kept \subseteq Kept',
           task[u].at = "drain" =>
               draining' /\ queue' # <<>> /\ Head(queue') = Head(queue)
    PROVE  TaskAgrees(task[u])'
  BY Zenon DEF Survival, TaskAgrees

(* The queue starts empty, with nothing acknowledged. *)
LEMMA InitSurvival == QueueInit => QueueTypeOK /\ Survival
<1> SUFFICES ASSUME QueueInit PROVE QueueTypeOK /\ Survival
  BY Zenon
<1> USE DEF QueueInit, IdleTask, None
<1>1. Ran = {}
  BY SMTT(30) DEF Ran
<1>2. QueueTypeOK
  <2>1. task \in [Tasks -> TaskStates]
    BY Zenon DEF TaskStates
  <2>2. next \in 1 .. MaxSaves + 1
    BY SMTT(30), QueueBounds
  <2> QED
    BY Zenon, <1>1, <2>1, <2>2, EmptySeq DEF QueueTypeOK
<1>3. \A t \in Tasks : task[t] = IdleTask
  BY Zenon
<1>4. Survival
  BY Zenon, <1>3 DEF Survival, TaskAgrees, OneDrain, AckedSavesSurvive
<1> QED
  BY Zenon, <1>2, <1>4

-----------------------------------------------------------------------------
(* The states a task moves to when it goes on to its own command, *)
LEMMA AfterDrainAgrees ==
    ASSUME NEW n \in {None} \cup Saves
    PROVE  /\ AfterDrain(n) \in TaskStates
           /\ AfterDrain(n).at # "drain" /\ TaskAgrees(AfterDrain(n))
           /\ TaskAgrees(AfterDrain(n))'
  BY Zenon DEF AfterDrain, TaskAgrees, Awaiting, IdleTask, TaskStates, None

(* or to the front of the queue. *)
LEMMA AwaitingDrain ==
    ASSUME NEW n \in {None} \cup Saves, NEW v \in Saves
    PROVE  /\ Awaiting("drain", n, v) \in TaskStates
           /\ draining' /\ queue' # <<>> /\ v = Head(queue') =>
                  TaskAgrees(Awaiting("drain", n, v))'
  BY Zenon DEF TaskAgrees, Awaiting, TaskStates

(* drain up to its first exchange. *)
LEMMA EnterDrainSurvives ==
    ASSUME QueueTypeOK, Survival, NEW t \in Tasks, NEW n \in {None} \cup Saves,
           task[t].at = "idle", EnterDrain(t, n),
           UNCHANGED <<queue, cache, orphans, record, gets, faults, history>>
    PROVE  /\ task' \in [Tasks -> TaskStates] /\ draining' \in BOOLEAN
           /\ Survival'
<1> USE DEF QueueTypeOK
<1>1. Kept' = Kept /\ Ran' = Ran
  BY Zenon DEF Kept, Ran, record, history
<1>2. \A u \in Tasks \ {t} : task'[u] = task[u]
  BY Zenon DEF EnterDrain
<1>3. \A u \in Tasks \ {t} : TaskAgrees(task[u])'
  BY Zenon, <1>1, <1>2, OthersAgree DEF EnterDrain, Survival, TaskAgrees, history
<1>4. AckedSavesSurvive'
  BY Zenon, <1>1 DEF Survival, AckedSavesSurvive, Kept, history
<1>5. CASE draining \/ queue = <<>>
  <2>1. task'[t] = AfterDrain(n) /\ task' \in [Tasks -> TaskStates] /\ draining' = draining
    BY Zenon, <1>5, AfterDrainAgrees DEF EnterDrain
  <2>2. TaskAgrees(task[t])'
    BY Zenon, <2>1, AfterDrainAgrees
  <2>3. OneDrain'
    BY Zenon, <1>2, <2>1, AfterDrainAgrees DEF OneDrain, Survival
  <2> QED
    BY Zenon, <1>3, <1>4, <2>1, <2>2, <2>3 DEF Survival
<1>6. CASE ~draining /\ queue # <<>>
  <2>1. Head(queue) \in Saves
    BY Zenon, <1>6, HeadTailProperties
  <2>2. /\ task'[t] = Awaiting("drain", n, Head(queue))
        /\ task' \in [Tasks -> TaskStates] /\ draining' = TRUE
    BY Zenon, <1>6, <2>1, AwaitingDrain DEF EnterDrain
  <2>3. TaskAgrees(task[t])'
    BY Zenon, <1>6, <2>1, <2>2, AwaitingDrain
  <2>4. \A u \in Tasks \ {t} : task[u].at # "drain"
    BY Zenon, <1>6 DEF Survival, TaskAgrees
  <2>5. OneDrain'
    BY Zenon, <1>2, <2>4 DEF OneDrain
  <2> QED
    BY Zenon, <1>3, <1>4, <2>2, <2>3, <2>5 DEF Survival
<1> QED
  BY Zenon, <1>5, <1>6

(* A step of one task, which begins no drain and takes nothing from what   *)
(* is kept.                                                                *)
LEMMA MoveSurvives ==
    ASSUME Survival, NEW t \in Tasks,
           \A u \in Tasks \ {t} : task'[u] = task[u],
           Ran \subseteq Ran', refused \subseteq refused', Kept \subseteq Kept',
           TaskAgrees(task[t])',
           task'[t].at = "drain" => task[t].at = "drain",
           \A u \in Tasks \ {t} : task[u].at = "drain" =>
               draining' /\ queue' # <<>> /\ Head(queue') = Head(queue),
           AckedSavesSurvive'
    PROVE  Survival'
<1>1. \A u \in Tasks \ {t} : TaskAgrees(task[u])'
  BY Zenon, OthersAgree
<1>2. OneDrain'
  BY Zenon DEF OneDrain, Survival
<1> QED
  BY Zenon, <1>1, <1>2 DEF Survival

(* The node's steps. *)
LEMMA ExecuteSurvives ==
    ASSUME QueueTypeOK, Survival, NEW t \in Tasks, Execute(t)
    PROVE  QueueTypeOK' /\ Survival'
<1>1. /\ task[t].wire = "sent" /\ task[t] \in TaskStates /\ TaskAgrees(task[t])
      /\ UNCHANGED <<queue, draining, cache, orphans, bounds, history>>
  BY Zenon DEF Execute, QueueTypeOK, Survival
<1>2. \A u \in Tasks \ {t} : task'[u] = task[u]
  BY Zenon DEF Execute, QueueTypeOK
<1>3. \A u \in Tasks \ {t} : task[u].at = "drain" =>
          draining' /\ queue' # <<>> /\ Head(queue') = Head(queue)
  BY Zenon, <1>1 DEF Survival, TaskAgrees
<1>4. Survival' /\ QueueTypeOK'
  <2>1. CASE IsGet(t)
    <3>1. /\ task' = [task EXCEPT ![t] = [task[t] EXCEPT !.wire = "done", !.value = live]]
          /\ UNCHANGED record
      BY Zenon, <2>1, <1>1 DEF Execute, QueueTypeOK, TaskStates
    <3>2. live \in {None} \cup Saves \cup RivalValues
      BY Zenon DEF QueueTypeOK, Ran
    <3>3. QueueTypeOK'
      BY Zenon, <1>1, <3>1, <3>2 DEF QueueTypeOK, TaskStates, bounds, history, record, Ran
    <3>4. Ran' = Ran /\ Kept' = Kept
      BY Zenon, <1>1, <3>1 DEF Kept, Ran, record, history
    <3>5. TaskAgrees(task[t])'
      BY Zenon, <1>1, <2>1, <3>1, <3>4 DEF TaskAgrees, IsGet, QueueTypeOK, TaskStates, history
    <3>6. AckedSavesSurvive'
      BY Zenon, <1>1, <3>4 DEF Survival, AckedSavesSurvive, Kept, history
    <3>7. task'[t].at = task[t].at /\ refused' = refused
      BY Zenon, <1>1, <3>1 DEF QueueTypeOK, TaskStates, history
    <3> QED
      BY Zenon, <1>1, <1>2, <1>3, <3>3, <3>4, <3>5, <3>6, <3>7, MoveSurvives
  <2>2. CASE ~IsGet(t)
    <3>1. task' = [task EXCEPT ![t] = [task[t] EXCEPT !.wire = "done"]] /\ Run(task[t].value)
      BY Zenon, <2>2, <1>1 DEF Execute, QueueTypeOK, TaskStates
    <3>2. task[t].value \in Saves
      <4>1. queue # <<>> => Head(queue) \in Saves
        BY Zenon, HeadTailProperties DEF QueueTypeOK
      <4> QED
        BY SMTT(30), <1>1, <2>2, <4>1 DEF TaskAgrees, IdleTask, IsGet, TaskStates
    <3>3. /\ Ran' = Ran \cup {task[t].value} /\ live' \in {None} \cup Ran'
          /\ executed' \in [Saves \cup RivalValues -> Nat]
      BY Zenon, <3>1, <3>2, RunAdds
    <3>4. QueueTypeOK'
      BY Zenon, <1>1, <3>1, <3>3 DEF QueueTypeOK, TaskStates, bounds, history
    <3>5. Kept \subseteq Kept'
      BY Zenon, <1>1, <3>3 DEF Kept, history
    <3>6. TaskAgrees(task[t])'
      BY SMTT(30), <1>1, <2>2, <3>1, <3>3 DEF TaskAgrees, IsGet, QueueTypeOK, TaskStates, IdleTask, None
    <3>7. AckedSavesSurvive'
      BY Zenon, <1>1, <3>5 DEF Survival, AckedSavesSurvive, Kept, history
    <3>8. task'[t].at = task[t].at /\ refused' = refused
      BY Zenon, <1>1, <3>1 DEF QueueTypeOK, TaskStates, history
    <3> QED
      BY Zenon, <1>1, <1>2, <1>3, <3>3, <3>4, <3>5, <3>6, <3>7, <3>8, MoveSurvives
  <2> QED
    BY Zenon, <2>1, <2>2
<1> QED
  BY Zenon, <1>4

(* The node refuses what a task sent. *)
LEMMA RefuseSurvives ==
    ASSUME QueueTypeOK, Survival, NEW t \in Tasks, Refuse(t)
    PROVE  QueueTypeOK' /\ Survival'
<1>1. /\ task[t].wire = "sent" /\ task[t] \in TaskStates /\ TaskAgrees(task[t]) /\ ~IsGet(t)
      /\ task' = [task EXCEPT ![t] = [task[t] EXCEPT !.wire = "refused"]]
      /\ refused' = refused \cup {task[t].value} /\ faults' = faults + 1
      /\ UNCHANGED <<queue, draining, cache, orphans, record, next, gets, acked, lost, dropped>>
  BY Zenon DEF Refuse, Adversity, QueueTypeOK, Survival, TaskStates
<1>2. task[t].value \in Saves
  <2>1. queue # <<>> => Head(queue) \in Saves
    BY Zenon, HeadTailProperties DEF QueueTypeOK
  <2> QED
    BY SMTT(30), <1>1, <2>1 DEF TaskAgrees, IdleTask, IsGet, TaskStates
<1>3. Ran' = Ran /\ Kept \subseteq Kept'
  BY Zenon, <1>1 DEF Kept, Ran, record
<1>4. QueueTypeOK'
  <2>1. task' \in [Tasks -> TaskStates]
    BY Zenon, <1>1 DEF QueueTypeOK, TaskStates
  <2> QED
    BY SMTT(30), <1>1, <1>2, <1>3, <2>1 DEF QueueTypeOK, record
<1>5. TaskAgrees(task[t])'
  BY SMTT(30), <1>1, <1>2 DEF TaskAgrees, IsGet, TaskStates, IdleTask, None, QueueTypeOK
<1>6. AckedSavesSurvive'
  BY Zenon, <1>1, <1>3 DEF Survival, AckedSavesSurvive, Kept
<1>7. \A u \in Tasks \ {t} : task'[u] = task[u]
  BY Zenon, <1>1 DEF QueueTypeOK
<1>8. \A u \in Tasks \ {t} : task[u].at = "drain" =>
          draining' /\ queue' # <<>> /\ Head(queue') = Head(queue)
  BY Zenon, <1>1 DEF Survival, TaskAgrees
<1>9. task'[t].at = task[t].at /\ refused \subseteq refused'
  BY Zenon, <1>1 DEF QueueTypeOK, TaskStates
<1> QED
  BY Zenon, <1>3, <1>4, <1>5, <1>6, <1>7, <1>8, <1>9, MoveSurvives

(* An answer takes the front from the queue: it was executed or refused. *)
LEMMA DrainAnsweredSurvives ==
    ASSUME QueueTypeOK, Survival, NEW t \in Tasks, DrainAnswered(t)
    PROVE  QueueTypeOK' /\ Survival'
<1> DEFINE n == task[t].save
<1>1. /\ task[t].at = "drain" /\ task[t].wire \in {"done", "refused"}
      /\ TaskAgrees(task[t]) /\ n \in {None} \cup Saves
      /\ queue' = Tail(queue) /\ queue # <<>> /\ draining /\ task[t].value = Head(queue)
      /\ UNCHANGED <<cache, orphans, record, bounds, history>>
  BY Zenon DEF DrainAnswered, QueueTypeOK, Survival, TaskStates, TaskAgrees
<1>2. /\ Head(queue) \in Saves /\ queue' \in Seq(Saves)
      /\ Range(queue) = {Head(queue)} \cup Range(queue')
  <2>1. queue \in Seq(Saves) /\ Head(queue) \in Saves
    BY Zenon, <1>1, HeadTailProperties DEF QueueTypeOK
  <2> QED
    BY Zenon, <1>1, <2>1, QueueElements
<1>3. Ran' = Ran /\ refused' = refused
  BY Zenon, <1>1 DEF Ran, record, history
<1>4. Head(queue) \in Ran \cup refused
  BY SMTT(30), <1>1, <1>2 DEF TaskAgrees, Saves, None
<1>5. Kept \subseteq Kept'
  BY Zenon, <1>2, <1>3, <1>4 DEF Kept
<1>6. AckedSavesSurvive'
  BY Zenon, <1>1, <1>5 DEF Survival, AckedSavesSurvive, Kept, history
<1>7. \A u \in Tasks \ {t} : task'[u] = task[u] /\ task[u].at # "drain"
  BY Zenon, <1>1 DEF DrainAnswered, QueueTypeOK, Survival, OneDrain
<1>8. task' \in [Tasks -> TaskStates] /\ draining' \in BOOLEAN /\ TaskAgrees(task[t])'
  <2>1. CASE queue' = <<>>
    <3>1. task' = [task EXCEPT ![t] = AfterDrain(n)] /\ draining' = FALSE
      BY Zenon, <2>1 DEF DrainAnswered
    <3> QED
      BY Zenon, <1>1, <3>1, AfterDrainAgrees DEF QueueTypeOK
  <2>2. CASE queue' # <<>>
    <3>1. /\ task' = [task EXCEPT ![t] = Awaiting("drain", n, Head(queue'))]
          /\ draining' = draining /\ Head(queue') \in Saves
      BY Zenon, <1>2, <2>2, HeadTailProperties DEF DrainAnswered
    <3>2. PICK v \in Saves : v = Head(queue')
      BY Zenon, <3>1
    <3>3. PICK m \in {None} \cup Saves : m = n
      BY Zenon, <1>1
    <3>4. task'[t] = Awaiting("drain", m, v) /\ task' \in [Tasks -> TaskStates]
      BY Zenon, <3>1, <3>2, <3>3, AwaitingDrain DEF QueueTypeOK
    <3>5. TaskAgrees(task[t])'
      BY Zenon, <1>1, <2>2, <3>1, <3>2, <3>4, AwaitingDrain
    <3> QED
      BY Zenon, <1>1, <3>1, <3>4, <3>5
  <2> QED
    BY Zenon, <2>1, <2>2
<1>9. QueueTypeOK'
  BY Zenon, <1>1, <1>2, <1>3, <1>8 DEF QueueTypeOK, record, bounds, history
<1> QED
  BY Zenon, <1>1, <1>3, <1>5, <1>6, <1>7, <1>8, <1>9, MoveSurvives

(* A command that was answered. *)
LEMMA CommandAnsweredSurvives ==
    ASSUME QueueTypeOK, Survival, NEW t \in Tasks, CommandAnswered(t)
    PROVE  QueueTypeOK' /\ Survival'
<1>1. /\ task[t].at = "command" /\ task[t].wire \in {"done", "refused"}
      /\ TaskAgrees(task[t]) /\ task[t] \in TaskStates
      /\ UNCHANGED <<queue, draining, cache, orphans, record, bounds, history>>
  BY Zenon DEF CommandAnswered, QueueTypeOK, Survival
<1>2. \/ task' = [task EXCEPT ![t] = IdleTask]
      \/ /\ task[t].wire = "done" /\ task[t].value # None
         /\ task' = [task EXCEPT ![t] = [task[t] EXCEPT !.at = "mirror", !.wire = "none"]]
  BY Zenon, <1>1 DEF CommandAnswered
<1>3. task' \in [Tasks -> TaskStates]
  <2>1. IdleTask \in TaskStates
    BY Zenon DEF TaskStates, IdleTask
  <2>2. [task[t] EXCEPT !.at = "mirror", !.wire = "none"] \in TaskStates
    BY Zenon, <1>1 DEF TaskStates
  <2> QED
    BY Zenon, <1>2, <2>1, <2>2 DEF QueueTypeOK
<1>4. Ran' = Ran /\ Kept' = Kept /\ refused' = refused
  BY Zenon, <1>1 DEF Kept, Ran, record, history
<1>5. QueueTypeOK'
  BY Zenon, <1>1, <1>3, <1>4 DEF QueueTypeOK, record, bounds, history
<1>6. AckedSavesSurvive'
  BY Zenon, <1>1, <1>4 DEF Survival, AckedSavesSurvive, Kept, history
<1>7. TaskAgrees(task[t])' /\ task'[t].at # "drain"
  <2>1. CASE task'[t] = IdleTask
    BY SMTT(30), <2>1 DEF TaskAgrees, IdleTask
  <2>2. CASE /\ task[t].wire = "done" /\ task[t].value # None
             /\ task'[t] = [task[t] EXCEPT !.at = "mirror", !.wire = "none"]
    <3>1. task[t].value \in Kept /\ (task[t].save # None => task[t].value = task[t].save)
      BY Zenon, <1>1, <2>2 DEF TaskAgrees, Kept
    <3>2. /\ task'[t].at = "mirror" /\ task'[t].wire = "none"
          /\ task'[t].value = task[t].value /\ task'[t].save = task[t].save
      BY Zenon, <1>1, <2>2 DEF TaskStates
    <3> QED
      BY Zenon, <1>4, <3>1, <3>2 DEF TaskAgrees
  <2> QED
    BY Zenon, <1>1, <1>2, <2>1, <2>2 DEF QueueTypeOK
<1>8. \A u \in Tasks \ {t} : task'[u] = task[u]
  BY Zenon, <1>2 DEF QueueTypeOK
<1>9. \A u \in Tasks \ {t} : task[u].at = "drain" =>
          draining' /\ queue' # <<>> /\ Head(queue') = Head(queue)
  BY Zenon, <1>1 DEF Survival, TaskAgrees
<1> QED
  BY Zenon, <1>4, <1>5, <1>6, <1>7, <1>8, <1>9, MoveSurvives

(* The mirror of a call that returns Ok: what it carries is kept. *)
LEMMA MirrorSurvives ==
    ASSUME QueueTypeOK, Survival, NEW t \in Tasks, Mirror(t)
    PROVE  QueueTypeOK' /\ Survival'
<1>1. /\ task[t].at = "mirror" /\ TaskAgrees(task[t]) /\ task[t] \in TaskStates
      /\ cache' \in {cache, task[t].value} /\ faults' \in Nat
      /\ acked' = acked \cup ({task[t].save} \ {None})
      /\ task' = [task EXCEPT ![t] = IdleTask]
      /\ UNCHANGED <<queue, draining, orphans, record, next, gets, refused, lost, dropped>>
  BY SMTT(30) DEF Mirror, Adversity, QueueTypeOK, Survival
<1>2. task' \in [Tasks -> TaskStates] /\ task'[t] = IdleTask
  <2>1. IdleTask \in TaskStates
    BY Zenon DEF TaskStates, IdleTask
  <2> QED
    BY Zenon, <1>1, <2>1 DEF QueueTypeOK
<1>3. Ran' = Ran /\ Kept' = Kept /\ refused' = refused
  BY Zenon, <1>1 DEF Kept, Ran, record
<1>4. QueueTypeOK'
  <2>1. task[t].save \in {None} \cup Saves /\ task[t].value \in {None} \cup Saves \cup RivalValues
    BY Zenon, <1>1 DEF TaskStates
  <2> QED
    BY Zenon, <1>1, <1>2, <1>3, <2>1 DEF QueueTypeOK, record
<1>5. AckedSavesSurvive'
  BY Zenon, <1>1, <1>3 DEF Survival, AckedSavesSurvive, Kept, TaskAgrees
<1>6. TaskAgrees(task[t])' /\ task'[t].at # "drain"
  BY SMTT(30), <1>2 DEF TaskAgrees, IdleTask
<1>7. \A u \in Tasks \ {t} : task'[u] = task[u]
  BY Zenon, <1>1 DEF QueueTypeOK
<1>8. \A u \in Tasks \ {t} : task[u].at = "drain" =>
          draining' /\ queue' # <<>> /\ Head(queue') = Head(queue)
  BY Zenon, <1>1 DEF Survival, TaskAgrees
<1> QED
  BY Zenon, <1>3, <1>4, <1>5, <1>6, <1>7, <1>8, MoveSurvives

(* An exchange that fails: a drain keeps its queue, *)
LEMMA DrainFaultSurvives ==
    ASSUME QueueTypeOK, Survival, NEW t \in Tasks, DrainFault(t)
    PROVE  QueueTypeOK' /\ Survival'
<1>1. /\ task[t].at = "drain" /\ task[t].save \in {None} \cup Saves
      /\ faults' = faults + 1 /\ draining' = FALSE /\ Abandon(t)
      /\ task' = [task EXCEPT ![t] = AfterDrain(task[t].save)]
      /\ UNCHANGED <<queue, cache, record, next, gets, acked, refused, dropped>>
  BY Zenon DEF DrainFault, Adversity, QueueTypeOK, TaskStates
<1>2. task' \in [Tasks -> TaskStates] /\ TaskAgrees(task[t])' /\ task'[t].at # "drain"
  BY Zenon, <1>1, AfterDrainAgrees DEF QueueTypeOK
<1>3. Ran' = Ran /\ Kept' = Kept /\ refused' = refused
  BY Zenon, <1>1 DEF Kept, Ran, record
<1>4. QueueTypeOK'
  <2>1. orphans' \subseteq Saves /\ lost' \in [Saves -> Nat]
    BY Zenon, <1>1, AbandonTypes
  <2>2. faults' \in Nat
    BY SMTT(30), <1>1 DEF QueueTypeOK
  <2> QED
    BY <1>1, <1>2, <1>3, <2>1, <2>2, Zenon DEF QueueTypeOK, record
<1>5. AckedSavesSurvive'
  BY Zenon, <1>1, <1>3 DEF Survival, AckedSavesSurvive, Kept
<1>6. \A u \in Tasks \ {t} : task'[u] = task[u] /\ task[u].at # "drain"
  BY Zenon, <1>1 DEF QueueTypeOK, Survival, OneDrain
<1> QED
  BY Zenon, <1>2, <1>3, <1>4, <1>5, <1>6, MoveSurvives

(* a save is queued, *)
LEMMA CommandFaultSurvives ==
    ASSUME QueueTypeOK, Survival, NEW t \in Tasks, CommandFault(t)
    PROVE  QueueTypeOK' /\ Survival'
<1>1. /\ task[t].at = "command" /\ task[t] \in TaskStates /\ TaskAgrees(task[t])
      /\ faults' = faults + 1 /\ Abandon(t)
      /\ UNCHANGED <<draining, cache, record, next, gets, acked, refused, dropped>>
  BY Zenon DEF CommandFault, Adversity, QueueTypeOK, Survival
<1>2. Ran' = Ran /\ refused' = refused
  BY Zenon, <1>1 DEF Ran, record
<1>3. CASE IsGet(t)
  <2>1. task' = [task EXCEPT ![t] = IdleTask] /\ queue' = queue
    BY Zenon, <1>3 DEF CommandFault
  <2>2. task' \in [Tasks -> TaskStates] /\ task'[t] = IdleTask
    <3>1. IdleTask \in TaskStates
      BY Zenon DEF TaskStates, IdleTask
    <3> QED
      BY Zenon, <2>1, <3>1 DEF QueueTypeOK
  <2>3. Kept' = Kept
    BY Zenon, <1>2, <2>1 DEF Kept
  <2>4. QueueTypeOK'
    BY SMTT(30), <1>1, <1>2, <2>1, <2>2, AbandonTypes DEF QueueTypeOK, record
  <2>5. AckedSavesSurvive'
    BY Zenon, <1>1, <2>3 DEF Survival, AckedSavesSurvive, Kept
  <2>6. TaskAgrees(task[t])' /\ task'[t].at # "drain"
    BY SMTT(30), <2>2 DEF TaskAgrees, IdleTask
  <2>7. \A u \in Tasks \ {t} : task'[u] = task[u]
    BY Zenon, <2>1 DEF QueueTypeOK
  <2>8. \A u \in Tasks \ {t} : task[u].at = "drain" =>
            draining' /\ queue' # <<>> /\ Head(queue') = Head(queue)
    BY Zenon, <1>1, <2>1 DEF Survival, TaskAgrees
  <2> QED
    BY Zenon, <1>2, <2>3, <2>4, <2>5, <2>6, <2>7, <2>8, MoveSurvives
<1>4. CASE ~IsGet(t)
  <2>1. /\ task' = [task EXCEPT ![t] = [task[t] EXCEPT !.at = "mirror", !.wire = "none"]]
        /\ queue' = Append(queue, task[t].save)
        /\ task[t].save \in Saves /\ task[t].value = task[t].save
    BY Zenon, <1>1, <1>4 DEF CommandFault, QueueTypeOK, TaskStates, IsGet, TaskAgrees
  <2>2. /\ task' \in [Tasks -> TaskStates]
        /\ task'[t].at = "mirror" /\ task'[t].wire = "none"
        /\ task'[t].value = task[t].save /\ task'[t].save = task[t].save
    <3>1. [task[t] EXCEPT !.at = "mirror", !.wire = "none"] \in TaskStates
      BY Zenon, <1>1 DEF TaskStates
    <3> QED
      BY Zenon, <1>1, <2>1, <3>1 DEF QueueTypeOK, TaskStates
  <2>3. /\ queue' \in Seq(Saves) /\ queue' # <<>> /\ Range(queue') = Range(queue) \cup {task[t].save}
        /\ queue # <<>> => Head(queue') = Head(queue)
    BY SMTT(30), <2>1, QueueElements DEF QueueTypeOK
  <2>4. Kept' = Kept \cup {task[t].save}
    BY Zenon, <1>2, <2>3 DEF Kept
  <2>5. QueueTypeOK'
    <3>1. orphans' \subseteq Saves /\ lost' \in [Saves -> Nat]
      BY Zenon, <1>1, AbandonTypes
    <3>2. faults' \in Nat
      BY SMTT(30), <1>1 DEF QueueTypeOK
    <3> QED
      BY <1>1, <1>2, <2>2, <2>3, <3>1, <3>2, Zenon DEF QueueTypeOK, record
  <2>6. AckedSavesSurvive'
    BY Zenon, <1>1, <2>4 DEF Survival, AckedSavesSurvive, Kept
  <2>7. TaskAgrees(task[t])'
    BY Zenon, <2>2, <2>4 DEF TaskAgrees
  <2>8. \A u \in Tasks \ {t} : task'[u] = task[u]
    BY Zenon, <2>1 DEF QueueTypeOK
  <2>9. \A u \in Tasks \ {t} : task[u].at = "drain" =>
            draining' /\ queue' # <<>> /\ Head(queue') = Head(queue)
    BY Zenon, <1>1, <2>3 DEF Survival, TaskAgrees
  <2> QED
    BY Zenon, <1>2, <2>2, <2>4, <2>5, <2>6, <2>7, <2>8, <2>9, MoveSurvives
<1> QED
  BY Zenon, <1>3, <1>4

(* and a dropped future leaves nothing but a drain's flag. *)
LEMMA CancelSurvives ==
    ASSUME QueueTypeOK, Survival, NEW t \in Tasks, Cancel(t)
    PROVE  QueueTypeOK' /\ Survival'
<1>1. /\ faults' = faults + 1 /\ Abandon(t) /\ dropped' = (dropped \/ task[t].at = "drain")
      /\ task' = [task EXCEPT ![t] = IdleTask]
      /\ UNCHANGED <<queue, draining, cache, record, next, gets, acked, refused>>
  BY Zenon DEF Cancel, Adversity
<1>2. task' \in [Tasks -> TaskStates] /\ task'[t] = IdleTask
  <2>1. IdleTask \in TaskStates
    BY Zenon DEF TaskStates, IdleTask
  <2> QED
    BY Zenon, <1>1, <2>1 DEF QueueTypeOK
<1>3. Ran' = Ran /\ Kept' = Kept /\ refused' = refused
  BY Zenon, <1>1 DEF Kept, Ran, record
<1>4. QueueTypeOK'
  BY SMTT(30), <1>1, <1>2, <1>3, AbandonTypes DEF QueueTypeOK, record
<1>5. AckedSavesSurvive'
  BY Zenon, <1>1, <1>3 DEF Survival, AckedSavesSurvive, Kept
<1>6. TaskAgrees(task[t])' /\ task'[t].at # "drain"
  BY SMTT(30), <1>2 DEF TaskAgrees, IdleTask
<1>7. \A u \in Tasks \ {t} : task'[u] = task[u]
  BY Zenon, <1>1 DEF QueueTypeOK
<1>8. \A u \in Tasks \ {t} : task[u].at = "drain" =>
          draining' /\ queue' # <<>> /\ Head(queue') = Head(queue)
  BY Zenon, <1>1 DEF Survival, TaskAgrees
<1> QED
  BY Zenon, <1>3, <1>4, <1>5, <1>6, <1>7, <1>8, MoveSurvives

(* A call begins. *)
LEMMA BeginSurvives ==
    ASSUME QueueTypeOK, Survival, NEW t \in Tasks,
           BeginSave(t) \/ BeginDrain(t) \/ BeginGet(t)
    PROVE  QueueTypeOK' /\ Survival'
<1>1. CASE BeginSave(t)
  <2>1. /\ task[t].at = "idle" /\ next \in Saves /\ next' \in 1 .. MaxSaves + 1
        /\ EnterDrain(t, next)
        /\ UNCHANGED <<queue, cache, orphans, record, gets, faults, history>>
    BY SMTT(30), <1>1, QueueBounds DEF BeginSave, CanCall, QueueTypeOK, Saves
  <2>2. Ran' = Ran
    BY Zenon, <2>1 DEF Ran, record
  <2>3. task' \in [Tasks -> TaskStates] /\ draining' \in BOOLEAN /\ Survival'
    BY Zenon, <2>1, EnterDrainSurvives
  <2> QED
    BY Zenon, <2>1, <2>2, <2>3 DEF QueueTypeOK, record, history
<1>2. CASE BeginDrain(t)
  <2>1. /\ task[t].at = "idle" /\ EnterDrain(t, None) /\ next' = next
        /\ UNCHANGED <<queue, cache, orphans, record, gets, faults, history>>
    BY Zenon, <1>2 DEF BeginDrain, CanCall, bounds
  <2>2. Ran' = Ran
    BY Zenon, <2>1 DEF Ran, record
  <2>3. task' \in [Tasks -> TaskStates] /\ draining' \in BOOLEAN /\ Survival'
    BY Zenon, <2>1, EnterDrainSurvives
  <2> QED
    BY Zenon, <2>1, <2>2, <2>3 DEF QueueTypeOK, record, history
<1>3. CASE BeginGet(t)
  <2>1. /\ task[t].at = "idle" /\ gets' = gets + 1
        /\ task' = [task EXCEPT ![t] = Awaiting("command", None, None)]
        /\ UNCHANGED <<queue, draining, cache, orphans, record, next, faults, history>>
    BY Zenon, <1>3 DEF BeginGet, CanCall
  <2>2. /\ task' \in [Tasks -> TaskStates] /\ task'[t] = Awaiting("command", None, None)
        /\ \A u \in Tasks \ {t} : task'[u] = task[u]
    <3>1. Awaiting("command", None, None) \in TaskStates
      BY Zenon DEF Awaiting, TaskStates
    <3> QED
      BY Zenon, <2>1, <3>1 DEF QueueTypeOK
  <2>3. Ran' = Ran /\ Kept' = Kept /\ refused' = refused
    BY Zenon, <2>1 DEF Kept, Ran, record, history
  <2>4. QueueTypeOK'
    BY SMTT(30), <2>1, <2>2, <2>3 DEF QueueTypeOK, record, history
  <2>5. AckedSavesSurvive'
    BY Zenon, <2>1, <2>3 DEF Survival, AckedSavesSurvive, Kept, history
  <2>6. TaskAgrees(task[t])' /\ task'[t].at # "drain"
    BY SMTT(30), <2>2 DEF TaskAgrees, Awaiting
  <2>7. \A u \in Tasks \ {t} : task[u].at = "drain" =>
            draining' /\ queue' # <<>> /\ Head(queue') = Head(queue)
    BY Zenon, <2>1 DEF Survival, TaskAgrees
  <2> QED
    BY Zenon, <2>2, <2>3, <2>4, <2>5, <2>6, <2>7, MoveSurvives
<1> QED
  BY Zenon, <1>1, <1>2, <1>3

(* The node acts without a task: a late execution, or another client. *)
LEMMA RunSurvives ==
    ASSUME QueueTypeOK, Survival, NEW v \in Saves \cup RivalValues, Run(v),
           orphans' \subseteq orphans, faults' \in Nat,
           UNCHANGED <<queue, draining, cache, task, next, gets, history>>
    PROVE  QueueTypeOK' /\ Survival'
<1>1. /\ executed' \in [Saves \cup RivalValues -> Nat]
      /\ Ran' = Ran \cup {v} /\ live' \in {None} \cup Ran'
  BY Zenon, RunAdds
<1>2. Kept \subseteq Kept'
  BY Zenon, <1>1 DEF Kept, history
<1>3. QueueTypeOK'
  BY Zenon, <1>1 DEF QueueTypeOK, history
<1>4. \A u \in Tasks : TaskAgrees(task[u])'
  BY Zenon, <1>1, <1>2, OthersAgree DEF Survival, TaskAgrees, history
<1>5. OneDrain' /\ AckedSavesSurvive'
  BY Zenon, <1>2 DEF Survival, OneDrain, AckedSavesSurvive, Kept, history
<1> QED
  BY Zenon, <1>3, <1>4, <1>5 DEF Survival

(* Every step of a task keeps the types and the invariant. *)
LEMMA StepSurvives ==
    ASSUME QueueTypeOK, Survival, [QueueNext]_queueVars
    PROVE  QueueTypeOK' /\ Survival'
<1>1. ASSUME NEW t \in Tasks,
             \/ BeginSave(t) \/ BeginDrain(t) \/ BeginGet(t)
             \/ Execute(t) \/ Refuse(t)
             \/ DrainAnswered(t) \/ CommandAnswered(t) \/ Mirror(t)
             \/ DrainFault(t) \/ CommandFault(t) \/ Cancel(t)
      PROVE  QueueTypeOK' /\ Survival'
  BY Zenon, <1>1, BeginSurvives, ExecuteSurvives, RefuseSurvives, DrainAnsweredSurvives,
     CommandAnsweredSurvives, MirrorSurvives, DrainFaultSurvives, CommandFaultSurvives,
     CancelSurvives
<1>2. CASE ExecuteOrphan
  <2>1. PICK n \in orphans : orphans' = orphans \ {n} /\ Run(n)
    BY Zenon, <1>2 DEF ExecuteOrphan
  <2>2. n \in Saves \cup RivalValues /\ orphans' \subseteq orphans
    BY Zenon, <2>1 DEF QueueTypeOK
  <2>3. UNCHANGED <<queue, draining, cache, task, next, gets, history>> /\ faults' \in Nat
    BY Zenon, <1>2 DEF ExecuteOrphan, bounds, QueueTypeOK
  <2> QED
    BY Zenon, <2>1, <2>2, <2>3, RunSurvives
<1>3. CASE RivalSave
  <2>1. PICK v \in RivalValues : Run(v)
    BY Zenon, <1>3 DEF RivalSave
  <2>2. /\ UNCHANGED <<queue, draining, cache, task, orphans, next, gets, history>>
        /\ faults' \in Nat
    BY SMTT(30), <1>3 DEF RivalSave, Adversity, QueueTypeOK
  <2> QED
    BY Zenon, <2>1, <2>2, RunSurvives
<1>4. CASE UNCHANGED queueVars
  <2>1. Kept' = Kept /\ Ran' = Ran
    BY Zenon, <1>4 DEF queueVars, record, history, Kept, Ran
  <2>2. QueueTypeOK'
    BY Zenon, <1>4, <2>1 DEF QueueTypeOK, queueVars, record, history, bounds
  <2>3. \A u \in Tasks : TaskAgrees(task[u])'
    BY Zenon, <1>4, <2>1 DEF Survival, TaskAgrees, queueVars, history
  <2> QED
    BY Zenon, <1>4, <2>1, <2>2, <2>3
       DEF Survival, OneDrain, AckedSavesSurvive, Kept, queueVars, history
<1> QED
  BY Zenon, <1>1, <1>2, <1>3, <1>4 DEF QueueNext

(***************************************************************************)
(* No save that returned Ok is lost, whatever fails and however many tasks *)
(* save, drain and read at once (drain, save_unique, mirror_unique).       *)
(***************************************************************************)
THEOREM AcknowledgedSavesSurvive == QueueSpec => []AckedSavesSurvive
<1>1. QueueInit => QueueTypeOK /\ Survival
  BY Zenon, InitSurvival
<1>2. QueueTypeOK /\ Survival /\ [QueueNext]_queueVars => (QueueTypeOK /\ Survival)'
  BY Zenon, StepSurvives
<1>3. Survival => AckedSavesSurvive
  BY Zenon DEF Survival
<1> QED
  BY <1>1, <1>2, <1>3, PTL DEF QueueSpec

-----------------------------------------------------------------------------
(* A step that executes nothing and opens nothing. *)
LEMMA NothingOpened ==
    ASSUME QueueTypeOK, QueueTypeOK', Budget, lost' = lost, orphans' = orphans,
           \A n \in Saves : executed'[n] = executed[n],
           \A n \in Saves : Open(n)' => Open(n)
    PROVE  Budget'
<1> SUFFICES ASSUME NEW n \in Saves
             PROVE  executed'[n] + One(n \in orphans') + One(Open(n)') <= 1 + lost'[n]
  BY Zenon DEF Budget
<1>1. executed[n] + One(n \in orphans) + One(Open(n)) <= 1 + lost[n]
  BY Zenon DEF Budget
<1>2. executed[n] \in Nat /\ lost[n] \in Nat
  BY Zenon DEF QueueTypeOK
<1> QED
  BY SMTT(30), <1>1, <1>2 DEF One

(* The execution of a save that was open, and is not any more. *)
LEMMA OpenExecuted ==
    ASSUME QueueTypeOK, Budget, lost' = lost, orphans' = orphans,
           NEW v \in Saves, Run(v), Open(v), ~Open(v)',
           \A n \in Saves : Open(n)' => Open(n)
    PROVE  Budget'
<1> SUFFICES ASSUME NEW n \in Saves
             PROVE  executed'[n] + One(n \in orphans') + One(Open(n)') <= 1 + lost'[n]
  BY Zenon DEF Budget
<1>1. executed[n] + One(n \in orphans) + One(Open(n)) <= 1 + lost[n]
  BY Zenon DEF Budget
<1>2. executed[n] \in Nat /\ lost[n] \in Nat
  BY Zenon DEF QueueTypeOK
<1>3. executed'[n] = IF n = v THEN executed[n] + 1 ELSE executed[n]
  BY Zenon, RunAdds
<1> QED
  BY SMTT(30), <1>1, <1>2, <1>3 DEF One

(* An exchange that ends without an answer opens at most the save it       *)
(* carried, and only when the node had executed it.                        *)
LEMMA AbandonedBudget ==
    ASSUME QueueTypeOK, Survival, Budget, NEW t \in Tasks, Abandon(t), executed' = executed,
           \A n \in Saves : Open(n)' =>
               \/ Open(n)
               \/ /\ n = task[t].value /\ task[t].wire = "done"
                  /\ ~IsGet(t) /\ task[t].at # "mirror"
    PROVE  Budget'
<1> SUFFICES ASSUME NEW n \in Saves
             PROVE  executed'[n] + One(n \in orphans') + One(Open(n)') <= 1 + lost'[n]
  BY Zenon DEF Budget
<1>1. executed[n] + One(n \in orphans) + One(Open(n)) <= 1 + lost[n]
  BY Zenon DEF Budget
<1>2. executed[n] \in Nat /\ lost[n] \in Nat /\ lost \in [Saves -> Nat]
  BY Zenon DEF QueueTypeOK
<1>3. CASE UNCHANGED <<orphans, lost>> /\ (Open(n)' => Open(n))
  BY SMTT(30), <1>1, <1>2, <1>3 DEF One
<1>4. CASE /\ orphans' = orphans /\ n = task[t].value
           /\ lost' = [lost EXCEPT ![task[t].value] = lost[task[t].value] + 1]
  <2>1. lost'[n] = lost[n] + 1
    BY Zenon, <1>2, <1>4
  <2> QED
    BY SMTT(30), <1>1, <1>2, <1>4, <2>1 DEF One
<1>5. CASE /\ task[t].wire = "sent" /\ n = task[t].value /\ n \notin orphans
           /\ orphans' = orphans \cup {task[t].value}
           /\ lost' = [lost EXCEPT ![task[t].value] = lost[task[t].value] + 1]
  <2>1. lost'[n] = lost[n] + 1 /\ (Open(n)' => Open(n))
    BY Zenon, <1>2, <1>5
  <2> QED
    BY SMTT(30), <1>1, <1>2, <1>5, <2>1 DEF One
<1>6. CASE /\ n # task[t].value
           /\ orphans' \in {orphans, orphans \cup {task[t].value}}
           /\ lost' \in {lost, [lost EXCEPT ![task[t].value] = lost[task[t].value] + 1]}
  <2>1. lost'[n] = lost[n] /\ (n \in orphans' <=> n \in orphans) /\ (Open(n)' => Open(n))
    BY Zenon, <1>2, <1>6
  <2> QED
    BY SMTT(30), <1>1, <1>2, <2>1 DEF One
<1> QED
  BY Zenon, <1>3, <1>4, <1>5, <1>6 DEF Abandon

(* A task that gives up or ends a drain, or leaves its command, the queue  *)
(* as it is: nothing opens but the front, if the drain had executed it.    *)
LEMMA TaskLeaves ==
    ASSUME OnePlace, NEW t \in Tasks, UNCHANGED <<queue, next>>,
           \A u \in Tasks \ {t} : task'[u] = task[u], task'[t].at # "drain",
           Busy(task'[t]) => task[t].at = "drain" /\ task'[t].save = task[t].save
    PROVE  /\ OnePlace'
           /\ \A n \in Saves : Open(n)' =>
                  \/ Open(n)
                  \/ n = task[t].value /\ task[t].wire = "done" /\ task[t].at = "drain"
<1>1. \A u \in Tasks : Busy(task'[u]) =>
          /\ Busy(task[u]) /\ task'[u].save = task[u].save
          /\ u = t => task[u].at = "drain"
  BY Zenon DEF Busy
<1>2. OnePlace'
  BY ZenonT(30), <1>1 DEF OnePlace, Distinct
<1>3. ASSUME NEW n \in Saves, Open(n)',
             ~(n = task[t].value /\ task[t].wire = "done" /\ task[t].at = "drain")
      PROVE  Open(n)
  <2>1. CASE (next <= n)'
    BY Zenon, <2>1 DEF Open
  <2>2. CASE ByTask(n)'
    <3>1. PICK u \in Tasks : /\ Busy(task'[u]) /\ task'[u].save = n
                             /\ task'[u].at = "drain" \/ task'[u].wire # "done"
      BY Zenon, <2>2 DEF ByTask
    <3> QED
      BY Zenon, <1>1, <3>1 DEF ByTask, Open
  <2>3. CASE ByDrain(n)'
    <3>1. \A u \in Tasks : task[u].at = "drain" /\ task[u].value = n => task[u].wire # "done"
      BY Zenon, <1>3, <2>3 DEF ByDrain
    <3> QED
      BY Zenon, <2>3, <3>1 DEF ByDrain, Open
  <2> QED
    BY Zenon, <1>3, <2>1, <2>2, <2>3 DEF Open
<1> QED
  BY Zenon, <1>2, <1>3

(* A task that keeps its place and its save, and has not been executed. *)
LEMMA TaskStays ==
    ASSUME OnePlace, NEW t \in Tasks, UNCHANGED <<queue, next>>,
           \A u \in Tasks \ {t} : task'[u] = task[u],
           task'[t].at = task[t].at, task'[t].save = task[t].save,
           task'[t].value = task[t].value, task[t].wire # "done"
    PROVE  /\ OnePlace'
           /\ \A n \in Saves : Open(n)' => Open(n)
<1>1. \A u \in Tasks : /\ Busy(task'[u]) <=> Busy(task[u])
                       /\ task'[u].save = task[u].save /\ task'[u].at = task[u].at
                       /\ task'[u].value = task[u].value
  BY Zenon DEF Busy
<1>2. OnePlace'
  BY SMTT(30), <1>1 DEF OnePlace, Distinct
<1>3. ASSUME NEW n \in Saves, Open(n)' PROVE Open(n)
  <2>1. CASE (next <= n)'
    BY Zenon, <2>1 DEF Open
  <2>2. CASE ByTask(n)'
    <3>1. PICK u \in Tasks : /\ Busy(task'[u]) /\ task'[u].save = n
                             /\ task'[u].at = "drain" \/ task'[u].wire # "done"
      BY Zenon, <2>2 DEF ByTask
    <3> QED
      BY Zenon, <1>1, <3>1 DEF ByTask, Open
  <2>3. CASE ByDrain(n)'
    <3>1. \A u \in Tasks : task[u].at = "drain" /\ task[u].value = n => task[u].wire # "done"
      BY Zenon, <2>3 DEF ByDrain
    <3> QED
      BY Zenon, <2>3, <3>1 DEF ByDrain, Open
  <2> QED
    BY Zenon, <1>3, <2>1, <2>2, <2>3 DEF Open
<1> QED
  BY Zenon, <1>2, <1>3

(* A call begins, with the next save or none. *)
LEMMA BeginBudget ==
    ASSUME QueueTypeOK, QueueTypeOK', OnePlace, NEW t \in Tasks, task[t].at = "idle",
           NEW m \in {None} \cup Saves, queue' = queue, next <= next',
           m # None => next <= m /\ m < next',
           \A u \in Tasks \ {t} : task'[u] = task[u],
           task'[t].save = m, task'[t].wire # "done"
    PROVE  /\ OnePlace'
           /\ \A n \in Saves : Open(n)' => Open(n)
<1>1. next \in Nat /\ next' \in Nat /\ Range(queue) \subseteq Saves /\ m \in Nat
  <2>1. next \in Nat /\ next' \in Nat /\ queue \in Seq(Saves)
    BY SMTT(30), QueueBounds DEF QueueTypeOK
  <2>2. m \in Nat
    BY SMTT(30), QueueBounds DEF Saves, None
  <2> QED
    BY Zenon, <2>1, <2>2, RangeOfSeq
<1>2. \A u \in Tasks : task[u].save \in Nat
  BY SMTT(30), QueueBounds DEF QueueTypeOK, TaskStates, Saves, None
<1>3. m # None => m \notin Range(queue) /\ \A u \in Tasks : Busy(task[u]) => task[u].save # m
  BY SMTT(30), <1>1, <1>2 DEF OnePlace
<1>4. \A u \in Tasks : Busy(task'[u]) => \/ u = t /\ m # None
                                         \/ u # t /\ task'[u] = task[u] /\ Busy(task[u])
  BY Zenon DEF Busy
<1>5. \A n \in Range(queue) : n < next'
  BY SMTT(30), <1>1, QueueBounds DEF OnePlace, Saves
<1>6. \A u \in Tasks : Busy(task'[u]) => task'[u].save < next' /\ task'[u].save \notin Range(queue)
  BY SMTT(30), <1>1, <1>2, <1>3, <1>4 DEF OnePlace
<1>7. \A u, w \in Tasks :
          Busy(task'[u]) /\ Busy(task'[w]) /\ task'[u].save = task'[w].save => u = w
  BY Zenon, <1>3, <1>4 DEF OnePlace
<1>8. OnePlace'
  BY Zenon, <1>5, <1>6, <1>7 DEF OnePlace, Distinct
<1>9. ASSUME NEW n \in Saves, Open(n)' PROVE Open(n)
  <2>1. CASE (next <= n)'
    BY SMTT(30), <1>1, <2>1, QueueBounds DEF Open, Saves
  <2>2. CASE ByTask(n)'
    <3>1. PICK u \in Tasks : /\ Busy(task'[u]) /\ task'[u].save = n
                             /\ task'[u].at = "drain" \/ task'[u].wire # "done"
      BY Zenon, <2>2 DEF ByTask
    <3> QED
      BY Zenon, <1>4, <3>1 DEF ByTask, Open
  <2>3. CASE ByDrain(n)'
    BY Zenon, <2>3 DEF ByDrain, Open
  <2> QED
    BY Zenon, <1>9, <2>1, <2>2, <2>3 DEF Open
<1> QED
  BY Zenon, <1>8, <1>9

(* The node executes the save a task or the drain carries. *)
LEMMA ExecuteBudget ==
    ASSUME QueueTypeOK, QueueTypeOK', Survival, OnePlace, Budget, NEW t \in Tasks, Execute(t)
    PROVE  OnePlace' /\ Budget'
<1>1. /\ task[t].wire = "sent" /\ task[t] \in TaskStates /\ TaskAgrees(task[t])
      /\ UNCHANGED <<queue, draining, orphans, next, lost>>
      /\ \A u \in Tasks \ {t} : task'[u] = task[u]
  BY Zenon DEF Execute, QueueTypeOK, Survival, bounds, history
<1>2. CASE IsGet(t)
  <2>1. /\ executed' = executed /\ task[t].at = "command"
        /\ ~Busy(task'[t]) /\ task'[t].at # "drain"
    BY SMTT(30), <1>1, <1>2 DEF Execute, record, IsGet, Busy, QueueTypeOK, TaskStates
  <2>2. OnePlace' /\ \A n \in Saves : Open(n)' => Open(n)
    BY Zenon, <1>1, <2>1, TaskLeaves
  <2> QED
    BY Zenon, <1>1, <2>1, <2>2, NothingOpened
<1>3. CASE ~IsGet(t)
  <2> DEFINE v == task[t].value
  <2>1. /\ Run(v) /\ task'[t].at = task[t].at /\ task'[t].save = task[t].save
        /\ task'[t].value = v /\ task'[t].wire = "done" /\ task[t].wire # "done"
    BY SMTT(30), <1>1, <1>3 DEF Execute, QueueTypeOK, TaskStates
  <2>2. OnePlace' /\ \A n \in Saves : Open(n)' => Open(n)
    BY Zenon, <1>1, <2>1, TaskStays
  <2>3. \A u \in Tasks : Busy(task'[u]) => Busy(task[u]) /\ task'[u].save = task[u].save
    BY Zenon, <1>1, <2>1 DEF Busy
  <2>4. next \in Nat /\ \A n \in Saves : n \in Nat
    BY SMTT(30), QueueBounds DEF QueueTypeOK, Saves
  <2>5. CASE task[t].at = "command"
    <3>1. Busy(task[t]) /\ task[t].save = v /\ v \in Saves
      BY Zenon, <1>1, <1>3, <2>5 DEF TaskAgrees, Busy, IsGet, TaskStates
    <3>2. Open(v)
      BY Zenon, <2>1, <3>1 DEF Open, ByTask
    <3>3. ~(next <= v) /\ v \notin Range(queue)
      BY SMTT(30), <2>4, <3>1 DEF OnePlace
    <3>4. PICK w \in Saves : w = v
      BY Zenon, <3>1
    <3>5. ~ByTask(w)'
      <4> SUFFICES ASSUME NEW u \in Tasks, Busy(task'[u]), task'[u].save = w,
                          task'[u].at = "drain" \/ task'[u].wire # "done"
                   PROVE  FALSE
        BY Zenon DEF ByTask
      <4>1. u = t
        BY Zenon, <2>3, <3>1, <3>4 DEF OnePlace
      <4> QED
        BY Zenon, <2>1, <2>5, <4>1
    <3>6. ~ByDrain(w)'
      BY Zenon, <1>1, <3>3, <3>4 DEF ByDrain
    <3>7. ~Open(w)'
      BY Zenon, <1>1, <3>3, <3>4, <3>5, <3>6 DEF Open
    <3> QED
      BY Zenon, <1>1, <2>1, <2>2, <3>2, <3>4, <3>7, OpenExecuted
  <2>6. CASE task[t].at = "drain"
    <3>1. queue # <<>> /\ v = Head(queue) /\ v \in Saves /\ v \in Range(queue)
      <4>1. queue # <<>> /\ v = Head(queue) /\ queue \in Seq(Saves)
        BY Zenon, <1>1, <2>6 DEF TaskAgrees, QueueTypeOK
      <4>2. Head(queue) \in Saves
        BY Zenon, <4>1, HeadTailProperties
      <4> QED
        BY SMTT(30), <4>1, <4>2, QueueElements
    <3>2. Open(v)
      BY Zenon, <1>1, <2>6, <3>1 DEF Open, ByDrain, Survival, OneDrain
    <3>3. PICK w \in Saves : w = v
      BY Zenon, <3>1
    <3>4. ~(next <= w)
      BY SMTT(30), <2>4, <3>1, <3>3 DEF OnePlace
    <3>5. ~ByTask(w)'
      BY Zenon, <2>3, <3>1, <3>3 DEF ByTask, OnePlace
    <3>6. ~ByDrain(w)'
      BY Zenon, <2>1, <2>6, <3>3 DEF ByDrain
    <3>7. ~Open(w)'
      BY Zenon, <1>1, <3>4, <3>5, <3>6 DEF Open
    <3> QED
      BY Zenon, <1>1, <2>1, <2>2, <3>2, <3>3, <3>7, OpenExecuted
  <2> QED
    BY SMTT(30), <1>1, <2>5, <2>6 DEF TaskAgrees, IdleTask, TaskStates
<1> QED
  BY Zenon, <1>2, <1>3

(* The drain moves on: the front was answered, and is in no other place. *)
LEMMA DrainAnsweredBudget ==
    ASSUME QueueTypeOK, QueueTypeOK', Survival, OnePlace, Budget, NEW t \in Tasks, DrainAnswered(t)
    PROVE  OnePlace' /\ Budget'
<1>1. /\ task[t].at = "drain" /\ queue # <<>> /\ task[t].value = Head(queue)
      /\ queue' = Tail(queue)
      /\ UNCHANGED <<executed, orphans, next, lost>>
      /\ \A u \in Tasks \ {t} : task'[u] = task[u] /\ task[u].at # "drain"
  BY Zenon DEF DrainAnswered, QueueTypeOK, Survival, TaskAgrees, OneDrain, record, bounds, history
<1>2. Busy(task'[t]) => task'[t].save = task[t].save
  <2>1. \/ task'[t] = AfterDrain(task[t].save)
        \/ task'[t] = Awaiting("drain", task[t].save, Head(queue'))
    BY Zenon DEF DrainAnswered, QueueTypeOK
  <2> QED
    BY SMTT(30), <2>1 DEF AfterDrain, Awaiting, Busy, IdleTask
<1>3. /\ Distinct(queue') /\ Head(queue) \notin Range(queue')
      /\ Range(queue) = {Head(queue)} \cup Range(queue')
  <2>1. queue \in Seq(Saves) /\ Head(queue) \in Saves
    BY Zenon, <1>1, HeadTailProperties DEF QueueTypeOK
  <2> QED
    BY Zenon, <1>1, <2>1, QueueElements, QueueDistinct DEF OnePlace
<1>4. \A u \in Tasks : Busy(task'[u]) => Busy(task[u]) /\ task'[u].save = task[u].save
  BY Zenon, <1>1, <1>2 DEF Busy
<1>5. OnePlace'
  BY Zenon, <1>1, <1>3, <1>4 DEF OnePlace
<1>6. ASSUME NEW n \in Saves, Open(n)' PROVE Open(n)
  <2>1. CASE (next <= n)'
    BY Zenon, <1>1, <2>1 DEF Open
  <2>2. CASE ByTask(n)'
    <3>1. PICK u \in Tasks : /\ Busy(task'[u]) /\ task'[u].save = n
                             /\ task'[u].at = "drain" \/ task'[u].wire # "done"
      BY Zenon, <2>2 DEF ByTask
    <3> QED
      BY Zenon, <1>1, <1>4, <3>1 DEF ByTask, Open
  <2>3. CASE ByDrain(n)'
    <3>1. n \in Range(queue) /\ n # Head(queue)
      BY Zenon, <1>3, <2>3 DEF ByDrain
    <3> QED
      BY Zenon, <1>1, <3>1 DEF ByDrain, Open
  <2> QED
    BY Zenon, <1>6, <2>1, <2>2, <2>3 DEF Open
<1> QED
  BY Zenon, <1>1, <1>5, <1>6, NothingOpened

(* A save whose exchange failed goes from its task to the queue. *)
LEMMA QueuedBudget ==
    ASSUME QueueTypeOK, QueueTypeOK', Survival, OnePlace, Budget, NEW t \in Tasks,
           CommandFault(t), ~IsGet(t)
    PROVE  OnePlace' /\ Budget'
<1> DEFINE v == task[t].save
<1>1. /\ task[t].at = "command" /\ Busy(task[t]) /\ v \in Saves /\ task[t].value = v
      /\ queue' = Append(queue, v) /\ Abandon(t)
      /\ UNCHANGED <<executed, next>>
      /\ ~Busy(task'[t]) /\ task'[t].at # "drain"
      /\ \A u \in Tasks \ {t} : task'[u] = task[u]
  <2>1. /\ task[t].at = "command" /\ task[t] \in TaskStates /\ TaskAgrees(task[t])
        /\ v # None /\ Abandon(t) /\ UNCHANGED <<executed, next>>
        /\ queue' = Append(queue, v)
    BY Zenon DEF CommandFault, QueueTypeOK, Survival, IsGet, record
  <2>2. v \in Saves /\ task[t].value = v
    BY Zenon, <2>1 DEF TaskAgrees, TaskStates
  <2>3. task'[t].at = "mirror" /\ \A u \in Tasks \ {t} : task'[u] = task[u]
    BY SMTT(30) DEF CommandFault, QueueTypeOK, TaskStates
  <2> QED
    BY Zenon, <2>1, <2>2, <2>3 DEF Busy
<1>2. v < next /\ v \notin Range(queue)
  BY Zenon, <1>1 DEF OnePlace
<1>3. Range(queue') = Range(queue) \cup {v} /\ Distinct(queue')
  BY SMTT(30), <1>1, <1>2, QueueElements, QueueDistinct DEF OnePlace, QueueTypeOK
<1>4. \A u \in Tasks : Busy(task'[u]) => u # t /\ Busy(task[u]) /\ task'[u] = task[u]
  BY Zenon, <1>1
<1>5. \A u \in Tasks : Busy(task'[u]) => task'[u].save # v
  BY Zenon, <1>1, <1>4 DEF OnePlace
<1>6. OnePlace'
  BY Zenon, <1>1, <1>2, <1>3, <1>4, <1>5 DEF OnePlace
<1>7. ASSUME NEW n \in Saves, Open(n)', ~(n = v /\ task[t].wire = "done") PROVE Open(n)
  <2>1. CASE (next <= n)'
    BY Zenon, <1>1, <2>1 DEF Open
  <2>2. CASE ByTask(n)'
    BY Zenon, <1>4, <2>2 DEF ByTask, Open
  <2>3. CASE ByDrain(n)' /\ n # v
    BY Zenon, <1>1, <1>3, <2>3 DEF ByDrain, Open
  <2>4. CASE n = v
    BY Zenon, <1>1, <1>7, <2>4 DEF ByTask, Open
  <2> QED
    BY Zenon, <1>7, <2>1, <2>2, <2>3, <2>4 DEF Open
<1> QED
  BY Zenon, <1>1, <1>6, <1>7, AbandonedBudget

(* Every step of a task keeps the account of the executions. *)
LEMMA StepBudget ==
    ASSUME QueueTypeOK, QueueTypeOK', Survival, OnePlace, Budget, [QueueNext]_queueVars
    PROVE  OnePlace' /\ Budget'
<1>1. ASSUME NEW t \in Tasks, BeginSave(t) PROVE OnePlace' /\ Budget'
  <2>1. /\ task[t].at = "idle" /\ next \in Saves /\ next' = next + 1 /\ next <= next'
        /\ next < next' /\ next <= next
        /\ UNCHANGED <<queue, orphans, executed, lost>>
    BY SMTT(30), <1>1, QueueBounds DEF BeginSave, CanCall, QueueTypeOK, Saves, record, history
  <2>2. /\ \A u \in Tasks \ {t} : task'[u] = task[u]
        /\ task'[t].save = next /\ task'[t].wire # "done"
    BY SMTT(30), <1>1, <2>1, QueueBounds
       DEF BeginSave, EnterDrain, QueueTypeOK, AfterDrain, Awaiting, None, Saves
  <2>3. OnePlace' /\ \A n \in Saves : Open(n)' => Open(n)
    BY Zenon, <2>1, <2>2, BeginBudget
  <2> QED
    BY Zenon, <2>1, <2>3, NothingOpened
<1>2. ASSUME NEW t \in Tasks, BeginDrain(t) \/ BeginGet(t) PROVE OnePlace' /\ Budget'
  <2>1. /\ task[t].at = "idle" /\ UNCHANGED <<queue, next, orphans, executed, lost>>
        /\ next <= next'
    BY SMTT(30), <1>2, QueueBounds DEF BeginDrain, BeginGet, CanCall, QueueTypeOK, record, bounds, history
  <2>2. /\ \A u \in Tasks \ {t} : task'[u] = task[u]
        /\ task'[t].save = None /\ task'[t].wire # "done"
    BY SMTT(30), <1>2 DEF BeginDrain, BeginGet, EnterDrain, QueueTypeOK, Awaiting
  <2>3. OnePlace' /\ \A n \in Saves : Open(n)' => Open(n)
    BY Zenon, <2>1, <2>2, BeginBudget
  <2> QED
    BY Zenon, <2>1, <2>3, NothingOpened
<1>3. ASSUME NEW t \in Tasks, Refuse(t) PROVE OnePlace' /\ Budget'
  <2>1. /\ task'[t].at = task[t].at /\ task'[t].save = task[t].save
        /\ task'[t].value = task[t].value /\ task[t].wire # "done"
        /\ \A u \in Tasks \ {t} : task'[u] = task[u]
        /\ UNCHANGED <<queue, next, orphans, executed, lost>>
    <3>1. /\ task[t].wire = "sent" /\ task' = [task EXCEPT ![t].wire = "refused"]
          /\ UNCHANGED <<queue, next, orphans, executed, lost>>
      BY Zenon, <1>3 DEF Refuse, record
    <3>2. task \in [Tasks -> TaskStates]
      BY Zenon DEF QueueTypeOK
    <3> QED
      BY Zenon, <3>1, <3>2 DEF TaskStates
  <2>2. OnePlace' /\ \A n \in Saves : Open(n)' => Open(n)
    BY Zenon, <2>1, TaskStays
  <2> QED
    BY Zenon, <2>1, <2>2, NothingOpened
<1>4. ASSUME NEW t \in Tasks, CommandAnswered(t) \/ Mirror(t) PROVE OnePlace' /\ Budget'
  <2>1. /\ task[t].at # "drain" /\ ~Busy(task'[t]) /\ task'[t].at # "drain"
        /\ \A u \in Tasks \ {t} : task'[u] = task[u]
        /\ UNCHANGED <<queue, next, orphans, executed, lost>>
    <3>1. CASE CommandAnswered(t)
      <4>1. task[t].at = "command" /\ task[t] \in TaskStates
        BY Zenon, <3>1 DEF CommandAnswered, QueueTypeOK
      <4>2. \/ task'[t] = IdleTask
            \/ task'[t] = [task[t] EXCEPT !.at = "mirror", !.wire = "none"]
        BY Zenon, <3>1 DEF CommandAnswered, QueueTypeOK
      <4>3. task'[t].at \in {"idle", "mirror"}
        <5>1. CASE task'[t] = IdleTask
          BY SMTT(30), <5>1 DEF IdleTask
        <5>2. CASE task'[t] = [task[t] EXCEPT !.at = "mirror", !.wire = "none"]
          <6>1. [task[t] EXCEPT !.at = "mirror", !.wire = "none"].at = "mirror"
            BY Zenon, <4>1 DEF TaskStates
          <6> QED
            BY Zenon, <5>2, <6>1
        <5> QED
          BY Zenon, <4>2, <5>1, <5>2
      <4> QED
        BY Zenon, <3>1, <4>1, <4>3 DEF CommandAnswered, QueueTypeOK, Busy, record, bounds, history
    <3>2. CASE Mirror(t)
      BY Zenon, <3>2 DEF Mirror, QueueTypeOK, IdleTask, Busy, record
    <3> QED
      BY Zenon, <1>4, <3>1, <3>2
  <2>2. OnePlace' /\ \A n \in Saves : Open(n)' => Open(n)
    BY Zenon, <2>1, TaskLeaves
  <2> QED
    BY Zenon, <2>1, <2>2, NothingOpened
<1>5. ASSUME NEW t \in Tasks, \/ DrainFault(t) \/ Cancel(t)
                              \/ CommandFault(t) /\ IsGet(t)
      PROVE  OnePlace' /\ Budget'
  <2>1. /\ Abandon(t) /\ UNCHANGED <<queue, next, executed>>
        /\ \A u \in Tasks \ {t} : task'[u] = task[u]
    BY Zenon, <1>5 DEF DrainFault, Cancel, CommandFault, QueueTypeOK, record
  <2>2. /\ task'[t].at # "drain"
        /\ Busy(task'[t]) => task[t].at = "drain" /\ task'[t].save = task[t].save
    BY SMTT(30), <1>5 DEF DrainFault, Cancel, CommandFault, QueueTypeOK, AfterDrain, Awaiting, IdleTask, Busy
  <2>3. /\ OnePlace'
        /\ \A n \in Saves : Open(n)' =>
               \/ Open(n)
               \/ n = task[t].value /\ task[t].wire = "done" /\ task[t].at = "drain"
    BY Zenon, <2>1, <2>2, TaskLeaves
  <2> QED
    BY Zenon, <2>1, <2>3, AbandonedBudget DEF IsGet
<1>6. CASE ExecuteOrphan
  <2>1. PICK v \in orphans : orphans' = orphans \ {v} /\ Run(v)
    BY Zenon, <1>6 DEF ExecuteOrphan
  <2>2. UNCHANGED <<queue, task, next, lost>> /\ v \in Saves
    BY Zenon, <1>6 DEF ExecuteOrphan, bounds, history, QueueTypeOK
  <2>3. OnePlace' /\ \A n \in Saves : Open(n)' <=> Open(n)
    BY Zenon, <2>2 DEF OnePlace, Distinct, Open, ByTask, ByDrain
  <2>4. ASSUME NEW n \in Saves
        PROVE  executed'[n] + One(n \in orphans') + One(Open(n)') <= 1 + lost'[n]
    <3>1. executed[n] + One(n \in orphans) + One(Open(n)) <= 1 + lost[n]
      BY Zenon DEF Budget
    <3>2. executed[n] \in Nat /\ lost[n] \in Nat
      BY Zenon DEF QueueTypeOK
    <3>3. executed'[n] = IF n = v THEN executed[n] + 1 ELSE executed[n]
      BY Zenon, <2>1, <2>2, RunAdds
    <3> QED
      BY SMTT(30), <2>1, <2>2, <2>3, <3>1, <3>2, <3>3 DEF One
  <2> QED
    BY Zenon, <2>3, <2>4 DEF Budget
<1>7. CASE RivalSave \/ UNCHANGED queueVars
  <2>1. UNCHANGED <<queue, task, next, lost, orphans>>
    BY Zenon, <1>7 DEF RivalSave, queueVars, bounds, history
  <2>2. OnePlace' /\ \A n \in Saves : Open(n)' => Open(n)
    BY Zenon, <2>1 DEF OnePlace, Distinct, Open, ByTask, ByDrain
  <2>3. \A n \in Saves : executed'[n] = executed[n]
    <3>1. \A n \in Saves : n \notin RivalValues
      BY SMTT(30), QueueBounds DEF Saves, RivalValues
    <3> QED
      BY Zenon, <1>7, <3>1, RunAdds DEF RivalSave, queueVars, record
  <2> QED
    BY Zenon, <2>1, <2>2, <2>3, NothingOpened
<1> QED
  BY Zenon, <1>1, <1>2, <1>3, <1>4, <1>5, <1>6, <1>7, ExecuteBudget, DrainAnsweredBudget, QueuedBudget
     DEF QueueNext

(***************************************************************************)
(* The node executes a save once, and once more at most for every attempt  *)
(* whose answer the client never saw: concurrent drains, however many,     *)
(* never replay one operation twice (the reentrancy guard of drain).       *)
(***************************************************************************)
THEOREM RepeatsOnlyForLostAnswers == QueueSpec => []RepeatsAreLostAnswers
<1>1. QueueInit => QueueInv
  <2> SUFFICES ASSUME QueueInit PROVE OnePlace /\ Budget
    BY Zenon, InitSurvival DEF QueueInv
  <2>1. Range(queue) = {} /\ \A t \in Tasks : ~Busy(task[t])
    BY SMTT(30) DEF QueueInit, Range, Busy, IdleTask
  <2>2. OnePlace
    BY SMTT(30), <2>1 DEF OnePlace, Distinct, QueueInit
  <2>3. Budget
    BY SMTT(30) DEF Budget, One, QueueInit
  <2> QED
    BY Zenon, <2>2, <2>3
<1>2. QueueInv /\ [QueueNext]_queueVars => QueueInv'
  BY Zenon, StepSurvives, StepBudget DEF QueueInv
<1>3. QueueInv => RepeatsAreLostAnswers
  <2> SUFFICES ASSUME QueueInv, NEW n \in Saves PROVE executed[n] <= 1 + lost[n]
    BY Zenon DEF RepeatsAreLostAnswers
  <2>1. executed[n] + One(n \in orphans) + One(Open(n)) <= 1 + lost[n]
    BY Zenon DEF QueueInv, Budget
  <2>2. executed[n] \in Nat /\ lost[n] \in Nat
    BY Zenon DEF QueueInv, QueueTypeOK
  <2> QED
    BY SMTT(30), <2>1, <2>2 DEF One
<1> QED
  BY <1>1, <1>2, <1>3, PTL DEF QueueSpec
=============================================================================
