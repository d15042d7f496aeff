------------------------ MODULE TerminalLifecycleProofs ------------------------
(***************************************************************************)
(* Once a kill has run, nothing begun before it brings the terminal back,  *)
(* and a live session owns its row, for any number of creates, PTYs,       *)
(* sequence numbers and failures.                                          *)
(*                                                                         *)
(* The fence works because a dispose marks every create in flight and the  *)
(* mark goes only with the last of them: the queue says which creates are  *)
(* in flight, and createsInFlight counts it (Queueing).  An adopt may      *)
(* begin after the kill and is not marked; the stamp on the row stops it.  *)
(***************************************************************************)
EXTENDS TerminalLifecycle, SequenceTheorems, TLAPS

(* The records of the host's state.                                        *)
Sessions == [pty : Ptys, exited : BOOLEAN, replay : {"pending", "ready", "failed"}]
Disposes ==
  [phase : {"idle", "waiting", "closing", "closed", "failed",
            "byId", "byIdClosed", "byIdFailed"},
   hadRow : BOOLEAN, target : Ptys \cup {None}]
Reaps ==
  [phase : {"idle", "listing", "listed", "orphan", "disposing", "correcting"},
   alive : BOOLEAN, active : BOOLEAN, rowless : BOOLEAN, same : BOOLEAN]
Memories == [rowless : BOOLEAN, absent : BOOLEAN, listed : BOOLEAN]
Rows == [status : Statuses, stamp : BOOLEAN]
USE DEF Sessions, Disposes, Reaps, Memories

CallTyped ==
  /\ lifecycleSeq \in 0..MaxSeq /\ createsInFlight \in Nat /\ lastDisposeSeq \in 0..MaxSeq
  /\ queue \in Seq(Callers) /\ step \in [Callers -> Steps]
  /\ createSeq \in [Callers -> 0..MaxSeq] /\ found \in [Callers -> Ptys \cup {None}]
  /\ attach \in {"idle", "adopt", "respawn"}

HostTyped ==
  /\ row \in {None} \cup Rows
  /\ session \in {None} \cup Sessions
  /\ dispose \in Disposes
  /\ reaper \in Reaps
  /\ memory \in Memories
  /\ wish \in {"open", "killed"}
DaemonTyped ==
  /\ up \in BOOLEAN /\ entry \in Ptys \cup {None} /\ closed \in BOOLEAN
  /\ spawned \in SUBSET Ptys /\ subscribed \in BOOLEAN
  /\ requests \in Seq(Requests) /\ faults \in 0..MaxFaults

(* An open that succeeded names its PTY.                                   *)
Sound == {m \in Replies : m.kind = "open-ok" => m.pty # None}

(* The queue holds the creates in flight, each once, its head running, and *)
(* createsInFlight counts them, an attach twice.                           *)
Units(k) == IF k = "attach" THEN 2 ELSE 1
Queueing ==
  /\ \A k \in Callers : step[k] # "idle" <=> \E i \in 1..Len(queue) : queue[i] = k
  /\ \A i, j \in 1..Len(queue) : queue[i] = queue[j] => i = j
  /\ \A k \in Callers : step[k] \notin {"idle", "queued"} => k = queue[1]
  /\ createsInFlight = Len(queue) + IF attach = "idle" THEN 0 ELSE 1
  /\ attach # "idle" <=> "attach" \in Callers /\ step["attach"] # "idle"
  /\ lastDisposeSeq <= lifecycleSeq /\ \A k \in Callers : createSeq[k] <= lifecycleSeq

(* An adopt opens nothing; what was opened is known.                       *)
Adopting == {"idle", "queued", "env", "list", "listed", "revoke", "failed"}
Holding ==
  /\ \A k \in Callers : step[k] = "opened" => found[k] # None
  /\ "adopt" \in Callers => step["adopt"] \in Adopting

Calls == CallTyped /\ Queueing /\ Holding

(* After a kill the terminal is gone, or will be when the attach it waits  *)
(* for returns; creates still in flight are behind the fence, an adopt     *)
(* behind the stamp.                                                       *)
Buried == session = None /\ Lifecycle(row) = "disposed"
KillInv ==
  wish = "killed" =>
    /\ row # None /\ (dispose.phase = "waiting" \/ Buried)
    /\ \A k \in Callers : k # "adopt" /\ step[k] # "idle" => DisposedAfter(k)

IInv == Calls /\ HostTyped /\ DaemonTyped /\ replies \in Seq(Sound) /\ KillInv

-----------------------------------------------------------------------------
(* Sequences.                                                              *)

LEMMA TailFacts ==
  ASSUME NEW S, NEW s \in Seq(S), s # <<>>
  PROVE  /\ Head(s) \in S /\ Head(s) = s[1] /\ Tail(s) \in Seq(S)
         /\ Len(s) \in Nat \ {0} /\ Len(Tail(s)) = Len(s) - 1
         /\ \A i \in 1..(Len(s) - 1) : Tail(s)[i] = s[i + 1]
  BY HeadTailProperties

LEMMA AppendFacts ==
  ASSUME NEW S, NEW s \in Seq(S), NEW e \in S
  PROVE  /\ Append(s, e) \in Seq(S) /\ Len(s) \in Nat
         /\ Len(Append(s, e)) = Len(s) + 1
         /\ \A i \in 1..Len(s) : Append(s, e)[i] = s[i]
         /\ Append(s, e)[Len(s) + 1] = e
  BY AppendProperties

-----------------------------------------------------------------------------
(* The queue and the fence.                                                *)

(* No create appears, and none that stays loses its mark.                  *)
Kept ==
  \A j \in Callers :
    step'[j] # "idle" => /\ step[j] # "idle" /\ createSeq'[j] = createSeq[j]
                         /\ lastDisposeSeq' >= lastDisposeSeq

(* A create that has been started is the head of the queue.                *)
LEMMA Running ==
  ASSUME Calls, NEW k \in Callers,
         (step[k] \notin {"idle", "queued"}) \/ (step[k] # "idle" /\ k = Head1)
  PROVE  queue # <<>> /\ queue[1] = k /\ Head1 = k /\ step[k] # "idle"
<1>1. queue \in Seq(Callers) /\ step[k] # "idle"
  BY DEF Calls, CallTyped
<1>2. \E i \in 1..Len(queue) : queue[i] = k
  BY <1>1 DEF Calls, Queueing
<1>3. queue # <<>>
  BY <1>1, <1>2
<1>4. Head1 = queue[1]
  BY <1>1, <1>3, TailFacts DEF Head1
<1> QED
  BY <1>1, <1>3, <1>4 DEF Calls, Queueing

LEMMA CallsStay ==
  ASSUME Calls, UNCHANGED <<fenceVars, queue, createSeq, attach>>,
         step' \in [Callers -> Steps], found' \in [Callers -> Ptys \cup {None}],
         \A k \in Callers : step'[k] = "idle" <=> step[k] = "idle",
         \A k \in Callers : step'[k] \notin {"idle", "queued"} => k = queue[1],
         Holding'
  PROVE  Calls' /\ Kept
<1>1. CallTyped'
  BY DEF Calls, CallTyped, fenceVars
<1>2. /\ UNCHANGED <<lifecycleSeq, createsInFlight, lastDisposeSeq, queue, createSeq, attach>>
      /\ lastDisposeSeq \in Nat
  BY DEF fenceVars, Calls, CallTyped
<1>3. Queueing'
  BY <1>2 DEF Calls, Queueing
<1>4. Kept
  BY <1>2 DEF Kept
<1> QED
  BY <1>1, <1>3, <1>4 DEF Calls

LEMMA StepMoves ==
  ASSUME Calls, NEW k \in Callers, queue # <<>>, queue[1] = k, step[k] # "idle",
         NEW s \in Steps, s \notin {"idle", "queued", "opened"}, k = "adopt" => s \in Adopting,
         step' = [step EXCEPT ![k] = s], UNCHANGED <<fenceVars, queue, createSeq, found, attach>>
  PROVE  Calls' /\ Kept
<1>1. /\ step \in [Callers -> Steps] /\ found \in [Callers -> Ptys \cup {None}]
  BY DEF Calls, CallTyped
<1>2. /\ step' \in [Callers -> Steps] /\ step'[k] = s
      /\ \A j \in Callers : j # k => step'[j] = step[j]
  BY <1>1
<1>3. Holding'
  BY <1>2 DEF Calls, Holding
<1>4. \A j \in Callers : /\ step'[j] = "idle" <=> step[j] = "idle"
                         /\ step'[j] \notin {"idle", "queued"} => j = queue[1]
  BY <1>2 DEF Calls, Queueing
<1> QED
  BY <1>1, <1>2, <1>3, <1>4, CallsStay

LEMMA EndWorkFacts ==
  ASSUME Calls, NEW n \in 1..2, n <= createsInFlight, EndWork(n)
  PROVE  /\ createsInFlight' = createsInFlight - n /\ lifecycleSeq' = lifecycleSeq
         /\ createsInFlight' \in Nat /\ lastDisposeSeq' \in 0..MaxSeq
         /\ lastDisposeSeq' <= lifecycleSeq'
         /\ lastDisposeSeq' = lastDisposeSeq \/ createsInFlight = n
<1>1. createsInFlight \in Nat /\ lastDisposeSeq \in 0..MaxSeq /\ lifecycleSeq \in 0..MaxSeq
  BY DEF Calls, CallTyped
<1>2. lastDisposeSeq <= lifecycleSeq /\ MaxSeq \in Nat
  BY BoundsAssumption DEF Calls, Queueing
<1> QED
  BY <1>1, <1>2 DEF EndWork

(* The running create returns, or an attach goes to the end of the queue.  *)
LEMMA ReturnsFacts ==
  ASSUME Calls, NEW k \in Callers, queue # <<>>, queue[1] = k, step[k] # "idle",
         NEW outcome, Returns(k, outcome)
  PROVE  Calls' /\ Kept
<1>1. /\ queue \in Seq(Callers) /\ step \in [Callers -> Steps]
      /\ attach \in {"idle", "adopt", "respawn"}
      /\ createSeq \in [Callers -> 0..MaxSeq] /\ found \in [Callers -> Ptys \cup {None}]
      /\ lifecycleSeq \in 0..MaxSeq /\ lastDisposeSeq \in 0..MaxSeq /\ createsInFlight \in Nat
  BY DEF Calls, CallTyped
<1>2. PICK l \in Nat \ {0} :
        /\ l = Len(queue) /\ Head(queue) = k /\ Tail(queue) \in Seq(Callers)
        /\ Len(Tail(queue)) = l - 1
        /\ \A i \in 1..(l - 1) : Tail(queue)[i] = queue[i + 1]
  BY <1>1, TailFacts
<1>3. /\ \A j \in Callers : step[j] # "idle" <=> \E i \in 1..l : queue[i] = j
      /\ \A i, j \in 1..l : queue[i] = queue[j] => i = j
      /\ \A j \in Callers : step[j] \notin {"idle", "queued"} => j = k
      /\ createsInFlight = l + (IF attach = "idle" THEN 0 ELSE 1)
      /\ attach # "idle" <=> "attach" \in Callers /\ step["attach"] # "idle"
      /\ lastDisposeSeq <= lifecycleSeq /\ \A j \in Callers : createSeq[j] <= lifecycleSeq
  BY <1>2 DEF Calls, Queueing
<1>4. found' = [found EXCEPT ![k] = None] /\ found' \in [Callers -> Ptys \cup {None}]
  BY <1>1 DEF Returns
<1>5. CASE MayRespawn(k, outcome)
  <2>1. /\ queue' = Append(Tail(queue), k) /\ step' = [step EXCEPT ![k] = "queued"]
        /\ attach' = "respawn"
        /\ UNCHANGED <<createSeq, lifecycleSeq, createsInFlight, lastDisposeSeq>>
    BY <1>5 DEF Returns, fenceVars
  <2>2. attach # "idle" /\ k = "attach"
    BY <1>5 DEF MayRespawn
  <2>3. /\ queue' \in Seq(Callers) /\ Len(queue') = l /\ queue'[l] = k
        /\ \A i \in 1..(l - 1) : queue'[i] = queue[i + 1]
    BY <1>2, <2>1, AppendFacts
  <2>4. /\ step' \in [Callers -> Steps] /\ step'[k] = "queued"
        /\ \A j \in Callers : j # k => step'[j] = step[j]
    BY <1>1, <2>1 DEF Steps
  <2>5. CallTyped'
    BY <1>1, <1>4, <2>1, <2>3, <2>4 DEF CallTyped
  <2>6. \A j \in Callers : step'[j] # "idle" <=> \E i \in 1..l : queue'[i] = j
    <3> SUFFICES ASSUME NEW j \in Callers
                 PROVE  step'[j] # "idle" <=> \E i \in 1..l : queue'[i] = j
      OBVIOUS
    <3>1. CASE j = k
      BY <2>3, <2>4, <3>1
    <3>2. CASE j # k
      <4>1. ASSUME NEW i \in 1..l, queue'[i] = j
            PROVE  step[j] # "idle"
        <5>1. i \in 1..(l - 1) /\ i + 1 \in 1..l
          BY <2>3, <3>2, <4>1
        <5> QED
          BY <1>3, <2>3, <4>1, <5>1
      <4>2. ASSUME step[j] # "idle"
            PROVE  \E i \in 1..l : queue'[i] = j
        <5>1. PICK i \in 1..l : queue[i] = j
          BY <1>3, <4>2
        <5>2. i # 1
          BY <3>2, <5>1
        <5>3. i - 1 \in 1..(l - 1) /\ (i - 1) + 1 = i /\ i - 1 \in 1..l
          BY <5>2
        <5> QED
          BY <2>3, <5>1, <5>3
      <4> QED
        BY <2>4, <3>2, <4>1, <4>2
    <3> QED
      BY <3>1, <3>2
  <2>7. \A i, j \in 1..l : queue'[i] = queue'[j] => i = j
    <3>1. \A i \in 1..(l - 1) : queue'[i] # k
      <4> SUFFICES ASSUME NEW i \in 1..(l - 1), queue[i + 1] = k
                   PROVE  FALSE
        BY <2>3
      <4>1. i + 1 \in 1..l /\ 1 \in 1..l /\ i + 1 # 1
        OBVIOUS
      <4> QED
        BY <1>3, <4>1
    <3>2. ASSUME NEW i \in 1..(l - 1), NEW j \in 1..(l - 1), queue'[i] = queue'[j]
          PROVE  i = j
      <4>1. i + 1 \in 1..l /\ j + 1 \in 1..l
        OBVIOUS
      <4>2. i + 1 = j + 1
        BY <1>3, <2>3, <3>2, <4>1
      <4> QED
        BY <4>2
    <3>3. \A i \in 1..l : i = l \/ i \in 1..(l - 1)
      OBVIOUS
    <3> QED
      BY <2>3, <3>1, <3>2, <3>3
  <2>8. \A j \in Callers : step'[j] \in {"idle", "queued"}
    BY <1>3, <2>4
  <2>9. Queueing'
    <3>1. createsInFlight' = Len(queue') + IF attach' = "idle" THEN 0 ELSE 1
      BY <1>3, <2>1, <2>2, <2>3
    <3>2. attach' # "idle" <=> "attach" \in Callers /\ step'["attach"] # "idle"
      BY <2>1, <2>2, <2>4
    <3>3. lastDisposeSeq' <= lifecycleSeq' /\ \A j \in Callers : createSeq'[j] <= lifecycleSeq'
      BY <1>3, <2>1
    <3> QED
      BY <2>3, <2>6, <2>7, <2>8, <3>1, <3>2, <3>3 DEF Queueing
  <2>10. Holding'
    BY <2>8 DEF Holding, Adopting
  <2>11. Kept
    BY <1>1, <2>1, <2>4 DEF Kept
  <2> QED
    BY <2>5, <2>9, <2>10, <2>11 DEF Calls
<1>6. CASE ~MayRespawn(k, outcome)
  <2>1. /\ queue' = Tail(queue) /\ step' = [step EXCEPT ![k] = "idle"]
        /\ createSeq' = [createSeq EXCEPT ![k] = 0]
        /\ attach' = (IF k = "attach" THEN "idle" ELSE attach)
        /\ EndWork(Units(k))
    BY <1>6 DEF Returns, Units
  <2>2. /\ queue' \in Seq(Callers) /\ Len(queue') = l - 1
        /\ \A i \in 1..(l - 1) : queue'[i] = queue[i + 1]
    BY <1>2, <2>1
  <2>3. /\ step' \in [Callers -> Steps] /\ step'[k] = "idle"
        /\ \A j \in Callers : j # k => step'[j] = step[j]
    BY <1>1, <2>1 DEF Steps
  <2>4. /\ createSeq' \in [Callers -> 0..MaxSeq] /\ createSeq'[k] = 0
        /\ \A j \in Callers : j # k => createSeq'[j] = createSeq[j]
    BY <1>1, <2>1, BoundsAssumption
  <2>5. /\ Units(k) \in 1..2 /\ Units(k) <= createsInFlight
        /\ createsInFlight - Units(k) = (l - 1) + (IF attach' = "idle" THEN 0 ELSE 1)
    <3>1. k = "attach" => attach # "idle"
      BY <1>3
    <3> QED
      BY <1>3, <2>1, <3>1 DEF Units
  <2>6. /\ createsInFlight' = createsInFlight - Units(k) /\ lifecycleSeq' = lifecycleSeq
        /\ createsInFlight' \in Nat /\ lastDisposeSeq' \in 0..MaxSeq
        /\ lastDisposeSeq' <= lifecycleSeq'
        /\ lastDisposeSeq' = lastDisposeSeq \/ createsInFlight = Units(k)
    BY <2>1, <2>5, EndWorkFacts
  <2>7. CallTyped'
    BY <1>1, <1>4, <2>1, <2>2, <2>3, <2>4, <2>6 DEF CallTyped
  <2>8. \A j \in Callers : step'[j] # "idle" <=> \E i \in 1..(l - 1) : queue'[i] = j
    <3> SUFFICES ASSUME NEW j \in Callers
                 PROVE  step'[j] # "idle" <=> \E i \in 1..(l - 1) : queue'[i] = j
      OBVIOUS
    <3>1. CASE j = k
      <4> SUFFICES ASSUME NEW i \in 1..(l - 1), queue[i + 1] = k
                   PROVE  FALSE
        BY <2>2, <2>3, <3>1
      <4>1. i + 1 \in 1..l /\ 1 \in 1..l /\ i + 1 # 1
        OBVIOUS
      <4> QED
        BY <1>3, <4>1
    <3>2. CASE j # k
      <4>1. ASSUME NEW i \in 1..(l - 1), queue'[i] = j
            PROVE  step[j] # "idle"
        <5>1. i + 1 \in 1..l
          OBVIOUS
        <5> QED
          BY <1>3, <2>2, <4>1, <5>1
      <4>2. ASSUME step[j] # "idle"
            PROVE  \E i \in 1..(l - 1) : queue'[i] = j
        <5>1. PICK i \in 1..l : queue[i] = j
          BY <1>3, <4>2
        <5>2. i # 1
          BY <3>2, <5>1
        <5>3. i - 1 \in 1..(l - 1) /\ (i - 1) + 1 = i
          BY <5>2
        <5> QED
          BY <2>2, <5>1, <5>3
      <4> QED
        BY <2>3, <3>2, <4>1, <4>2
    <3> QED
      BY <3>1, <3>2
  <2>9. ASSUME NEW i \in 1..(l - 1), NEW j \in 1..(l - 1), queue'[i] = queue'[j]
        PROVE  i = j
    <3>1. i + 1 \in 1..l /\ j + 1 \in 1..l
      OBVIOUS
    <3>2. i + 1 = j + 1
      BY <1>3, <2>2, <2>9, <3>1
    <3> QED
      BY <3>2
  <2>10. \A j \in Callers : step'[j] \in {"idle", "queued"}
    BY <1>3, <2>3
  <2>11. attach' # "idle" <=> "attach" \in Callers /\ step'["attach"] # "idle"
    BY <1>3, <2>1, <2>3
  <2>12. \A j \in Callers : createSeq'[j] <= lifecycleSeq'
    BY <1>1, <1>3, <2>4, <2>6
  <2>13. Queueing'
    BY <2>2, <2>5, <2>6, <2>8, <2>9, <2>10, <2>11, <2>12 DEF Queueing
  <2>14. Holding'
    BY <2>10 DEF Holding, Adopting
  <2>15. Kept
    <3>1. CASE lastDisposeSeq' = lastDisposeSeq
      BY <1>1, <2>3, <2>4, <3>1 DEF Kept
    <3>2. CASE createsInFlight = Units(k)
      <4>1. l = 1
        <5>1. k = "attach" => attach # "idle"
          BY <1>3
        <5> QED
          BY <1>3, <3>2, <5>1 DEF Units
      <4>2. \A j \in Callers : step'[j] = "idle"
        BY <2>8, <4>1
      <4> QED
        BY <4>2 DEF Kept
    <3> QED
      BY <2>6, <3>1, <3>2
  <2> QED
    BY <2>7, <2>13, <2>14, <2>15 DEF Calls
<1> QED
  BY <1>5, <1>6

(* A create begins; the others are as marked as they were.                 *)
LEMMA EnqueueFacts ==
  ASSUME Calls, NEW k \in Callers, Enqueue(k, Units(k)),
         attach' = IF k = "attach" THEN "adopt" ELSE attach
  PROVE  /\ Calls' /\ lastDisposeSeq' = lastDisposeSeq
         /\ \A j \in Callers : j # k => step'[j] = step[j] /\ createSeq'[j] = createSeq[j]
<1>1. /\ queue \in Seq(Callers) /\ step \in [Callers -> Steps]
      /\ attach \in {"idle", "adopt", "respawn"}
      /\ createSeq \in [Callers -> 0..MaxSeq] /\ found \in [Callers -> Ptys \cup {None}]
      /\ lifecycleSeq \in 0..MaxSeq /\ lastDisposeSeq \in 0..MaxSeq /\ createsInFlight \in Nat
      /\ MaxSeq \in Nat
  BY BoundsAssumption DEF Calls, CallTyped
<1>2. PICK l \in Nat :
        /\ l = Len(queue) /\ Append(queue, k) \in Seq(Callers) /\ Len(Append(queue, k)) = l + 1
        /\ \A i \in 1..l : Append(queue, k)[i] = queue[i]
        /\ Append(queue, k)[l + 1] = k
  BY <1>1, AppendFacts
<1>3. /\ \A j \in Callers : step[j] # "idle" <=> \E i \in 1..l : queue[i] = j
      /\ \A i, j \in 1..l : queue[i] = queue[j] => i = j
      /\ \A j \in Callers : step[j] \notin {"idle", "queued"} => j = queue[1]
      /\ createsInFlight = l + (IF attach = "idle" THEN 0 ELSE 1)
      /\ attach # "idle" <=> "attach" \in Callers /\ step["attach"] # "idle"
      /\ lastDisposeSeq <= lifecycleSeq /\ \A j \in Callers : createSeq[j] <= lifecycleSeq
  BY <1>2 DEF Calls, Queueing
<1>4. /\ step[k] = "idle" /\ lifecycleSeq < MaxSeq /\ lifecycleSeq' = lifecycleSeq + 1
      /\ createSeq' = [createSeq EXCEPT ![k] = lifecycleSeq + 1]
      /\ createsInFlight' = createsInFlight + Units(k)
      /\ queue' = Append(queue, k) /\ step' = [step EXCEPT ![k] = "queued"]
      /\ UNCHANGED <<lastDisposeSeq, found>>
  BY DEF Enqueue
<1>5. /\ step' \in [Callers -> Steps] /\ step'[k] = "queued"
      /\ \A j \in Callers : j # k => step'[j] = step[j]
  BY <1>1, <1>4 DEF Steps
<1>6. /\ createSeq' \in [Callers -> 0..MaxSeq] /\ createSeq'[k] = lifecycleSeq'
      /\ \A j \in Callers : j # k => createSeq'[j] = createSeq[j]
      /\ lifecycleSeq' \in 0..MaxSeq
  BY <1>1, <1>4
<1>7. /\ queue' \in Seq(Callers) /\ Len(queue') = l + 1 /\ queue'[l + 1] = k
      /\ \A i \in 1..l : queue'[i] = queue[i]
  BY <1>2, <1>4
<1>8. CallTyped'
  <2>1. createsInFlight' \in Nat
    BY <1>1, <1>4 DEF Units
  <2> QED
    BY <1>1, <1>4, <1>5, <1>6, <1>7, <2>1 DEF CallTyped
<1>9. \A j \in Callers : step'[j] # "idle" <=> \E i \in 1..(l + 1) : queue'[i] = j
  <2> SUFFICES ASSUME NEW j \in Callers
               PROVE  step'[j] # "idle" <=> \E i \in 1..(l + 1) : queue'[i] = j
    OBVIOUS
  <2>1. CASE j = k
    <3>1. l + 1 \in 1..(l + 1)
      OBVIOUS
    <3> QED
      BY <1>5, <1>7, <2>1, <3>1
  <2>2. CASE j # k
    <3>1. \A i \in 1..(l + 1) : i = l + 1 \/ i \in 1..l
      OBVIOUS
    <3>2. \A i \in 1..l : i \in 1..(l + 1)
      OBVIOUS
    <3> QED
      BY <1>3, <1>5, <1>7, <2>2, <3>1, <3>2
  <2> QED
    BY <2>1, <2>2
<1>10. \A i, j \in 1..(l + 1) : queue'[i] = queue'[j] => i = j
  <2>1. \A i \in 1..l : queue'[i] # k
    BY <1>3, <1>4, <1>7
  <2>2. \A i \in 1..(l + 1) : i = l + 1 \/ i \in 1..l
    OBVIOUS
  <2>3. \A i, j \in 1..l : queue'[i] = queue'[j] => i = j
    BY <1>3, <1>7
  <2> QED
    BY <1>7, <2>1, <2>2, <2>3
<1>11. \A j \in Callers : step'[j] \notin {"idle", "queued"} => j = queue'[1]
  <2> SUFFICES ASSUME NEW j \in Callers, step'[j] \notin {"idle", "queued"}
               PROVE  j = queue'[1]
    OBVIOUS
  <2>1. j # k /\ step[j] = step'[j]
    BY <1>5
  <2>2. PICK i \in 1..l : queue[i] = j
    BY <1>3, <2>1
  <2>3. 1 \in 1..l
    OBVIOUS
  <2> QED
    BY <1>3, <1>7, <2>1, <2>3
<1>12. /\ attach' # "idle" <=> "attach" \in Callers /\ step'["attach"] # "idle"
       /\ createsInFlight' = (l + 1) + (IF attach' = "idle" THEN 0 ELSE 1)
  <2>1. CASE k = "attach"
    BY <1>1, <1>3, <1>4, <1>5, <2>1 DEF Units
  <2>2. CASE k # "attach"
    BY <1>1, <1>3, <1>4, <1>5, <2>2 DEF Units
  <2> QED
    BY <2>1, <2>2
<1>13. lastDisposeSeq' <= lifecycleSeq' /\ \A j \in Callers : createSeq'[j] <= lifecycleSeq'
  BY <1>1, <1>3, <1>4, <1>6
<1>14. Queueing'
  BY <1>7, <1>9, <1>10, <1>11, <1>12, <1>13 DEF Queueing
<1>15. Holding'
  BY <1>4, <1>5 DEF Calls, Holding, Adopting
<1> QED
  BY <1>4, <1>5, <1>6, <1>8, <1>14, <1>15 DEF Calls

(* A dispose marks every create in flight.                                 *)
LEMMA MarkFacts ==
  ASSUME Calls, MarkDispose, UNCHANGED callVars
  PROVE  /\ Calls' /\ Kept
         /\ \A k \in Callers : step'[k] # "idle" => lastDisposeSeq' > createSeq'[k]
<1>1. /\ UNCHANGED <<queue, step, createSeq, found, attach>>
      /\ queue \in Seq(Callers) /\ createSeq \in [Callers -> 0..MaxSeq]
      /\ lifecycleSeq \in 0..MaxSeq /\ lastDisposeSeq \in 0..MaxSeq /\ createsInFlight \in Nat
      /\ MaxSeq \in Nat
  BY BoundsAssumption DEF Calls, CallTyped, callVars
<1>2. lastDisposeSeq <= lifecycleSeq /\ \A k \in Callers : createSeq[k] <= lifecycleSeq
  BY DEF Calls, Queueing
<1>3. /\ lifecycleSeq' \in 0..MaxSeq /\ lastDisposeSeq' \in 0..MaxSeq
      /\ createsInFlight' = createsInFlight /\ lastDisposeSeq' >= lastDisposeSeq
      /\ lastDisposeSeq' <= lifecycleSeq' /\ lifecycleSeq' >= lifecycleSeq
      /\ createsInFlight = 0 \/ lastDisposeSeq' = lifecycleSeq + 1
  BY <1>1, <1>2 DEF MarkDispose, fenceVars
<1>4. \A k \in Callers : createSeq'[k] <= lifecycleSeq'
  BY <1>1, <1>2, <1>3
<1>5. CallTyped'
  BY <1>1, <1>3 DEF Calls, CallTyped
<1>6. Queueing' /\ Holding'
  BY <1>1, <1>3, <1>4 DEF Calls, Queueing, Holding
<1>7. Kept
  BY <1>1, <1>3 DEF Kept
<1>8. \A k \in Callers : step'[k] # "idle" => lastDisposeSeq' > createSeq'[k]
  <2>1. CASE createsInFlight = 0
    <3>1. Len(queue) = 0
      BY <1>1, <2>1 DEF Calls, Queueing
    <3>2. \A k \in Callers : step[k] = "idle"
      BY <3>1 DEF Calls, Queueing
    <3> QED
      BY <1>1, <3>2
  <2>2. CASE lastDisposeSeq' = lifecycleSeq + 1
    BY <1>1, <1>2, <2>2
  <2> QED
    BY <1>3, <2>1, <2>2
<1> QED
  BY <1>5, <1>6, <1>7, <1>8 DEF Calls

-----------------------------------------------------------------------------
(* The steps, one lemma per kind.                                          *)

(* What a step owes the kill: the terminal stays buried, or is yet to be.  *)
StillKilled == row' # None /\ (dispose'.phase = "waiting" \/ Buried')

LEMMA KillStays ==
  ASSUME Calls, Calls', Kept, KillInv, wish' \in {wish, "open"}, wish = "killed" => StillKilled
  PROVE  KillInv'
<1> SUFFICES ASSUME wish' = "killed", NEW k \in Callers, k # "adopt", step'[k] # "idle"
             PROVE  DisposedAfter(k)'
  BY DEF KillInv, StillKilled
<1>1. /\ wish = "killed" /\ step[k] # "idle" /\ createSeq'[k] = createSeq[k]
      /\ lastDisposeSeq' >= lastDisposeSeq
  BY DEF Kept
<1>2. lastDisposeSeq > createSeq[k]
  BY <1>1 DEF KillInv, DisposedAfter
<1>3. createSeq[k] \in 0..MaxSeq /\ lastDisposeSeq \in 0..MaxSeq /\ MaxSeq \in Nat
  BY BoundsAssumption DEF Calls, CallTyped
<1>4. lastDisposeSeq' \in 0..MaxSeq
  BY DEF Calls, CallTyped
<1> QED
  BY <1>1, <1>2, <1>3, <1>4 DEF DisposedAfter

(* A step that leaves the row, the session and the dispose alone.          *)
LEMMA KillUntouched ==
  ASSUME Calls, Calls', Kept, KillInv, UNCHANGED <<row, session, dispose, wish>>
  PROVE  KillInv'
<1>1. wish = "killed" => StillKilled
  BY DEF KillInv, StillKilled, Buried
<1> QED
  BY <1>1, KillStays

LEMMA BeginOpenStep ==
  ASSUME IInv, NEW o \in Openers, BeginOpen(o)
  PROVE  IInv'
<1>1. o \in Callers /\ o # "attach" /\ o # "adopt"
  BY NamesAssumption DEF Callers
<1>2. Enqueue(o, Units(o)) /\ attach' = (IF o = "attach" THEN "adopt" ELSE attach)
  BY <1>1 DEF BeginOpen, Units
<1>3. Calls'
  BY <1>1, <1>2, EnqueueFacts DEF IInv
<1>4. HostTyped' /\ DaemonTyped' /\ replies' \in Seq(Sound) /\ wish' = "open"
  BY DEF IInv, BeginOpen, HostTyped, DaemonTyped, reapVars, daemonVars, wireVars
<1>5. KillInv'
  BY <1>4 DEF KillInv
<1> QED
  BY <1>3, <1>4, <1>5 DEF IInv

(* No attach begins after a kill: the terminal is buried, its row          *)
(* disposed.                                                               *)
LEMMA BeginAttachStep ==
  ASSUME IInv, BeginAttach
  PROVE  IInv'
<1>1. "attach" \in Callers
  BY DEF Callers, BeginAttach
<1>2. Enqueue("attach", Units("attach")) /\ attach' = "adopt"
  BY DEF BeginAttach, Units
<1>3. Calls'
  BY <1>1, <1>2, EnqueueFacts DEF IInv
<1>4. HostTyped' /\ DaemonTyped' /\ replies' \in Seq(Sound) /\ wish' = wish
  BY DEF IInv, BeginAttach, HostTyped, DaemonTyped, reapVars, daemonVars, wireVars
<1>5. dispose.phase # "waiting" /\ Lifecycle(row) # "disposed"
  BY DEF BeginAttach, Settled
<1>6. wish # "killed"
  BY <1>5 DEF IInv, KillInv, Buried
<1>7. KillInv'
  BY <1>4, <1>6 DEF KillInv
<1> QED
  BY <1>3, <1>4, <1>7 DEF IInv

LEMMA BeginAdoptStep ==
  ASSUME IInv, BeginAdopt
  PROVE  IInv'
<1>1. "adopt" \in Callers
  BY DEF Callers, BeginAdopt
<1>2. Enqueue("adopt", Units("adopt")) /\ attach' = attach
  BY DEF BeginAdopt, Units
<1>3. /\ Calls' /\ lastDisposeSeq' = lastDisposeSeq
      /\ \A j \in Callers : j # "adopt" => step'[j] = step[j] /\ createSeq'[j] = createSeq[j]
  BY <1>1, <1>2, EnqueueFacts DEF IInv
<1>4. /\ HostTyped' /\ DaemonTyped' /\ replies' \in Seq(Sound)
      /\ UNCHANGED <<row, session, dispose, wish>>
  BY DEF IInv, BeginAdopt, HostTyped, DaemonTyped, reapVars, daemonVars, wireVars
<1>5. KillInv'
  BY <1>3, <1>4 DEF IInv, KillInv, Buried, DisposedAfter
<1> QED
  BY <1>3, <1>4, <1>5 DEF IInv

LEMMA FaultCounted ==
  ASSUME DaemonTyped, Fault
  PROVE  faults' \in 0..MaxFaults
<1>1. faults \in 0..MaxFaults /\ MaxFaults \in Nat /\ faults < MaxFaults /\ faults' = faults + 1
  BY BoundsAssumption DEF DaemonTyped, Fault
<1> QED
  BY <1>1

(* A continuation that leaves the row, the session and the dispose alone.  *)
LEMMA CallStep ==
  ASSUME IInv, Calls', Kept, UNCHANGED <<row, session, dispose, reaper, memory, wish>>,
         DaemonTyped', replies' = replies
  PROVE  IInv'
<1>1. KillInv'
  BY KillUntouched DEF IInv
<1>2. HostTyped'
  BY DEF IInv, HostTyped
<1> QED
  BY <1>1, <1>2 DEF IInv

LEMMA StartCreateStep ==
  ASSUME IInv, NEW k \in Callers, StartCreate(k)
  PROVE  IInv'
<1>1. Calls /\ k = Head1 /\ step[k] = "queued"
  BY DEF IInv, StartCreate
<1>2. queue # <<>> /\ queue[1] = k /\ step[k] # "idle"
  BY <1>1, Running
<1>3. Calls' /\ Kept
  <2>1. CASE \E outcome \in {"ok", "lost"} : Returns(k, outcome)
    BY <1>1, <1>2, <2>1, ReturnsFacts
  <2>2. CASE step' = [step EXCEPT ![k] = "env"]
             /\ UNCHANGED <<fenceVars, queue, createSeq, found, attach>>
    BY <1>1, <1>2, <2>2, StepMoves DEF Steps, Adopting
  <2> QED
    BY <2>1, <2>2 DEF StartCreate
<1>4. UNCHANGED <<row, session, dispose, reaper, memory, wish, replies>> /\ DaemonTyped'
  BY DEF IInv, StartCreate, DaemonTyped, reapVars, daemonVars, wireVars
<1> QED
  BY <1>3, <1>4, CallStep

LEMMA AskDaemonStep ==
  ASSUME IInv, NEW k \in Callers, AskDaemon(k)
  PROVE  IInv'
<1>1. Calls /\ k = Head1 /\ step[k] = "env"
  BY DEF IInv, AskDaemon
<1>2. queue # <<>> /\ queue[1] = k /\ step[k] # "idle"
  BY <1>1, Running
<1>3. UNCHANGED <<row, session, dispose, reaper, memory, wish, replies, daemonVars, faults>>
  BY DEF AskDaemon, reapVars
<1>4. requests \in Seq(Requests)
  BY DEF IInv, DaemonTyped
<1>5. CASE \E outcome \in {"gone", "transient"} : Returns(k, outcome) /\ requests' = requests
  <2>1. Calls' /\ Kept
    BY <1>1, <1>2, <1>5, ReturnsFacts
  <2>2. DaemonTyped'
    BY <1>3, <1>5 DEF IInv, DaemonTyped, daemonVars
  <2> QED
    BY <1>3, <2>1, <2>2, CallStep
<1>6. CASE \E ask \in {"open", "exists", "list"} :
             /\ AdoptOnly(k) => ask = "list"
             /\ step' = [step EXCEPT ![k] = ask]
             /\ requests' = Append(requests, IF ask = "open" THEN "open" ELSE "list")
             /\ UNCHANGED <<fenceVars, queue, createSeq, found, attach>>
  <2>1. PICK ask \in {"open", "exists", "list"} :
             /\ AdoptOnly(k) => ask = "list"
             /\ step' = [step EXCEPT ![k] = ask]
             /\ requests' = Append(requests, IF ask = "open" THEN "open" ELSE "list")
             /\ UNCHANGED <<fenceVars, queue, createSeq, found, attach>>
    BY <1>6
  <2>2. /\ ask \in Steps /\ ask \notin {"idle", "queued", "opened"}
        /\ k = "adopt" => ask \in Adopting
    BY <2>1 DEF Steps, Adopting, AdoptOnly
  <2>3. Calls' /\ Kept
    BY <1>1, <1>2, <2>1, <2>2, StepMoves
  <2>4. requests' \in Seq(Requests)
    BY <1>4, <2>1, AppendFacts DEF Requests
  <2>5. DaemonTyped'
    BY <1>3, <2>4 DEF IInv, DaemonTyped, daemonVars
  <2> QED
    BY <1>3, <2>3, <2>5, CallStep
<1> QED
  BY <1>5, <1>6 DEF AskDaemon

(* The continuations in which the create returns.                          *)
LEMMA ReturnStep ==
  ASSUME IInv, NEW k \in Callers,
         \/ CreateFails(k) \/ RefuseExisting(k) \/ NothingToAdopt(k)
         \/ UndoCreate(k) \/ CreateTimesOut(k)
  PROVE  IInv'
<1>1. Calls /\ step[k] \notin {"idle", "queued"}
  BY DEF IInv, CreateFails, RefuseExisting, NothingToAdopt, UndoCreate, CreateTimesOut, Waiting
<1>2. queue # <<>> /\ queue[1] = k /\ step[k] # "idle"
  BY <1>1, Running
<1>3. Calls' /\ Kept
  <2>1. CASE CreateTimesOut(k)
    <3>1. Returns(k, IF step[k] = "revoke" THEN "lost" ELSE "transient")
      BY <2>1 DEF CreateTimesOut
    <3> QED
      BY <1>1, <1>2, <3>1, ReturnsFacts
  <2>2. CASE ~CreateTimesOut(k)
    <3>1. Returns(k, "lost") \/ Returns(k, "gone")
      BY <2>2 DEF CreateFails, RefuseExisting, NothingToAdopt, UndoCreate
    <3> QED
      BY <1>1, <1>2, <3>1, ReturnsFacts
  <2> QED
    BY <2>1, <2>2
<1>4. /\ UNCHANGED <<row, session, dispose, reaper, memory, wish, replies, requests>>
      /\ UNCHANGED <<up, entry, spawned, subscribed>>
  BY DEF CreateFails, RefuseExisting, NothingToAdopt, UndoCreate, CreateTimesOut, reapVars,
         daemonVars, wireVars
<1>5. faults' \in 0..MaxFaults /\ closed' \in BOOLEAN
  <2>1. faults \in 0..MaxFaults /\ closed \in BOOLEAN
    BY DEF IInv, DaemonTyped
  <2>2. CASE UndoCreate(k)
    <3>1. faults' = faults \/ Fault
      BY <2>2 DEF UndoCreate
    <3>2. closed' = closed \/ KillEntry
      BY <2>2 DEF UndoCreate
    <3> QED
      BY <2>1, <3>1, <3>2, FaultCounted DEF IInv, KillEntry
  <2>3. CASE CreateTimesOut(k)
    BY <2>1, <2>3, FaultCounted DEF IInv, CreateTimesOut, daemonVars
  <2>4. CASE CreateFails(k) \/ RefuseExisting(k) \/ NothingToAdopt(k)
    BY <2>1, <2>4 DEF CreateFails, RefuseExisting, NothingToAdopt, daemonVars
  <2> QED
    BY <2>2, <2>3, <2>4
<1>6. DaemonTyped'
  BY <1>4, <1>5 DEF IInv, DaemonTyped
<1> QED
  BY <1>3, <1>4, <1>6, CallStep

LEMMA RevokeAdoptionStep ==
  ASSUME IInv, NEW k \in Callers, RevokeAdoption(k)
  PROVE  IInv'
<1>1. Calls /\ step[k] = "listed"
  BY DEF IInv, RevokeAdoption
<1>2. queue # <<>> /\ queue[1] = k /\ step[k] # "idle"
  BY <1>1, Running
<1>3. Calls' /\ Kept
  BY <1>1, <1>2, StepMoves DEF RevokeAdoption, Steps, Adopting
<1>4. UNCHANGED <<row, session, dispose, reaper, memory, wish, replies>>
  BY DEF RevokeAdoption, reapVars
<1>5. requests' \in Seq(Requests)
  BY AppendFacts DEF IInv, DaemonTyped, RevokeAdoption, Requests
<1>6. DaemonTyped'
  BY <1>5 DEF IInv, DaemonTyped, RevokeAdoption, daemonVars
<1> QED
  BY <1>3, <1>4, <1>6, CallStep

(* A create that may not commit: its row insert is refused or throws.      *)
LEMMA InsertStep ==
  ASSUME IInv, NEW k \in Callers, CancelCreate(k) \/ InsertFails(k)
  PROVE  IInv'
<1>1. Calls /\ step[k] \in {"opened", "adopting", "listed"}
  BY DEF IInv, CancelCreate, InsertFails, MayCommit
<1>2. queue # <<>> /\ queue[1] = k /\ step[k] # "idle"
  BY <1>1, Running
<1>3. Calls' /\ Kept
  <2>1. CASE Returns(k, "gone")
    BY <1>1, <1>2, <2>1, ReturnsFacts
  <2>2. CASE step[k] = "opened" /\ step' = [step EXCEPT ![k] = "undo"]
             /\ UNCHANGED <<fenceVars, queue, createSeq, found, attach>>
    <3>1. k # "adopt"
      BY <2>2 DEF IInv, Calls, Holding, Adopting
    <3> QED
      BY <1>1, <1>2, <2>2, <3>1, StepMoves DEF Steps
  <2> QED
    BY <2>1, <2>2 DEF CancelCreate, InsertFails
<1>4. UNCHANGED <<row, session, dispose, reaper, memory, wish, replies, requests, daemonVars>>
  BY DEF CancelCreate, InsertFails, reapVars, wireVars
<1>5. faults' \in 0..MaxFaults
  BY FaultCounted DEF IInv, DaemonTyped, CancelCreate, InsertFails
<1>6. DaemonTyped'
  BY <1>4, <1>5 DEF IInv, DaemonTyped, daemonVars
<1> QED
  BY <1>3, <1>4, <1>6, CallStep

-----------------------------------------------------------------------------
(* Commit: a create that was in flight when the kill came is behind the    *)
(* fence; an adopt commits only while the dispose is still to run.         *)

LEMMA CommitStep ==
  ASSUME IInv, NEW k \in Callers, Commit(k)
  PROVE  IInv'
<1>1. Calls /\ step[k] \in {"opened", "adopting", "listed"} /\ ~DisposedAfter(k)
  BY DEF IInv, Commit, MayCommit
<1>2. queue # <<>> /\ queue[1] = k /\ step[k] # "idle"
  BY <1>1, Running
<1>3. Calls' /\ Kept
  BY <1>1, <1>2, ReturnsFacts DEF Commit
<1>4. found[k] \in Ptys
  BY <1>1 DEF Calls, CallTyped, Holding, Commit, MayCommit, AdoptsExisting
<1>5. row' \in Rows /\ row' # None
  <2>1. row' = [status |-> "active", stamp |-> step[k] # "opened" /\ Stamped(row)]
    BY DEF Commit
  <2>2. (step[k] # "opened" /\ Stamped(row)) \in BOOLEAN
    OBVIOUS
  <2>3. row' \in Rows
    BY <2>1, <2>2 DEF Rows, Statuses
  <2> QED
    BY <2>3, RowAssumption DEF Rows
<1>6. HostTyped'
  <2>1. session' = [pty |-> found[k], exited |-> FALSE, replay |-> "pending"]
    BY DEF Commit
  <2>2. session' \in Sessions
    BY <1>4, <2>1
  <2>3. reaper' \in Reaps
    BY DEF IInv, HostTyped, Commit
  <2>4. UNCHANGED <<dispose, memory, wish>>
    BY DEF Commit
  <2> QED
    BY <1>5, <2>2, <2>3, <2>4 DEF IInv, HostTyped, Rows
<1>7. DaemonTyped' /\ replies' \in Seq(Sound)
  <2>1. requests' \in Seq(Requests)
    BY AppendFacts DEF IInv, DaemonTyped, Commit, Requests
  <2> QED
    BY <2>1 DEF IInv, DaemonTyped, Commit, daemonVars
<1>8. wish = "killed" => StillKilled
  <2> SUFFICES ASSUME wish = "killed"
               PROVE  dispose'.phase = "waiting"
    BY <1>5 DEF StillKilled
  <2>1. k = "adopt"
    BY <1>1 DEF IInv, KillInv
  <2>2. step[k] = "listed"
    BY <1>1, <2>1 DEF Calls, Holding, Adopting
  <2>3. Lifecycle(row) # "disposed"
    BY <2>2 DEF Commit, MayCommit, EndedMeanwhile
  <2> QED
    BY <2>3 DEF IInv, KillInv, Buried, Commit
<1>9. KillInv'
  <2>1. wish' = wish
    BY DEF Commit
  <2> QED
    BY <1>3, <1>8, <2>1, KillStays DEF IInv
<1> QED
  BY <1>3, <1>6, <1>7, <1>9 DEF IInv

-----------------------------------------------------------------------------
(* Dispose.                                                                *)

(* Steps that leave the queue of creates alone.                            *)
LEMMA CallsUntouched ==
  ASSUME Calls, UNCHANGED <<fenceVars, callVars>>
  PROVE  Calls' /\ Kept
<1>1. /\ UNCHANGED <<lifecycleSeq, createsInFlight, lastDisposeSeq>>
      /\ UNCHANGED <<queue, step, createSeq, found, attach>>
  BY DEF fenceVars, callVars
<1>2. lastDisposeSeq \in Nat
  BY DEF Calls, CallTyped
<1>3. Kept
  BY <1>1, <1>2 DEF Kept
<1>4. Calls'
  BY <1>1 DEF Calls, CallTyped, Queueing, Holding
<1> QED
  BY <1>3, <1>4

(* A stamped row and a confirmed one are rows, and dead ones.              *)
LEMMA RowFacts ==
  ASSUME NEW r \in Rows
  PROVE  /\ r # None
         /\ WithStamp(r) \in Rows /\ Disposed(r) \in Rows
         /\ Disposed(WithStamp(r)) \in Rows
         /\ Lifecycle(WithStamp(r)) = "disposed" /\ Lifecycle(Disposed(r)) = "disposed"
         /\ Lifecycle(Disposed(WithStamp(r))) = "disposed"
<1>1. r # None
  BY RowAssumption DEF Rows
<1>2. WithStamp(r) = [r EXCEPT !.stamp = TRUE] /\ WithStamp(r) \in Rows /\ WithStamp(r).stamp
  BY <1>1 DEF WithStamp, Rows
<1>3. ASSUME NEW q \in Rows
      PROVE  Disposed(q) \in Rows /\ Disposed(q).status = "disposed"
  BY DEF Disposed, Rows, Statuses
<1>4. \A q \in Rows : q # None
  BY RowAssumption DEF Rows
<1> QED
  BY <1>1, <1>2, <1>3, <1>4 DEF Lifecycle

(* A dispose that runs takes the session out and stamps the row.           *)
LEMMA RunDisposeFacts ==
  ASSUME HostTyped, DaemonTyped, NEW r \in {None} \cup Rows, RunDispose(r)
  PROVE  /\ session' = None /\ (r = None <=> row' = None)
         /\ row' \in {None} \cup Rows
         /\ row' # None => Lifecycle(row') = "disposed"
         /\ dispose' \in Disposes
         /\ requests' \in Seq(Requests)
<1>1. requests \in Seq(Requests) /\ entry \in Ptys \cup {None}
  BY DEF DaemonTyped
<1>2. session' = None
  BY DEF RunDispose
<1>3. row' \in {None, WithStamp(r), Disposed(WithStamp(r))} /\ (r = None => row' = None)
      /\ (r # None => row' # None)
  <2>1. r # None => WithStamp(r) # None /\ Disposed(WithStamp(r)) # None
    BY RowFacts, RowAssumption DEF Rows
  <2>2. r = None => WithStamp(r) = None
    BY DEF WithStamp
  <2> QED
    BY <2>1, <2>2 DEF RunDispose
<1>4. row' \in {None} \cup Rows /\ (row' # None => Lifecycle(row') = "disposed")
  BY <1>3, RowFacts
<1>5. dispose' \in Disposes
  <2>1. ListedPty \in Ptys \cup {None}
    BY <1>1 DEF ListedPty
  <2>2. PICK h \in BOOLEAN : h = (r # None)
    OBVIOUS
  <2>3. CASE session # None /\ session.exited
    <3>1. dispose' = NoDispose
      BY <2>3 DEF RunDispose
    <3> QED
      BY <3>1 DEF NoDispose
  <2>4. CASE ~(session # None /\ session.exited)
    <3>1. dispose' = [phase |-> IF session = None THEN "byId" ELSE "closing",
                      hadRow |-> h, target |-> ListedPty]
      BY <2>2, <2>4 DEF RunDispose
    <3> QED
      BY <2>1, <3>1
  <2> QED
    BY <2>3, <2>4
<1>6. requests' \in Seq(Requests)
  <2>1. Append(requests, "unsubscribe") \in Seq(Requests)
    BY <1>1, AppendFacts DEF Requests
  <2>2. <<"close", "unsubscribe">> \in Seq(Requests)
    BY DEF Requests
  <2>3. requests \o <<"close", "unsubscribe">> \in Seq(Requests)
    BY <1>1, <2>2, ConcatProperties
  <2> QED
    BY <1>1, <2>1, <2>3 DEF RunDispose
<1> QED
  BY <1>2, <1>3, <1>4, <1>5, <1>6

(* What a dispose does, its row being the one there was or one put there   *)
(* for it: a first one of a terminal with a row is a kill.                 *)
LEMMA RequestDisposeFacts ==
  ASSUME IInv, NEW r \in {None} \cup Rows, row # None => r = row, RequestDispose(r),
         UNCHANGED <<callVars, memory, daemonVars, replies, faults>>,
         reaper' \in Reaps,
         wish' = IF dispose.phase = "idle" /\ r # None THEN "killed" ELSE wish
  PROVE  IInv'
<1>1. MarkDispose /\ Calls /\ HostTyped /\ DaemonTyped /\ KillInv
  BY DEF RequestDispose, IInv
<1>2. /\ Calls' /\ Kept
      /\ \A k \in Callers : step'[k] # "idle" => lastDisposeSeq' > createSeq'[k]
  BY <1>1, MarkFacts
<1>3. /\ UNCHANGED <<up, entry, closed, spawned, subscribed>>
  BY DEF daemonVars
<1>4. CASE dispose.phase # "idle"
  <2>1. row' = r /\ UNCHANGED <<session, dispose, requests, wish>>
    BY <1>4 DEF RequestDispose
  <2>2. HostTyped' /\ DaemonTyped' /\ replies' \in Seq(Sound)
    BY <1>3, <2>1 DEF IInv, HostTyped, DaemonTyped, Rows
  <2>3. wish = "killed" => StillKilled
    BY <1>1, <2>1 DEF KillInv, StillKilled, Buried
  <2>4. KillInv'
    BY <1>1, <1>2, <2>1, <2>3, KillStays
  <2> QED
    BY <1>2, <2>2, <2>4 DEF IInv
<1>5. CASE dispose.phase = "idle" /\ attach # "idle"
  <2>1. /\ dispose' = [NoDispose EXCEPT !.phase = "waiting"]
        /\ row' = r /\ UNCHANGED <<session, requests>>
    BY <1>5 DEF RequestDispose
  <2>2. dispose' = [phase |-> "waiting", hadRow |-> FALSE, target |-> None]
    BY <2>1 DEF NoDispose
  <2>3. HostTyped'
    <3>1. dispose' \in Disposes
      BY <2>2
    <3>2. wish' \in {"open", "killed"}
      BY <1>1 DEF HostTyped
    <3> QED
      BY <1>1, <2>1, <3>1, <3>2 DEF HostTyped, Rows
  <2>4. DaemonTyped' /\ replies' \in Seq(Sound)
    BY <1>3, <2>1 DEF IInv, DaemonTyped
  <2>5. wish' = "killed" => row' # None
    BY <1>5, <2>1 DEF IInv, KillInv
  <2>6. KillInv'
    BY <1>2, <2>2, <2>5 DEF KillInv, DisposedAfter
  <2> QED
    BY <1>2, <2>3, <2>4, <2>6 DEF IInv
<1>6. CASE dispose.phase = "idle" /\ attach = "idle"
  <2>1. RunDispose(r)
    BY <1>6 DEF RequestDispose
  <2>2. /\ session' = None /\ (r = None <=> row' = None)
        /\ row' \in {None} \cup Rows
        /\ row' # None => Lifecycle(row') = "disposed"
        /\ dispose' \in Disposes
        /\ requests' \in Seq(Requests)
    BY <1>1, <2>1, RunDisposeFacts
  <2>3. HostTyped'
    BY <1>1, <2>2 DEF HostTyped, Rows
  <2>4. DaemonTyped' /\ replies' \in Seq(Sound)
    BY <1>3, <2>2 DEF IInv, DaemonTyped
  <2>5. wish' = "killed" => r # None
    BY <1>6 DEF IInv, KillInv
  <2>6. KillInv'
    BY <1>2, <2>2, <2>5 DEF KillInv, DisposedAfter, Buried
  <2> QED
    BY <1>2, <2>3, <2>4, <2>6 DEF IInv
<1> QED
  BY <1>4, <1>5, <1>6

LEMMA DisposeStep ==
  ASSUME IInv, Dispose
  PROVE  IInv'
<1>1. /\ RequestDispose(row) /\ UNCHANGED <<callVars, memory, daemonVars, replies, faults>>
      /\ reaper' = reaper
      /\ wish' = IF dispose.phase = "idle" /\ row # None THEN "killed" ELSE wish
  BY DEF Dispose, reapVars
<1>2. row \in {None} \cup Rows /\ reaper' \in Reaps
  BY <1>1 DEF IInv, HostTyped, Rows
<1> QED
  BY <1>1, <1>2, RequestDisposeFacts

(* A kill of a terminal with no row finds the row it has just inserted.    *)
LEMMA KillStep ==
  ASSUME IInv, Kill
  PROVE  IInv'
<1> DEFINE r == IF row = None THEN Tombstone ELSE row
<1>1. /\ RequestDispose(r) /\ UNCHANGED <<callVars, memory, daemonVars, replies, faults>>
      /\ reaper' = reaper
      /\ wish' = IF dispose.phase = "idle" THEN "killed" ELSE wish
  BY DEF Kill, reapVars
<1>2. Tombstone \in Rows
  BY DEF Tombstone, Rows, Statuses
<1>3. row \in {None} \cup Rows /\ reaper' \in Reaps
  BY <1>1 DEF IInv, HostTyped, Rows
<1>4. r \in Rows /\ (row # None => r = row)
  BY <1>2, <1>3
<1>5. r # None
  BY <1>4, RowAssumption DEF Rows
<1> HIDE DEF r
<1>6. wish' = IF dispose.phase = "idle" /\ r # None THEN "killed" ELSE wish
  BY <1>1, <1>5
<1> QED
  BY <1>1, <1>3, <1>4, <1>6, RequestDisposeFacts

LEMMA ReapOrphanStep ==
  ASSUME IInv, ReapOrphan
  PROVE  IInv'
<1>1. /\ RequestDispose(row) /\ UNCHANGED <<callVars, memory, daemonVars, replies, faults>>
      /\ reaper' = [reaper EXCEPT
            !.phase = IF dispose'.phase = "idle" THEN "correcting" ELSE "disposing"]
      /\ wish' = IF dispose.phase = "idle" /\ row # None THEN "killed" ELSE wish
  BY DEF ReapOrphan
<1>2. row \in {None} \cup Rows /\ reaper' \in Reaps
  BY <1>1 DEF IInv, HostTyped, Rows
<1> QED
  BY <1>1, <1>2, RequestDisposeFacts

LEMMA ResumeDisposeStep ==
  ASSUME IInv, ResumeDispose
  PROVE  IInv'
<1>1. /\ RunDispose(row) /\ Calls /\ HostTyped /\ DaemonTyped /\ KillInv
      /\ row \in {None} \cup Rows
  BY DEF ResumeDispose, IInv, HostTyped, Rows
<1>2. Calls' /\ Kept
  BY <1>1, CallsUntouched DEF ResumeDispose
<1>3. /\ session' = None /\ (row = None <=> row' = None)
      /\ row' \in {None} \cup Rows
      /\ row' # None => Lifecycle(row') = "disposed"
      /\ dispose' \in Disposes
      /\ requests' \in Seq(Requests)
  BY <1>1, RunDisposeFacts
<1>4. UNCHANGED <<up, entry, closed, spawned, subscribed, replies, faults, wish, memory>>
  BY DEF ResumeDispose, daemonVars
<1>5. reaper' \in Reaps
  BY <1>1 DEF ResumeDispose, HostTyped
<1>6. HostTyped' /\ DaemonTyped' /\ replies' \in Seq(Sound)
  BY <1>1, <1>3, <1>4, <1>5 DEF IInv, HostTyped, DaemonTyped, Rows
<1>7. wish = "killed" => StillKilled
  BY <1>1, <1>3 DEF KillInv, StillKilled, Buried
<1>8. KillInv'
  BY <1>1, <1>2, <1>4, <1>7, KillStays
<1> QED
  BY <1>2, <1>6, <1>8 DEF IInv

(* A step that leaves the creates alone and may confirm a row.             *)
LEMMA RowStep ==
  ASSUME IInv, UNCHANGED <<fenceVars, callVars, session>>,
         row' = row \/ (row # None /\ row' = Disposed(row)),
         dispose.phase = "waiting" => dispose'.phase = "waiting", wish' = wish,
         row' \in {None} \cup Rows => HostTyped', DaemonTyped', replies' \in Seq(Sound)
  PROVE  IInv'
<1>1. Calls' /\ Kept
  BY CallsUntouched DEF IInv
<1>2. row \in {None} \cup Rows
  BY DEF IInv, HostTyped, Rows
<1>3. row' \in {None} \cup Rows /\ (row # None => row' # None)
      /\ (Lifecycle(row) = "disposed" => Lifecycle(row') = "disposed")
  BY <1>2, RowFacts
<1>4. wish = "killed" => StillKilled
  BY <1>3 DEF IInv, KillInv, StillKilled, Buried
<1>5. KillInv'
  BY <1>1, <1>4, KillStays DEF IInv
<1> QED
  BY <1>1, <1>3, <1>5 DEF IInv

LEMMA DropUnreplayedStep ==
  ASSUME IInv, DropUnreplayed
  PROVE  IInv'
<1>1. Calls' /\ Kept
  BY CallsUntouched DEF IInv, DropUnreplayed
<1>2. /\ UNCHANGED <<row, dispose, reaper, memory, wish, replies, daemonVars, faults>>
      /\ session' = None
  BY DEF DropUnreplayed, reapVars
<1>3. requests' \in Seq(Requests)
  BY AppendFacts DEF IInv, DaemonTyped, DropUnreplayed, Requests
<1>4. HostTyped' /\ DaemonTyped' /\ replies' \in Seq(Sound)
  BY <1>2, <1>3 DEF IInv, HostTyped, DaemonTyped, daemonVars
<1>5. wish = "killed" => StillKilled
  BY <1>2 DEF IInv, KillInv, StillKilled, Buried
<1>6. KillInv'
  BY <1>1, <1>2, <1>5, KillStays DEF IInv
<1> QED
  BY <1>1, <1>4, <1>6 DEF IInv

LEMMA CloseByIdStep ==
  ASSUME IInv, CloseById
  PROVE  IInv'
<1>1. /\ UNCHANGED <<row, session, fenceVars, callVars, reaper, memory, up, entry, spawned>>
      /\ UNCHANGED <<subscribed, requests, replies, wish>>
  BY DEF CloseById, reapVars, wireVars
<1>2. dispose.phase # "waiting"
  BY DEF CloseById
<1>3. \/ dispose' = [dispose EXCEPT !.phase = "byIdClosed"]
      \/ dispose' = [dispose EXCEPT !.phase = "byIdFailed"]
  BY DEF CloseById
<1>4. dispose' \in Disposes
  BY <1>3 DEF IInv, HostTyped
<1>5. (row' \in {None} \cup Rows) => HostTyped'
  BY <1>1, <1>4 DEF IInv, HostTyped
<1>6. faults' \in 0..MaxFaults
  BY FaultCounted DEF IInv, DaemonTyped, CloseById
<1>7. closed' \in BOOLEAN
  <2>1. closed' = closed \/ KillEntry
    BY DEF CloseById
  <2> QED
    BY <2>1 DEF KillEntry, IInv, DaemonTyped
<1>8. DaemonTyped' /\ replies' \in Seq(Sound)
  BY <1>1, <1>6, <1>7 DEF IInv, DaemonTyped
<1> QED
  BY <1>1, <1>2, <1>5, <1>8, RowStep

LEMMA SettleDisposeStep ==
  ASSUME IInv, SettleDispose
  PROVE  IInv'
<1>1. /\ UNCHANGED <<session, fenceVars, callVars, daemonVars, requests, replies, faults, wish>>
      /\ dispose' = NoDispose /\ dispose.phase # "waiting"
  BY DEF SettleDispose, wireVars
<1>2. row' = row \/ (row # None /\ row' = Disposed(row))
  BY DEF SettleDispose, Confirms, Stamped
<1>3. reaper' \in Reaps
  BY DEF IInv, HostTyped, SettleDispose, reapVars
<1>4. memory' \in Memories
  <2>1. memory \in Memories
    BY DEF IInv, HostTyped
  <2>2. PICK b \in BOOLEAN : b = (memory.rowless \/ (reaper.rowless /\ ~CloseSucceeded))
    OBVIOUS
  <2>3. memory' = memory \/ memory' = [memory EXCEPT !.rowless = b]
    BY <2>2 DEF SettleDispose, reapVars
  <2> QED
    BY <2>1, <2>3
<1>5. dispose' \in Disposes
  BY <1>1 DEF NoDispose
<1>6. (row' \in {None} \cup Rows) => HostTyped'
  BY <1>1, <1>3, <1>4, <1>5 DEF IInv, HostTyped, Rows
<1>7. DaemonTyped' /\ replies' \in Seq(Sound)
  BY <1>1 DEF IInv, DaemonTyped, daemonVars
<1> QED
  BY <1>1, <1>2, <1>6, <1>7, RowStep

LEMMA PurgeRowStep ==
  ASSUME IInv, PurgeRow
  PROVE  IInv'
<1>1. Calls'
  BY CallsUntouched DEF IInv, PurgeRow
<1>2. HostTyped' /\ DaemonTyped' /\ replies' \in Seq(Sound) /\ wish' = "open"
  BY DEF IInv, HostTyped, DaemonTyped, PurgeRow, reapVars, daemonVars, wireVars
<1>3. KillInv'
  BY <1>2 DEF KillInv
<1> QED
  BY <1>1, <1>2, <1>3 DEF IInv

-----------------------------------------------------------------------------
(* The reaper.                                                             *)

LEMMA ReapTyped ==
  ASSUME NEW phase \in {"idle", "listing", "listed", "orphan", "disposing", "correcting"}
  PROVE  /\ NoReap \in Reaps
         /\ [NoReap EXCEPT !.phase = phase] \in Reaps
         /\ NoMemory \in Memories
  BY DEF NoReap, NoMemory

LEMMA BeginReapStep ==
  ASSUME IInv, BeginReap
  PROVE  IInv'
<1>1. /\ UNCHANGED <<row, session, fenceVars, callVars, dispose, memory, daemonVars, replies>>
      /\ UNCHANGED <<faults, wish>>
      /\ reaper' = [NoReap EXCEPT !.phase = "listing"]
  BY DEF BeginReap
<1>2. (row' \in {None} \cup Rows) => HostTyped'
  BY <1>1, ReapTyped DEF IInv, HostTyped
<1>3. requests' \in Seq(Requests)
  BY AppendFacts DEF IInv, DaemonTyped, BeginReap, Requests
<1>4. DaemonTyped' /\ replies' \in Seq(Sound)
  BY <1>1, <1>3 DEF IInv, DaemonTyped, daemonVars
<1> QED
  BY <1>1, <1>2, <1>4, RowStep

LEMMA PlanReapStep ==
  ASSUME IInv, PlanReap
  PROVE  IInv'
<1>1. UNCHANGED <<row, session, fenceVars, callVars, dispose, daemonVars, wireVars, faults, wish>>
  BY DEF PlanReap
<1>2. PICK orphan, rowless, active, still \in BOOLEAN :
        /\ reaper' = NoReap \/ reaper' = [reaper EXCEPT
                    !.phase = IF orphan THEN "orphan" ELSE "correcting",
                    !.rowless = rowless, !.same = TRUE, !.active = active]
        /\ memory' = NoMemory \/ memory' = [memory EXCEPT !.rowless = still]
  <2> DEFINE rowless == row = None
             orphan  == /\ reaper.alive
                        /\ IF rowless THEN memory.rowless ELSE ShouldReapRow(row)
             active  == row # None /\ row.status = "active"
             still   == StillRowless(orphan)
  <2>1. orphan \in BOOLEAN /\ rowless \in BOOLEAN /\ active \in BOOLEAN /\ still \in BOOLEAN
    BY DEF StillRowless
  <2>2. /\ reaper' = NoReap \/ reaper' = [reaper EXCEPT
                    !.phase = IF orphan THEN "orphan" ELSE "correcting",
                    !.rowless = rowless, !.same = TRUE, !.active = active]
        /\ memory' = NoMemory \/ memory' = [memory EXCEPT !.rowless = still]
    BY DEF PlanReap
  <2> HIDE DEF orphan, rowless, active, still
  <2> QED
    BY <2>1, <2>2
<1>3. reaper' \in Reaps
  <2>1. reaper \in Reaps
    BY DEF IInv, HostTyped
  <2>2. PICK p \in {"orphan", "correcting"} :
          reaper' = NoReap \/ reaper' = [reaper EXCEPT
                      !.phase = p, !.rowless = rowless, !.same = TRUE, !.active = active]
    BY <1>2
  <2>3. CASE reaper' = NoReap
    BY <2>3, ReapTyped
  <2>4. CASE reaper' = [reaper EXCEPT
                !.phase = p, !.rowless = rowless, !.same = TRUE, !.active = active]
    BY <2>1, <2>4
  <2> QED
    BY <2>2, <2>3, <2>4
<1>4. memory' \in Memories
  BY <1>2, ReapTyped DEF IInv, HostTyped
<1>5. (row' \in {None} \cup Rows) => HostTyped'
  BY <1>1, <1>3, <1>4 DEF IInv, HostTyped
<1>6. DaemonTyped' /\ replies' \in Seq(Sound)
  BY <1>1 DEF IInv, DaemonTyped, daemonVars, wireVars
<1> QED
  BY <1>1, <1>5, <1>6, RowStep

LEMMA EndReapStep ==
  ASSUME IInv, KeepRow \/ NoteAbsent \/ CorrectRow
  PROVE  IInv'
<1>1. PICK absent \in BOOLEAN : EndReap(absent)
  BY DEF KeepRow, NoteAbsent, CorrectRow
<1>2. row' = row \/ (row # None /\ row' = Disposed(row))
  BY DEF KeepRow, NoteAbsent, CorrectRow
<1>3. UNCHANGED <<session, fenceVars, callVars, dispose, daemonVars, wireVars, faults, wish>>
  BY <1>1 DEF EndReap
<1>4. memory' \in Memories
  BY <1>1 DEF EndReap, IInv, HostTyped
<1>5. (row' \in {None} \cup Rows) => HostTyped'
  BY <1>1, <1>3, <1>4, ReapTyped DEF IInv, HostTyped, EndReap, Rows
<1>6. DaemonTyped' /\ replies' \in Seq(Sound)
  BY <1>3 DEF IInv, DaemonTyped, daemonVars, wireVars
<1> QED
  BY <1>2, <1>3, <1>5, <1>6, RowStep

-----------------------------------------------------------------------------
(* The daemon and the connection.                                          *)

(* A reply of any kind but open-ok may be sent; an open-ok names its PTY.  *)
LEMMA ReplySound ==
  ASSUME replies \in Seq(Sound), NEW kind, NEW pty, Reply(kind, pty),
         \/ kind \in {"open-ok", "exit"} /\ pty \in Ptys
         \/ kind = "list" /\ pty \in Ptys \cup {None}
         \/ kind \in {"exists", "unknown", "spawn", "ekill", "closed", "replayed"} /\ pty = None
  PROVE  replies' \in Seq(Sound)
<1> DEFINE m == [kind |-> kind, pty |-> pty]
<1>1. m \in Replies
  BY DEF Replies
<1>2. m \in Sound
  BY <1>1, NamesAssumption DEF Sound
<1>3. Append(replies, m) \in Seq(Sound)
  BY <1>2, AppendFacts
<1> QED
  BY <1>3 DEF Reply

LEMMA ServeStep ==
  ASSUME IInv, Serve
  PROVE  IInv'
<1>1. UNCHANGED <<row, session, fenceVars, callVars, dispose, reaper, memory, up, wish>>
  BY DEF Serve, reapVars
<1>2. /\ entry \in Ptys \cup {None} /\ closed \in BOOLEAN /\ spawned \in SUBSET Ptys
      /\ subscribed \in BOOLEAN /\ requests \in Seq(Requests) /\ faults \in 0..MaxFaults
      /\ replies \in Seq(Sound)
  BY DEF IInv, DaemonTyped
<1>3. requests' \in Seq(Requests)
  BY <1>2, TailFacts DEF Serve
<1>4. /\ entry' \in Ptys \cup {None} /\ closed' \in BOOLEAN /\ spawned' \in SUBSET Ptys
      /\ subscribed' \in BOOLEAN /\ faults' \in 0..MaxFaults /\ replies' \in Seq(Sound)
  <2>1. CASE ServeOpen /\ UNCHANGED <<subscribed, faults>>
    <3>1. CASE Reply("exists", None) /\ UNCHANGED <<entry, closed, spawned>>
      BY <1>2, <2>1, <3>1, ReplySound
    <3>2. CASE closed' = FALSE /\ entry' = None /\ Reply("spawn", None) /\ UNCHANGED spawned
      BY <1>2, <2>1, <3>2, ReplySound
    <3>3. CASE closed' = FALSE /\ \E p \in Ptys \ spawned :
                 entry' = p /\ spawned' = spawned \cup {p} /\ Reply("open-ok", p)
      BY <1>2, <2>1, <3>3, ReplySound
    <3> QED
      BY <2>1, <3>1, <3>2, <3>3 DEF ServeOpen
  <2>2. CASE ServeClose
    <3>1. UNCHANGED <<entry, spawned, subscribed>>
      BY <2>2 DEF ServeClose
    <3>2. CASE KillEntry /\ UNCHANGED faults
               /\ Reply(IF entry = None THEN "unknown" ELSE "closed", None)
      <4>1. closed' \in BOOLEAN
        BY <3>2 DEF KillEntry
      <4>2. replies' \in Seq(Sound)
        BY <1>2, <3>2, ReplySound
      <4> QED
        BY <1>2, <3>1, <3>2, <4>1, <4>2
    <3>3. CASE Fault /\ closed' = TRUE /\ Reply("ekill", None)
      BY <1>2, <3>1, <3>3, ReplySound, FaultCounted DEF IInv
    <3> QED
      BY <2>2, <3>2, <3>3 DEF ServeClose
  <2>3. CASE Reply("list", ListedPty) /\ UNCHANGED <<entry, closed, spawned, subscribed, faults>>
    <3>1. ListedPty \in Ptys \cup {None}
      BY <1>2 DEF ListedPty
    <3> QED
      BY <1>2, <2>3, <3>1, ReplySound
  <2>4. CASE ServeSubscribe /\ UNCHANGED <<entry, closed, spawned, faults>>
    <3>1. subscribed' \in BOOLEAN
      BY <2>4 DEF ServeSubscribe
    <3>2. replies' \in Seq(Sound)
      BY <1>2, <2>4, ReplySound DEF ServeSubscribe
    <3> QED
      BY <1>2, <2>4, <3>1, <3>2
  <2>5. CASE subscribed' = FALSE /\ UNCHANGED <<entry, closed, spawned, replies, faults>>
    BY <1>2, <2>5
  <2> QED
    BY <2>1, <2>2, <2>3, <2>4, <2>5 DEF Serve
<1>5. (row' \in {None} \cup Rows) => HostTyped'
  BY <1>1 DEF IInv, HostTyped
<1>6. DaemonTyped' /\ replies' \in Seq(Sound)
  BY <1>1, <1>3, <1>4 DEF IInv, DaemonTyped
<1> QED
  BY <1>1, <1>5, <1>6, RowStep

LEMMA PtyExitsStep ==
  ASSUME IInv, PtyExits
  PROVE  IInv'
<1>1. /\ UNCHANGED <<row, session, fenceVars, callVars, dispose, reaper, memory, up, wish>>
      /\ UNCHANGED <<spawned, requests, faults>>
  BY DEF PtyExits, reapVars
<1>2. entry \in Ptys /\ entry' = None /\ closed' = FALSE /\ subscribed' = FALSE
  BY DEF IInv, DaemonTyped, PtyExits
<1>3. replies' \in Seq(Sound)
  BY <1>2, ReplySound DEF IInv, PtyExits
<1>4. (row' \in {None} \cup Rows) => HostTyped'
  BY <1>1 DEF IInv, HostTyped
<1>5. DaemonTyped'
  BY <1>1, <1>2 DEF IInv, DaemonTyped
<1> QED
  BY <1>1, <1>3, <1>4, <1>5, RowStep

(* A frame moves the running create on, and starts or ends none.           *)
LEMMA CreateReceivesFacts ==
  ASSUME Calls, NEW m \in Sound, requests \in Seq(Requests), CreateReceives(m),
         UNCHANGED <<fenceVars, queue, createSeq, attach>>
  PROVE  Calls' /\ Kept /\ requests' \in Seq(Requests)
<1>1. /\ step \in [Callers -> Steps] /\ found \in [Callers -> Ptys \cup {None}]
      /\ m.pty \in Ptys \cup {None}
  BY DEF Calls, CallTyped, Sound, Replies
<1>2. ASSUME NEW k \in Callers
      PROVE  step'[k] = IF k = Head1 THEN StepAfter(k, m) ELSE step[k]
  BY DEF CreateReceives
<1>3. ASSUME NEW k \in Callers
      PROVE  /\ StepAfter(k, m) \in Steps
             /\ StepAfter(k, m) = step[k] \/
                  (/\ step[k] \in {"open", "exists", "list", "revoke"}
                   /\ StepAfter(k, m) \notin {"idle", "queued"})
             /\ StepAfter(k, m) = "opened" => step[k] = "opened" \/ m.kind = "open-ok"
             /\ StepAfter(k, m) # "env" \/ step[k] = "env"
             /\ step[k] \in Adopting => StepAfter(k, m) \in Adopting
  BY <1>1 DEF StepAfter, Steps, Adopting, Errors
<1>4. ASSUME NEW k \in Callers
      PROVE  /\ step'[k] \in Steps
             /\ step'[k] = "idle" <=> step[k] = "idle"
             /\ step'[k] \notin {"idle", "queued"} => step[k] \notin {"idle", "queued"}
             /\ step[k] \in Adopting => step'[k] \in Adopting
  BY <1>1, <1>2, <1>3
<1>5. step' \in [Callers -> Steps]
  <2>1. step' = [k \in Callers |-> step'[k]]
    BY DEF CreateReceives
  <2> QED
    BY <1>4, <2>1
<1>6. ASSUME NEW k \in Callers
      PROVE  found'[k] = IF step'[k] # step[k] /\ step'[k] # "exists" THEN m.pty ELSE found[k]
  BY DEF CreateReceives
<1>7. found' \in [Callers -> Ptys \cup {None}]
  <2>1. found' = [k \in Callers |-> found'[k]]
    BY DEF CreateReceives
  <2> QED
    BY <1>1, <1>6, <2>1
<1>8. \A k \in Callers : step'[k] \notin {"idle", "queued"} => k = queue[1]
  BY <1>4 DEF Calls, Queueing
<1>9. ASSUME NEW k \in Callers, step'[k] = "opened"
      PROVE  found'[k] # None
  <2>1. CASE step[k] = "opened"
    <3>1. found[k] # None
      BY <2>1 DEF Calls, Holding
    <3> QED
      BY <1>6, <1>9, <2>1, <3>1
  <2>2. CASE step[k] # "opened"
    <3>1. m.kind = "open-ok"
      BY <1>2, <1>3, <1>9, <2>2
    <3>2. m.pty # None
      BY <3>1 DEF Sound
    <3> QED
      BY <1>6, <1>9, <2>2, <3>2
  <2> QED
    BY <2>1, <2>2
<1>10. Holding'
  BY <1>4, <1>9 DEF Calls, Holding
<1>11. Calls' /\ Kept
  BY <1>4, <1>5, <1>7, <1>8, <1>10, CallsStay
<1>12. requests' \in Seq(Requests)
  <2>1. Append(requests, "list") \in Seq(Requests)
    BY AppendFacts DEF Requests
  <2> QED
    BY <2>1 DEF CreateReceives
<1> QED
  BY <1>11, <1>12

LEMMA ReceiveStep ==
  ASSUME IInv, Receive
  PROVE  IInv'
<1> DEFINE m == Head(replies)
<1>1. /\ m \in Sound /\ replies' \in Seq(Sound)
  BY TailFacts DEF IInv, Receive
<1>2. /\ CreateReceives(m) /\ DisposeReceives(m) /\ ReaperReceives(m) /\ SessionReceives(m)
      /\ UNCHANGED <<fenceVars, queue, createSeq, attach, memory, daemonVars, faults, wish>>
  BY DEF Receive
<1> HIDE DEF m
<1>3. Calls' /\ Kept /\ requests' \in Seq(Requests)
  BY <1>1, <1>2, CreateReceivesFacts DEF IInv, DaemonTyped
<1>4. /\ dispose' \in Disposes
      /\ dispose.phase = "waiting" => dispose'.phase = "waiting"
  BY <1>2 DEF DisposeReceives, IInv, HostTyped
<1>5. reaper' \in Reaps
  <2>1. PICK b \in BOOLEAN : b = (m.pty # None)
    OBVIOUS
  <2>2. reaper' = reaper \/ reaper' = [reaper EXCEPT !.phase = "listed", !.alive = b]
    BY <1>2, <2>1 DEF ReaperReceives
  <2> QED
    BY <2>2 DEF IInv, HostTyped
<1>6. row \in {None} \cup Rows
  BY DEF IInv, HostTyped, Rows
<1>7. /\ row' \in {None} \cup Rows /\ (row # None => row' # None)
      /\ session = None => UNCHANGED <<session, row>>
      /\ session' \in {None} \cup Sessions
  <2>1. CASE session = None
    BY <1>2, <1>6, <2>1 DEF SessionReceives
  <2>2. CASE session # None
    <3>1. session \in Sessions
      BY <2>2 DEF IInv, HostTyped
    <3>2. row' = row \/ row' = ExitRow(row)
      BY <1>2, <2>2 DEF SessionReceives
    <3>3. ExitRow(row) = row \/ (row \in Rows /\ ExitRow(row) = [row EXCEPT !.status = "exited"])
      BY <1>6 DEF ExitRow
    <3>4. row \in Rows => [row EXCEPT !.status = "exited"] \in Rows
      BY DEF Rows, Statuses
    <3>5. row' = row \/ (row \in Rows /\ row' \in Rows)
      BY <3>2, <3>3, <3>4
    <3>6. None \notin Rows
      BY RowAssumption DEF Rows
    <3>7. \/ session' = session
          \/ session' = [session EXCEPT !.exited = TRUE]
          \/ \E r \in {"pending", "ready", "failed"} : session' = [session EXCEPT !.replay = r]
      BY <1>2, <2>2 DEF SessionReceives
    <3>8. session' \in Sessions
      BY <3>1, <3>7
    <3> QED
      BY <1>6, <2>2, <3>5, <3>6, <3>8
  <2> QED
    BY <2>1, <2>2
<1>8. HostTyped'
  BY <1>2, <1>4, <1>5, <1>7 DEF IInv, HostTyped, Rows
<1>9. DaemonTyped'
  BY <1>2, <1>3 DEF IInv, DaemonTyped, daemonVars
<1>10. wish = "killed" => StillKilled
  BY <1>4, <1>7 DEF IInv, KillInv, StillKilled, Buried
<1>11. KillInv'
  BY <1>2, <1>3, <1>10, KillStays DEF IInv
<1> QED
  BY <1>1, <1>3, <1>8, <1>9, <1>11 DEF IInv

-----------------------------------------------------------------------------
(* The failures.                                                           *)

LEMMA DisposeTimesOutStep ==
  ASSUME IInv, DisposeTimesOut
  PROVE  IInv'
<1>1. /\ UNCHANGED <<row, session, fenceVars, callVars, reaper, memory, daemonVars, requests>>
      /\ UNCHANGED <<replies, wish>>
      /\ dispose.phase # "waiting"
  BY DEF DisposeTimesOut, reapVars, wireVars
<1>2. (row' \in {None} \cup Rows) => HostTyped'
  BY <1>1 DEF IInv, HostTyped, DisposeTimesOut
<1>3. DaemonTyped' /\ replies' \in Seq(Sound)
  BY <1>1, FaultCounted DEF IInv, DaemonTyped, daemonVars, DisposeTimesOut
<1> QED
  BY <1>1, <1>2, <1>3, RowStep

LEMMA ReplayTimesOutStep ==
  ASSUME IInv, ReplayTimesOut
  PROVE  IInv'
<1>1. /\ UNCHANGED <<row, fenceVars, callVars, dispose, reaper, memory, daemonVars, requests>>
      /\ UNCHANGED <<replies, wish>>
      /\ session # None /\ session' = [session EXCEPT !.replay = "failed"]
  BY DEF ReplayTimesOut, reapVars, wireVars
<1>2. Calls' /\ Kept
  BY <1>1, CallsUntouched DEF IInv
<1>3. session' \in Sessions
  BY <1>1 DEF IInv, HostTyped
<1>4. HostTyped'
  BY <1>1, <1>3 DEF IInv, HostTyped
<1>5. DaemonTyped' /\ replies' \in Seq(Sound)
  BY <1>1, FaultCounted DEF IInv, DaemonTyped, daemonVars, ReplayTimesOut
<1>6. wish = "killed" => StillKilled
  BY <1>1 DEF IInv, KillInv, StillKilled, Buried
<1>7. KillInv'
  BY <1>1, <1>2, <1>6, KillStays DEF IInv
<1> QED
  BY <1>2, <1>4, <1>5, <1>7 DEF IInv

LEMMA DisconnectStep ==
  ASSUME IInv, ConnectionLost \/ DaemonCrash
  PROVE  IInv'
<1>1. /\ Disconnect /\ Fault /\ UNCHANGED <<row, memory, spawned, wish>>
      /\ up' \in BOOLEAN /\ entry' \in Ptys \cup {None} /\ closed' \in BOOLEAN
  BY DEF IInv, DaemonTyped, ConnectionLost, DaemonCrash
<1>2. /\ requests' = <<>> /\ replies' = <<>> /\ session' = None /\ subscribed' = FALSE
  BY <1>1 DEF Disconnect
<1>3. Calls' /\ Kept
  <2>1. CASE Head1 \in Callers /\ Waiting(Head1)
    <3>1. Returns(Head1, IF step[Head1] = "revoke" THEN "lost" ELSE "transient")
      BY <1>1, <2>1 DEF Disconnect
    <3>2. step[Head1] \notin {"idle", "queued"}
      BY <2>1 DEF Waiting
    <3>3. queue # <<>> /\ queue[1] = Head1
      BY <2>1, <3>2, Running DEF IInv
    <3> QED
      BY <2>1, <3>1, <3>2, <3>3, ReturnsFacts DEF IInv
  <2>2. CASE ~(Head1 \in Callers /\ Waiting(Head1))
    BY <1>1, <2>2, CallsUntouched DEF IInv, Disconnect
  <2> QED
    BY <2>1, <2>2
<1>4. /\ dispose' \in Disposes
      /\ dispose.phase = "waiting" => dispose'.phase = "waiting"
  BY <1>1 DEF Disconnect, IInv, HostTyped
<1>5. reaper' = NoReap \/ reaper' = reaper
  BY <1>1 DEF Disconnect
<1>6. HostTyped'
  BY <1>1, <1>2, <1>4, <1>5, ReapTyped DEF IInv, HostTyped
<1>7. DaemonTyped' /\ replies' \in Seq(Sound)
  <2>1. <<>> \in Seq(Requests) /\ <<>> \in Seq(Sound)
    OBVIOUS
  <2> QED
    BY <1>1, <1>2, <2>1, FaultCounted DEF IInv, DaemonTyped
<1>8. wish = "killed" => StillKilled
  BY <1>1, <1>2, <1>4 DEF IInv, KillInv, StillKilled, Buried
<1>9. KillInv'
  BY <1>1, <1>3, <1>8, KillStays DEF IInv
<1> QED
  BY <1>3, <1>6, <1>7, <1>9 DEF IInv

LEMMA DaemonStartsStep ==
  ASSUME IInv, DaemonStarts
  PROVE  IInv'
<1>1. UNCHANGED <<row, session, fenceVars, callVars, dispose, reapVars, entry, closed, spawned,
                  subscribed, wireVars, faults, wish>> /\ up' = TRUE
  BY DEF DaemonStarts
<1>2. (row' \in {None} \cup Rows) => HostTyped'
  BY <1>1 DEF IInv, HostTyped, reapVars
<1>3. DaemonTyped' /\ replies' \in Seq(Sound)
  BY <1>1 DEF IInv, DaemonTyped, wireVars
<1> QED
  BY <1>1, <1>2, <1>3, RowStep

(* The state of a host that has just started.                              *)
Fresh ==
  /\ session = None
  /\ lifecycleSeq = 0 /\ createsInFlight = 0 /\ lastDisposeSeq = 0
  /\ queue = <<>>
  /\ step = [k \in Callers |-> "idle"]
  /\ createSeq = [k \in Callers |-> 0]
  /\ found = [k \in Callers |-> None]
  /\ attach = "idle" /\ dispose = NoDispose
  /\ reaper = NoReap /\ memory = NoMemory
  /\ subscribed = FALSE
  /\ requests = <<>> /\ replies = <<>>

FreshHost ==
  /\ Fresh /\ row \in {None} \cup Rows /\ wish \in {"open", "killed"}
  /\ up \in BOOLEAN /\ entry \in Ptys \cup {None} /\ closed \in BOOLEAN
  /\ spawned \in SUBSET Ptys /\ faults \in 0..MaxFaults
  /\ wish = "killed" => Lifecycle(row) = "disposed"

LEMMA FreshFacts == FreshHost => IInv
<1> SUFFICES ASSUME FreshHost
             PROVE  IInv
  OBVIOUS
<1> USE DEF FreshHost
<1>1. Len(queue) = 0 /\ \A k \in Callers : step[k] = "idle" /\ createSeq[k] = 0
  BY DEF Fresh
<1>2. CallTyped
  BY BoundsAssumption DEF Fresh, CallTyped, Steps
<1>3. Queueing
  BY <1>1 DEF Fresh, Queueing
<1>4. Holding
  BY <1>1 DEF Holding, Adopting
<1>5. NoDispose \in Disposes
  BY DEF NoDispose
<1>6. HostTyped
  BY <1>5, ReapTyped DEF Fresh, HostTyped, Rows
<1>7. requests \in Seq(Requests) /\ replies \in Seq(Sound)
  BY DEF Fresh
<1>8. DaemonTyped
  <2>1. subscribed \in BOOLEAN
    BY DEF Fresh
  <2> QED
    BY <1>7, <2>1, Zenon DEF DaemonTyped
<1>9. KillInv
  <2>1. wish = "killed" => row # None
    BY DEF Lifecycle
  <2> QED
    BY <1>1, <2>1 DEF Fresh, KillInv, Buried
<1> QED
  BY <1>2, <1>3, <1>4, <1>6, <1>7, <1>8, <1>9 DEF IInv, Calls

LEMMA Start == Init => IInv
<1>1. ASSUME Init
      PROVE  FreshHost
  <2>1. Fresh /\ row = None /\ wish = "open"
    BY <1>1 DEF Init, Fresh
  <2>2. 0 \in 0..MaxFaults
    BY BoundsAssumption
  <2>3. up = TRUE /\ entry = None /\ closed = FALSE /\ spawned = {} /\ faults = 0
    BY <1>1 DEF Init
  <2> QED
    BY <2>1, <2>2, <2>3 DEF FreshHost
<1> QED
  BY <1>1, FreshFacts

LEMMA HostRestartStep ==
  ASSUME IInv, HostRestart
  PROVE  IInv'
<1>1. Fresh'
  BY DEF HostRestart, Fresh
<1>2. UNCHANGED <<row, up, entry, closed, spawned>> /\ faults' \in 0..MaxFaults
  BY FaultCounted DEF HostRestart, IInv
<1>3. wish' = (IF Lifecycle(row) = "disposed" THEN wish ELSE "open")
  BY DEF HostRestart
<1>4. FreshHost'
  BY <1>1, <1>2, <1>3 DEF FreshHost, IInv, HostTyped, DaemonTyped, Rows, Lifecycle
<1> QED
  BY <1>4, FreshFacts, PTL

-----------------------------------------------------------------------------
(* The theorems.                                                           *)

LEMMA Inductive == IInv /\ [Next]_vars => IInv'
<1> SUFFICES ASSUME IInv, [Next]_vars
             PROVE  IInv'
  OBVIOUS
<1>1. ASSUME NEW o \in Openers, BeginOpen(o)
      PROVE  IInv'
  BY <1>1, BeginOpenStep
<1>2. CASE BeginAttach \/ BeginAdopt
  BY <1>2, BeginAttachStep, BeginAdoptStep
<1>3. ASSUME NEW k \in Callers, CallNext(k)
      PROVE  IInv'
  BY <1>3, StartCreateStep, AskDaemonStep, ReturnStep, RevokeAdoptionStep, InsertStep, CommitStep
     DEF CallNext
<1>4. CASE DropUnreplayed
  BY <1>4, DropUnreplayedStep
<1>5. CASE Dispose \/ Kill \/ DisposeNext \/ PurgeRow
  BY <1>5, DisposeStep, KillStep, ResumeDisposeStep, CloseByIdStep, SettleDisposeStep, PurgeRowStep
     DEF DisposeNext
<1>6. CASE BeginReap \/ ReapNext
  BY <1>6, BeginReapStep, PlanReapStep, ReapOrphanStep, EndReapStep DEF ReapNext
<1>7. CASE Serve \/ PtyExits \/ Receive
  BY <1>7, ServeStep, PtyExitsStep, ReceiveStep
<1>8. CASE FailureNext \/ DaemonStarts
  BY <1>8, InsertStep, ReturnStep, DisposeTimesOutStep, ReplayTimesOutStep, DisconnectStep,
     HostRestartStep, DaemonStartsStep DEF FailureNext
<1>9. CASE UNCHANGED vars
  <2>1. UNCHANGED <<row, session, fenceVars, callVars, dispose, reaper, memory, up, entry, closed,
                    spawned, subscribed, requests, replies, faults, wish>>
    BY <1>9 DEF vars, reapVars, daemonVars, wireVars
  <2>2. (row' \in {None} \cup Rows) => HostTyped'
    BY <2>1 DEF IInv, HostTyped
  <2>3. DaemonTyped' /\ replies' \in Seq(Sound)
    BY <2>1 DEF IInv, DaemonTyped
  <2> QED
    BY <2>1, <2>2, <2>3, RowStep
<1> QED
  BY <1>1, <1>2, <1>3, <1>4, <1>5, <1>6, <1>7, <1>8, <1>9 DEF Next

(* What holds of the creates, the dispose and the fence in every state.    *)
THEOREM Invariance == Spec => []IInv
<1>1. Init => IInv
  BY Start
<1>2. IInv /\ [Next]_vars => IInv'
  BY Inductive
<1> QED
  BY <1>1, <1>2, PTL DEF Spec

(* Every variable of the lifecycle keeps its type; the sequence numbers,   *)
(* the fence and the injected faults stay within their bounds              *)
(* (terminal.ts, beginTerminalCreateWork and its callers).                 *)
THEOREM TypeCorrect == Spec => []TypeOK
<1>1. IInv => TypeOK
  <2> SUFFICES ASSUME IInv
               PROVE  TypeOK
    OBVIOUS
  <2>1. CallTyped /\ HostTyped /\ DaemonTyped
    BY DEF IInv, Calls
  <2>2. replies \in Seq(Replies)
    <3>1. replies \in Seq(Sound)
      BY DEF IInv
    <3>2. Sound \subseteq Replies
      BY DEF Sound
    <3> QED
      BY <3>1, <3>2
  <2> QED
    BY <2>1, <2>2, Zenon DEF TypeOK, CallTyped, HostTyped, DaemonTyped, Rows
<1> QED
  BY <1>1, Invariance, PTL

(* Once a terminal with a row has been killed and the kill has run, no     *)
(* attach, adopt or create begun before it brings the terminal back: only  *)
(* an explicit create begun after it does (the create/dispose fence and    *)
(* the re-reads of disposeRequestedAt in createTerminalSessionUnlocked).   *)
THEOREM KilledIsFinal == Spec => []KilledStaysDead
<1>1. IInv => KilledStaysDead
  BY DEF IInv, KillInv, KilledStaysDead, Buried
<1> QED
  BY <1>1, Invariance, PTL

-----------------------------------------------------------------------------
(* A live session and its row.                                             *)

LEMMA OwnsStays ==
  ASSUME SessionOwnsRow,
         session' = None \/ UNCHANGED <<row, session>>
  PROVE  SessionOwnsRow'
  BY DEF SessionOwnsRow

(* Every create that commits writes an active row without a stamp: an      *)
(* opened one clears it, an adopt does not get this far past one.          *)
LEMMA CommitOwns ==
  ASSUME IInv, NEW k \in Callers, Commit(k)
  PROVE  SessionOwnsRow'
<1>1. row' = [status |-> "active", stamp |-> step[k] # "opened" /\ Stamped(row)]
  BY DEF Commit
<1>2. ~(step[k] # "opened" /\ Stamped(row))
  <2> SUFFICES ASSUME step[k] # "opened", Stamped(row)
               PROVE  FALSE
    OBVIOUS
  <2>1. EndedMeanwhile
    BY DEF EndedMeanwhile, Lifecycle, Stamped
  <2> QED
    BY <2>1 DEF Commit, MayCommit, AdoptsExisting
<1>3. row'.status = "active" /\ ~row'.stamp
  BY <1>1, <1>2
<1>4. row' # None
  <2>1. row' \in Rows
    <3>1. PICK b \in BOOLEAN : b = (step[k] # "opened" /\ Stamped(row))
      OBVIOUS
    <3> QED
      BY <1>1, <3>1 DEF Rows, Statuses
  <2> QED
    BY <2>1, RowAssumption DEF Rows
<1> QED
  BY <1>3, <1>4 DEF SessionOwnsRow

(* The writes to a row that are not a create's spare the live session's.   *)
LEMMA RowWriteOwns ==
  ASSUME IInv, SessionOwnsRow,
         SettleDispose \/ PurgeRow \/ KeepRow \/ NoteAbsent \/ CorrectRow
  PROVE  SessionOwnsRow'
<1>1. session' = session
  BY DEF SettleDispose, PurgeRow, KeepRow, NoteAbsent, CorrectRow, EndReap
<1>2. session # None /\ ~session.exited => row' = row
  BY DEF SessionOwnsRow, SettleDispose, Confirms, Stamped, PurgeRow, KeepRow, NoteAbsent,
         CorrectRow, StaleRow
<1> QED
  BY <1>1, <1>2 DEF SessionOwnsRow

LEMMA SessionChangeOwns ==
  ASSUME IInv, SessionOwnsRow, Receive \/ ReplayTimesOut
  PROVE  SessionOwnsRow'
<1>1. CASE session = None
  <2>1. UNCHANGED <<row, session>>
    BY <1>1 DEF Receive, SessionReceives, ReplayTimesOut
  <2> QED
    BY <2>1, OwnsStays
<1>2. CASE session # None
  <2>1. session \in Sessions
    BY <1>2 DEF IInv, HostTyped
  <2>2. CASE ReplayTimesOut
    BY <1>2, <2>1, <2>2 DEF ReplayTimesOut, SessionOwnsRow
  <2>3. CASE Receive
    <3>1. \/ session' = [session EXCEPT !.exited = TRUE]
          \/ row' = row /\ session' = session
          \/ row' = row /\ \E r \in {"ready", "failed"} : session' = [session EXCEPT !.replay = r]
      BY <1>2, <2>3 DEF Receive, SessionReceives
    <3>2. session'.exited = TRUE \/ (row' = row /\ session'.exited = session.exited)
      BY <2>1, <3>1
    <3> QED
      BY <1>2, <3>2 DEF SessionOwnsRow
  <2> QED
    BY <2>2, <2>3
<1> QED
  BY <1>1, <1>2

(* A session that lives has its row: no tombstone is put under it.         *)
LEMMA DisposeOwns ==
  ASSUME SessionOwnsRow, HostTyped, Dispose \/ Kill \/ ReapOrphan \/ ResumeDispose
  PROVE  SessionOwnsRow'
<1>1. CASE session' = None
  BY <1>1, OwnsStays
<1>2. CASE session' # None
  <2>1. session' = session /\ (row # None => row' = row)
    BY <1>2 DEF Dispose, Kill, ReapOrphan, ResumeDispose, RequestDispose, RunDispose
  <2> QED
    BY <2>1 DEF SessionOwnsRow
<1> QED
  BY <1>1, <1>2

LEMMA OwnsInductive == IInv /\ SessionOwnsRow /\ [Next]_vars => SessionOwnsRow'
<1> SUFFICES ASSUME IInv, SessionOwnsRow, [Next]_vars
             PROVE  SessionOwnsRow'
  OBVIOUS
<1>1. ASSUME NEW o \in Openers, BeginOpen(o)
      PROVE  SessionOwnsRow'
  BY <1>1, OwnsStays DEF BeginOpen
<1>2. CASE BeginAttach \/ BeginAdopt \/ BeginReap \/ PlanReap \/ CloseById
  BY <1>2, OwnsStays DEF BeginAttach, BeginAdopt, BeginReap, PlanReap, CloseById
<1>3. ASSUME NEW k \in Callers, CallNext(k) \/ InsertFails(k) \/ CreateTimesOut(k)
      PROVE  SessionOwnsRow'
  <2>1. CASE Commit(k)
    BY <2>1, CommitOwns
  <2>2. CASE ~Commit(k)
    <3>1. UNCHANGED <<row, session>>
      BY <1>3, <2>2 DEF CallNext, StartCreate, AskDaemon, CreateFails, RefuseExisting,
         NothingToAdopt, RevokeAdoption, CancelCreate, UndoCreate, InsertFails, CreateTimesOut
    <3> QED
      BY <3>1, OwnsStays
  <2> QED
    BY <2>1, <2>2
<1>4. CASE DropUnreplayed \/ ConnectionLost \/ DaemonCrash \/ HostRestart
  BY <1>4, OwnsStays DEF DropUnreplayed, ConnectionLost, DaemonCrash, Disconnect, HostRestart
<1>5. CASE Dispose \/ Kill \/ ReapOrphan \/ ResumeDispose
  BY <1>5, DisposeOwns DEF IInv
<1>6. CASE SettleDispose \/ PurgeRow \/ KeepRow \/ NoteAbsent \/ CorrectRow
  BY <1>6, RowWriteOwns
<1>7. CASE Receive \/ ReplayTimesOut
  BY <1>7, SessionChangeOwns
<1>8. CASE Serve \/ PtyExits \/ DisposeTimesOut \/ DaemonStarts \/ UNCHANGED vars
  BY <1>8, OwnsStays DEF Serve, PtyExits, DisposeTimesOut, DaemonStarts, vars
<1> QED
  BY <1>1, <1>2, <1>3, <1>4, <1>5, <1>6, <1>7, <1>8 DEF Next, DisposeNext, ReapNext, FailureNext

(* A session in memory whose process has not exited fronts an active row   *)
(* that nobody has asked to kill: no dispose, confirmation, purge or       *)
(* stale-row correction left over from an earlier generation buries a      *)
(* terminal that lives (createTerminalSessionUnlocked, runDisposeSession,  *)
(* reapOrphanedSessions).                                                  *)
THEOREM LiveOwnsRow == Spec => []SessionOwnsRow
<1>1. Init => SessionOwnsRow
  BY DEF Init, SessionOwnsRow
<1>2. IInv /\ SessionOwnsRow /\ [Next]_vars => SessionOwnsRow'
  BY OwnsInductive
<1> QED
  BY <1>1, <1>2, Invariance, PTL DEF Spec
===============================================================================
