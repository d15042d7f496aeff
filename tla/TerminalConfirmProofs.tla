------------------------- MODULE TerminalConfirmProofs -------------------------
(***************************************************************************)
(* A row that is marked disposed never leaves its PTY alive with nothing   *)
(* to kill it, for any number of creates, PTYs, sequence numbers and       *)
(* failures.                                                               *)
(*                                                                         *)
(* The confirmation itself may be false: the frame that settles a close    *)
(* can answer an earlier request.  What saves it is the order of one       *)
(* connection.  The dispose's close is among the requests until the daemon *)
(* executes it (CloseOwed), a PTY that has died is never spawned again     *)
(* (Named), and a lost connection fails the dispose it would have left     *)
(* without its close.  A close by id waits for its own answer (ByIdDone),  *)
(* unless no daemon runs, and then no PTY does (Down).                     *)
(***************************************************************************)
EXTENDS TerminalLifecycleProofs

(* The daemon is away: nothing is alive, under way or waited for.          *)
AwaySteps == {"idle", "queued", "env", "undo", "failed"}
Down ==
  ~up => /\ entry = None /\ session = None /\ requests = <<>> /\ replies = <<>>
         /\ \A k \in Callers : step[k] \in AwaySteps

Named == entry \in spawned \cup {None} /\ dispose.target \in spawned \cup {None}

CloseSent == \E i \in 1..Len(requests) : requests[i] = "close"
CloseOwed == dispose.phase \in {"closing", "closed"} /\ TargetLives => CloseSent
ByIdDone == dispose.phase = "byIdClosed" => ~TargetLives

Doom == Named /\ CloseOwed /\ ByIdDone

-----------------------------------------------------------------------------
(* While the daemon is away.                                               *)

LEMMA ReturnsSteps ==
  ASSUME IInv, NEW k \in Callers, NEW outcome, Returns(k, outcome)
  PROVE  \A j \in Callers : step'[j] \in {"idle", "queued"} \/ (j # k /\ step'[j] = step[j])
  <1>1. step \in [Callers -> Steps]
    BY DEF IInv, Calls, CallTyped
  <1>2. step' = [step EXCEPT ![k] = "queued"] \/ step' = [step EXCEPT ![k] = "idle"]
    BY DEF Returns
  <1> QED
    BY <1>1, <1>2

LEMMA DownReturns ==
  ASSUME IInv, Down, NEW k \in Callers, NEW outcome, Returns(k, outcome),
         UNCHANGED <<up, entry, session, requests, replies>>
  PROVE  Down'
  BY ReturnsSteps DEF Down, AwaySteps

LEMMA DownStays ==
  ASSUME Down, UNCHANGED <<up, entry, session, requests, replies, step>>
  PROVE  Down'
  BY DEF Down

LEMMA DownEnqueues ==
  ASSUME IInv, Down, NEW k \in Callers, NEW n, Enqueue(k, n),
         UNCHANGED <<up, entry, session, requests, replies>>
  PROVE  Down'
  <1>1. step \in [Callers -> Steps] /\ step' = [step EXCEPT ![k] = "queued"]
    BY DEF IInv, Calls, CallTyped, Enqueue
  <1> QED
    BY <1>1 DEF Down, AwaySteps

LEMMA DownCall ==
  ASSUME IInv, Down, NEW k \in Callers, CallNext(k) \/ InsertFails(k) \/ CreateTimesOut(k)
  PROVE  Down'
  <1>1. up' = up /\ entry' = entry
    BY DEF CallNext, StartCreate, AskDaemon, CreateFails, RefuseExisting, NothingToAdopt,
       RevokeAdoption, CancelCreate, Commit, UndoCreate, InsertFails, CreateTimesOut, daemonVars
  <1>2. CASE up
    BY <1>1, <1>2 DEF Down
  <1>3. CASE ~up
    <2>1. step[k] \in AwaySteps
      BY <1>3 DEF Down
    <2>2. CASE StartCreate(k) /\ step' = [step EXCEPT ![k] = "env"]
      <3>1. UNCHANGED <<session, requests, replies>>
        BY <2>2 DEF StartCreate, wireVars
      <3>2. step \in [Callers -> Steps]
        BY DEF IInv, Calls, CallTyped
      <3> QED
        BY <1>1, <2>2, <3>1, <3>2 DEF Down, AwaySteps
    <2>3. CASE StartCreate(k) /\ (Returns(k, "ok") \/ Returns(k, "lost"))
      BY <1>1, <2>3, DownReturns DEF StartCreate, wireVars
    <2>4. CASE AskDaemon(k)
      <3>1. /\ Returns(k, "gone") \/ Returns(k, "transient")
            /\ UNCHANGED <<session, requests, replies>>
        BY <1>3, <2>4 DEF AskDaemon
      <3> QED
        BY <1>1, <3>1, DownReturns
    <2>5. CASE CreateFails(k)
      BY <1>1, <2>5, DownReturns DEF CreateFails, wireVars
    <2>6. CASE UndoCreate(k)
      BY <1>1, <2>6, DownReturns DEF UndoCreate, wireVars
    <2>7. ~(RefuseExisting(k) \/ NothingToAdopt(k) \/ RevokeAdoption(k) \/ CreateTimesOut(k))
      BY <2>1 DEF AwaySteps, RefuseExisting, NothingToAdopt, RevokeAdoption, CreateTimesOut,
         Waiting
    <2>8. ~(CancelCreate(k) \/ Commit(k) \/ InsertFails(k))
      BY <2>1 DEF AwaySteps, CancelCreate, Commit, InsertFails, MayCommit
    <2> QED
      BY <2>2, <2>3, <2>4, <2>5, <2>6, <2>7, <2>8 DEF CallNext, StartCreate
  <1> QED
    BY <1>2, <1>3

(* Without a session a dispose writes nothing to the connection.           *)
LEMMA DownDispose ==
  ASSUME Down, Dispose \/ Kill \/ ReapOrphan \/ ResumeDispose
  PROVE  Down'
  <1>1. UNCHANGED <<up, entry, replies, step>>
    BY DEF Dispose, Kill, ReapOrphan, ResumeDispose, callVars, daemonVars
  <1>2. session = None => session' = None /\ requests' = requests
    BY DEF Dispose, Kill, ReapOrphan, ResumeDispose, RequestDispose, RunDispose
  <1> QED
    BY <1>1, <1>2 DEF Down

LEMMA DownCrash ==
  ASSUME IInv, DaemonCrash
  PROVE  Down'
  <1>1. entry' = None /\ session' = None /\ requests' = <<>> /\ replies' = <<>>
    BY DEF DaemonCrash, Disconnect
  <1>2. ASSUME NEW j \in Callers
        PROVE  step'[j] \in AwaySteps
    <2>1. step[j] \in Steps /\ step[j] \notin {"opened", "adopting", "listed", "failed"}
      BY DEF DaemonCrash, Settled, IInv, Calls, CallTyped
    <2>2. CASE step[j] \in {"idle", "queued", "env", "undo"}
      <3>1. CASE Head1 \in Callers /\ Waiting(Head1)
        <4>1. PICK o : Returns(Head1, o)
          BY <3>1 DEF DaemonCrash, Disconnect
        <4> QED
          BY <2>2, <3>1, <4>1, ReturnsSteps DEF AwaySteps
      <3>2. CASE ~(Head1 \in Callers /\ Waiting(Head1))
        BY <2>2, <3>2 DEF DaemonCrash, Disconnect, callVars, AwaySteps
      <3> QED
        BY <3>1, <3>2
    <2>3. CASE step[j] \in {"open", "exists", "list", "revoke"}
      <3>1. Head1 = j
        BY <2>3, Running DEF IInv
      <3>2. Waiting(Head1)
        BY <2>3, <3>1 DEF Waiting
      <3>3. PICK o : Returns(j, o)
        BY <3>1, <3>2 DEF DaemonCrash, Disconnect
      <3> QED
        BY <3>3, ReturnsSteps DEF AwaySteps
    <2> QED
      BY <2>1, <2>2, <2>3 DEF Steps
  <1> QED
    BY <1>1, <1>2 DEF Down

LEMMA DownInductive == IInv /\ Down /\ [Next]_vars => Down'
  <1> SUFFICES ASSUME IInv, Down, [Next]_vars
               PROVE  Down'
    OBVIOUS
  <1>1. ASSUME NEW o \in Openers, BeginOpen(o)
        PROVE  Down'
    <2>1. o \in Callers
      BY DEF Callers
    <2> QED
      BY <1>1, <2>1, DownEnqueues DEF BeginOpen, daemonVars, wireVars
  <1>2. CASE BeginAttach \/ BeginAdopt
    <2>1. CASE BeginAttach
      <3>1. "attach" \in Callers /\ Enqueue("attach", 2)
        BY <2>1 DEF BeginAttach, Callers
      <3> QED
        BY <2>1, <3>1, DownEnqueues DEF BeginAttach, daemonVars, wireVars
    <2>2. CASE BeginAdopt
      <3>1. "adopt" \in Callers /\ Enqueue("adopt", 1)
        BY <2>2 DEF BeginAdopt, Callers
      <3> QED
        BY <2>2, <3>1, DownEnqueues DEF BeginAdopt, daemonVars, wireVars
    <2> QED
      BY <1>2, <2>1, <2>2
  <1>3. ASSUME NEW k \in Callers, CallNext(k) \/ InsertFails(k) \/ CreateTimesOut(k)
        PROVE  Down'
    BY <1>3, DownCall
  <1>4. CASE Dispose \/ Kill \/ ReapOrphan \/ ResumeDispose
    BY <1>4, DownDispose
  <1>5. CASE CloseById \/ SettleDispose \/ PurgeRow \/ DisposeTimesOut
    BY <1>5, DownStays DEF CloseById, SettleDispose, PurgeRow, DisposeTimesOut, callVars,
       daemonVars, wireVars
  <1>6. CASE PlanReap \/ KeepRow \/ NoteAbsent \/ CorrectRow
    BY <1>6, DownStays DEF PlanReap, KeepRow, NoteAbsent, CorrectRow, EndReap, callVars,
       daemonVars, wireVars
  <1>7. CASE DropUnreplayed \/ BeginReap \/ ReplayTimesOut \/ ConnectionLost
    <2>1. up
      BY <1>7 DEF Down, DropUnreplayed, BeginReap, ReplayTimesOut, ConnectionLost
    <2>2. up' = up
      BY <1>7 DEF DropUnreplayed, BeginReap, ReplayTimesOut, ConnectionLost, daemonVars
    <2> QED
      BY <2>1, <2>2 DEF Down
  <1>8. CASE Serve \/ PtyExits \/ Receive
    <2>1. up
      BY <1>8 DEF Down, Serve, PtyExits, Receive
    <2>2. up' = up
      BY <1>8 DEF Serve, PtyExits, Receive, daemonVars
    <2> QED
      BY <2>1, <2>2 DEF Down
  <1>9. CASE DaemonCrash
    BY <1>9, DownCrash
  <1>10. CASE DaemonStarts
    BY <1>10 DEF DaemonStarts, Down
  <1>11. CASE HostRestart
    BY <1>11 DEF HostRestart, Down, AwaySteps
  <1>12. CASE UNCHANGED vars
    BY <1>12, DownStays DEF vars, callVars, daemonVars, wireVars
  <1> QED
    BY <1>1, <1>2, <1>3, <1>4, <1>5, <1>6, <1>7, <1>8, <1>9, <1>10, <1>11, <1>12
       DEF Next, DisposeNext, ReapNext, FailureNext

-----------------------------------------------------------------------------
(* The close that is owed.                                                 *)

LEMMA SentAppends ==
  ASSUME IInv, NEW r \in Requests, requests' = Append(requests, r), CloseSent
  PROVE  CloseSent'
  <1>1. requests \in Seq(Requests)
    BY DEF IInv, DaemonTyped
  <1>2. /\ Len(requests) \in Nat /\ Len(requests') = Len(requests) + 1
        /\ \A i \in 1..Len(requests) : requests'[i] = requests[i]
    BY <1>1, AppendFacts
  <1>3. PICK i \in 1..Len(requests) : requests[i] = "close"
    BY DEF CloseSent
  <1>4. i \in 1..Len(requests') /\ requests'[i] = "close"
    BY <1>2, <1>3
  <1> QED
    BY <1>4 DEF CloseSent

(* Only a request that was executed goes.                                  *)
LEMMA SentServed ==
  ASSUME IInv, requests # <<>>, requests' = Tail(requests), Head(requests) # "close", CloseSent
  PROVE  CloseSent'
  <1>1. requests \in Seq(Requests)
    BY DEF IInv, DaemonTyped
  <1>2. /\ Head(requests) = requests[1] /\ Len(requests) \in Nat \ {0}
        /\ Len(requests') = Len(requests) - 1
        /\ \A i \in 1..(Len(requests) - 1) : requests'[i] = requests[i + 1]
    BY <1>1, TailFacts
  <1>3. PICK i \in 1..Len(requests) : requests[i] = "close"
    BY DEF CloseSent
  <1>4. i # 1
    BY <1>2, <1>3
  <1>5. i - 1 \in 1..(Len(requests) - 1) /\ (i - 1) + 1 = i
    BY <1>2, <1>4
  <1>6. requests'[i - 1] = "close" /\ i - 1 \in 1..Len(requests')
    BY <1>2, <1>3, <1>5
  <1> QED
    BY <1>6 DEF CloseSent

(* A step that leaves the PTYs alone, sends what it sends behind what is   *)
(* under way, and moves the dispose on, if at all, to its answer.          *)
LEMMA DoomStays ==
  ASSUME Doom, UNCHANGED <<entry, closed, spawned>>, CloseSent => CloseSent',
         dispose'.target \in {None, dispose.target},
         dispose'.phase \in {"closing", "closed"} =>
           dispose.phase \in {"closing", "closed"} /\ dispose'.target = dispose.target,
         dispose'.phase = "byIdClosed" =>
           dispose.phase = "byIdClosed" /\ dispose'.target = dispose.target
  PROVE  Doom'
  <1>1. Named'
    BY DEF Doom, Named
  <1>2. dispose'.target = dispose.target => (TargetLives' => TargetLives)
    BY DEF TargetLives, Alive
  <1> QED
    BY <1>1, <1>2 DEF Doom, CloseOwed, ByIdDone

LEMMA DoomUntouched ==
  ASSUME IInv, Doom, UNCHANGED <<entry, closed, spawned, dispose>>,
         requests' = requests \/ \E r \in Requests : requests' = Append(requests, r)
  PROVE  Doom'
  <1>1. CloseSent => CloseSent'
    <2>1. CASE requests' = requests
      BY <2>1 DEF CloseSent
    <2>2. CASE requests' # requests
      BY <2>2, SentAppends
    <2> QED
      BY <2>1, <2>2
  <1> QED
    BY <1>1, DoomStays

(* The target dies, or was dead: nothing is owed.                          *)
LEMMA DoomDead ==
  ASSUME Named', ~TargetLives'
  PROVE  Doom'
  BY DEF Doom, CloseOwed, ByIdDone

LEMMA DoomCall ==
  ASSUME IInv, Doom, NEW k \in Callers, CallNext(k) \/ InsertFails(k) \/ CreateTimesOut(k)
  PROVE  Doom'
  <1>1. CASE UndoCreate(k)
    <2>1. /\ UNCHANGED <<entry, spawned, dispose, requests>>
          /\ closed' = closed \/ closed' = (closed \/ entry # None)
      BY <1>1 DEF UndoCreate, KillEntry, wireVars
    <2>2. CASE closed' = closed
      BY <2>1, <2>2, DoomUntouched
    <2>3. CASE closed' = (closed \/ entry # None)
      <3>1. Named' /\ ~TargetLives'
        BY <2>1, <2>3 DEF Doom, Named, TargetLives, Alive
      <3> QED
        BY <3>1, DoomDead
    <2> QED
      BY <2>1, <2>2, <2>3
  <1>2. CASE ~UndoCreate(k)
    <2>1. UNCHANGED <<entry, closed, spawned, dispose>>
      BY <1>2 DEF CallNext, StartCreate, AskDaemon, CreateFails, RefuseExisting, NothingToAdopt,
         RevokeAdoption, CancelCreate, Commit, InsertFails, CreateTimesOut, daemonVars
    <2>2. \/ requests' = requests
          \/ \E r \in {"open", "list", "close", "subscribe"} : requests' = Append(requests, r)
      BY <1>2 DEF CallNext, StartCreate, AskDaemon, CreateFails, RefuseExisting, NothingToAdopt,
         RevokeAdoption, CancelCreate, Commit, InsertFails, CreateTimesOut, wireVars
    <2>3. requests' = requests \/ \E r \in Requests : requests' = Append(requests, r)
      BY <2>2 DEF Requests
    <2> QED
      BY <2>1, <2>3, DoomUntouched
  <1> QED
    BY <1>1, <1>2

(* A dispose of a live session owes its close from the start.              *)
LEMMA DoomRuns ==
  ASSUME IInv, Doom, NEW r, RunDispose(r), UNCHANGED <<entry, closed, spawned>>
  PROVE  Doom'
  <1>1. CASE session # None /\ session.exited
    <2>1. dispose' = NoDispose /\ requests' = Append(requests, "unsubscribe")
      BY <1>1 DEF RunDispose
    <2>2. CloseSent => CloseSent'
      BY <2>1, SentAppends DEF Requests
    <2> QED
      BY <2>1, <2>2, DoomStays DEF NoDispose
  <1>2. CASE ~(session # None /\ session.exited)
    <2>1. PICK h : dispose' = [phase |-> IF session = None THEN "byId" ELSE "closing",
                               hadRow |-> h, target |-> ListedPty]
      BY <1>2 DEF RunDispose
    <2>2. Named'
      BY <2>1 DEF Doom, Named, ListedPty
    <2>3. CASE session = None
      BY <2>1, <2>2, <2>3 DEF Doom, CloseOwed, ByIdDone
    <2>4. CASE session # None
      <3>1. requests' = requests \o <<"close", "unsubscribe">>
        BY <1>2, <2>4 DEF RunDispose
      <3>2. requests \in Seq(Requests) /\ <<"close", "unsubscribe">> \in Seq(Requests)
        BY DEF IInv, DaemonTyped, Requests
      <3>3. /\ Len(requests) \in Nat /\ Len(requests') = Len(requests) + 2
            /\ requests'[Len(requests) + 1] = "close"
        BY <3>1, <3>2
      <3>4. CloseSent'
        BY <3>3 DEF CloseSent
      <3> QED
        BY <2>1, <2>2, <2>4, <3>4 DEF Doom, CloseOwed, ByIdDone
    <2> QED
      BY <2>3, <2>4
  <1> QED
    BY <1>1, <1>2

LEMMA DoomDispose ==
  ASSUME IInv, Doom, Dispose \/ Kill \/ ReapOrphan \/ ResumeDispose
  PROVE  Doom'
  <1>1. UNCHANGED <<entry, closed, spawned>>
    BY DEF Dispose, Kill, ReapOrphan, ResumeDispose, daemonVars
  <1>2. \/ \E r : RunDispose(r)
        \/ UNCHANGED <<dispose, requests>>
        \/ dispose' = [NoDispose EXCEPT !.phase = "waiting"] /\ requests' = requests
    BY DEF Dispose, Kill, ReapOrphan, ResumeDispose, RequestDispose
  <1>3. CASE \E r : RunDispose(r)
    BY <1>1, <1>3, DoomRuns
  <1>4. CASE UNCHANGED <<dispose, requests>>
    BY <1>1, <1>4, DoomUntouched
  <1>5. CASE dispose' = [NoDispose EXCEPT !.phase = "waiting"] /\ requests' = requests
    <2>1. dispose'.phase = "waiting" /\ dispose'.target = None
      BY <1>5 DEF NoDispose
    <2> QED
      BY <1>1, <1>5, <2>1, DoomStays DEF CloseSent
  <1> QED
    BY <1>2, <1>3, <1>4, <1>5

(* The close by id has killed what the id named; with no daemon there is   *)
(* nothing it names.                                                       *)
LEMMA DoomById ==
  ASSUME IInv, Down, Doom, CloseById
  PROVE  Doom'
  <1>1. /\ UNCHANGED <<entry, spawned, requests>> /\ dispose \in Disposes
        /\ closed' = closed \/ closed' = (closed \/ entry # None)
    BY DEF CloseById, KillEntry, wireVars, IInv, HostTyped
  <1>2. CASE /\ dispose' = [dispose EXCEPT !.phase = "byIdClosed"]
             /\ IF up THEN KillEntry ELSE UNCHANGED closed
    <2>1. dispose'.target = dispose.target
      BY <1>1, <1>2
    <2>2. Named'
      BY <1>1, <2>1 DEF Doom, Named
    <2>3. ~TargetLives'
      BY <1>1, <1>2, <2>1 DEF KillEntry, TargetLives, Alive, Down
    <2> QED
      BY <2>2, <2>3, DoomDead
  <1>3. CASE dispose' = [dispose EXCEPT !.phase = "byIdFailed"]
    <2>1. dispose'.target = dispose.target /\ dispose'.phase = "byIdFailed"
      BY <1>1, <1>3
    <2> QED
      BY <1>1, <2>1 DEF Doom, Named, CloseOwed, ByIdDone
  <1> QED
    BY <1>2, <1>3 DEF CloseById

(* A spawn is fresh; a close that is executed kills.                       *)
LEMMA DoomServe ==
  ASSUME IInv, Doom, Serve
  PROVE  Doom'
  <1>1. requests # <<>> /\ requests' = Tail(requests) /\ dispose' = dispose
    BY DEF Serve
  <1>2. CASE Head(requests) = "open"
    <2>1. ServeOpen
      BY <1>2 DEF Serve
    <2>2. CASE UNCHANGED <<entry, closed, spawned>>
      <3>1. CloseSent => CloseSent'
        BY <1>1, <1>2, SentServed
      <3> QED
        BY <1>1, <2>2, <3>1, DoomStays
    <2>3. CASE ~UNCHANGED <<entry, closed, spawned>>
      <3>1. \/ entry' = None /\ spawned' = spawned
            \/ \E p \in Ptys \ spawned : entry' = p /\ spawned' = spawned \cup {p}
        BY <2>1, <2>3 DEF ServeOpen
      <3>2. Named' /\ ~TargetLives'
        BY <1>1, <3>1, NamesAssumption DEF Doom, Named, TargetLives, Alive
      <3> QED
        BY <3>2, DoomDead
    <2> QED
      BY <2>2, <2>3
  <1>3. CASE Head(requests) = "close"
    <2>1. /\ UNCHANGED <<entry, spawned>>
          /\ closed' = (closed \/ entry # None) \/ closed' = TRUE
      BY <1>3 DEF Serve, ServeClose, KillEntry
    <2>2. Named' /\ ~TargetLives'
      BY <1>1, <2>1 DEF Doom, Named, TargetLives, Alive
    <2> QED
      BY <2>2, DoomDead
  <1>4. CASE Head(requests) \in {"list", "subscribe", "unsubscribe"}
    <2>1. UNCHANGED <<entry, closed, spawned>>
      BY <1>4 DEF Serve
    <2>2. CloseSent => CloseSent'
      BY <1>1, <1>4, SentServed
    <2> QED
      BY <1>1, <2>1, <2>2, DoomStays
  <1> QED
    BY <1>2, <1>3, <1>4 DEF Serve

LEMMA DoomReceive ==
  ASSUME IInv, Doom, Receive
  PROVE  Doom'
  <1>1. UNCHANGED <<entry, closed, spawned>>
    BY DEF Receive, daemonVars
  <1>2. \/ requests' = requests
        \/ requests' = Append(requests, "list")
    BY DEF Receive, CreateReceives
  <1>3. CloseSent => CloseSent'
    BY <1>2, SentAppends DEF CloseSent, Requests
  <1>4. dispose \in Disposes
    BY DEF IInv, HostTyped
  <1>5. \/ dispose' = dispose
        \/ /\ dispose.phase = "closing"
           /\ \/ dispose' = [dispose EXCEPT !.phase = "closed"]
              \/ dispose' = [dispose EXCEPT !.phase = "failed"]
    BY DEF Receive, DisposeReceives
  <1>6. CASE dispose' = dispose
    BY <1>1, <1>3, <1>6, DoomStays
  <1>7. CASE /\ dispose.phase = "closing"
             /\ dispose' = [dispose EXCEPT !.phase = "closed"]
    <2>1. dispose'.phase = "closed" /\ dispose'.target = dispose.target
      BY <1>4, <1>7
    <2> QED
      BY <1>1, <1>3, <1>7, <2>1, DoomStays
  <1>8. CASE dispose' = [dispose EXCEPT !.phase = "failed"]
    <2>1. dispose'.phase = "failed" /\ dispose'.target = dispose.target
      BY <1>4, <1>8
    <2> QED
      BY <1>1, <1>3, <2>1, DoomStays
  <1> QED
    BY <1>5, <1>6, <1>7, <1>8

(* A dispose that is over, or has failed, owes nothing.                    *)
LEMMA DoomEnds ==
  ASSUME Named', dispose'.phase \notin {"closing", "closed", "byIdClosed"}
  PROVE  Doom'
  BY DEF Doom, CloseOwed, ByIdDone

LEMMA DoomConnection ==
  ASSUME IInv, Doom, ConnectionLost \/ DaemonCrash
  PROVE  Doom'
  <1>1. dispose \in Disposes /\ dispose.phase # "closed" /\ spawned' = spawned
    BY DEF IInv, HostTyped, ConnectionLost, DaemonCrash, Settled
  <1>2. \/ dispose.phase # "closing" /\ dispose' = dispose
        \/ dispose' = [dispose EXCEPT !.phase = "failed"]
    BY DEF ConnectionLost, DaemonCrash, Disconnect
  <1>3. dispose'.target = dispose.target
    <2>1. CASE dispose' = dispose
      BY <2>1
    <2>2. CASE dispose' = [dispose EXCEPT !.phase = "failed"]
      BY <1>1, <2>2
    <2> QED
      BY <1>2, <2>1, <2>2
  <1>4. CASE ConnectionLost
    <2>1. UNCHANGED <<entry, closed>>
      BY <1>4 DEF ConnectionLost
    <2>2. Named'
      BY <1>1, <1>3, <2>1 DEF Doom, Named
    <2>3. CASE dispose.phase # "closing" /\ dispose' = dispose
      BY <1>1, <2>1, <2>2, <2>3 DEF Doom, CloseOwed, ByIdDone, TargetLives, Alive
    <2>4. CASE dispose' = [dispose EXCEPT !.phase = "failed"]
      <3>1. dispose'.phase = "failed"
        BY <1>1, <2>4
      <3> QED
        BY <2>2, <3>1, DoomEnds
    <2> QED
      BY <1>2, <2>3, <2>4
  <1>5. CASE DaemonCrash
    <2>1. entry' = None
      BY <1>5 DEF DaemonCrash
    <2>2. Named' /\ ~TargetLives'
      BY <1>1, <1>3, <2>1 DEF Doom, Named, TargetLives, Alive
    <2> QED
      BY <2>2, DoomDead
  <1> QED
    BY <1>4, <1>5

LEMMA DoomInductive == IInv /\ Down /\ Doom /\ [Next]_vars => Doom'
  <1> SUFFICES ASSUME IInv, Down, Doom, [Next]_vars
               PROVE  Doom'
    OBVIOUS
  <1> DEFINE Sends == requests' = requests \/ \E r \in Requests : requests' = Append(requests, r)
  <1>1. ASSUME NEW o \in Openers, BeginOpen(o)
        PROVE  Doom'
    BY <1>1, DoomUntouched DEF BeginOpen, daemonVars, wireVars
  <1>2. CASE BeginAttach \/ BeginAdopt
    BY <1>2, DoomUntouched DEF BeginAttach, BeginAdopt, daemonVars, wireVars
  <1>3. ASSUME NEW k \in Callers, CallNext(k) \/ InsertFails(k) \/ CreateTimesOut(k)
        PROVE  Doom'
    BY <1>3, DoomCall
  <1>4. CASE Dispose \/ Kill \/ ReapOrphan \/ ResumeDispose
    BY <1>4, DoomDispose
  <1>5. CASE CloseById
    BY <1>5, DoomById
  <1>6. CASE SettleDispose \/ HostRestart
    <2>1. UNCHANGED <<entry, spawned>> /\ dispose' = NoDispose
      BY <1>6 DEF SettleDispose, HostRestart, daemonVars
    <2>2. Named' /\ dispose'.phase = "idle"
      BY <2>1 DEF Doom, Named, NoDispose
    <2> QED
      BY <2>2, DoomEnds
  <1>7. CASE DisposeTimesOut
    <2>1. UNCHANGED <<entry, spawned>> /\ dispose' = [dispose EXCEPT !.phase = "failed"]
      BY <1>7 DEF DisposeTimesOut, daemonVars
    <2>2. dispose \in Disposes
      BY DEF IInv, HostTyped
    <2>3. dispose'.phase = "failed" /\ dispose'.target = dispose.target
      BY <2>1, <2>2
    <2>4. Named'
      BY <2>1, <2>3 DEF Doom, Named
    <2> QED
      BY <2>3, <2>4, DoomEnds
  <1>8. CASE Serve
    BY <1>8, DoomServe
  <1>9. CASE PtyExits
    <2>1. entry' = None /\ UNCHANGED <<spawned, dispose>>
      BY <1>9 DEF PtyExits
    <2>2. Named' /\ ~TargetLives'
      BY <2>1 DEF Doom, Named, TargetLives, Alive
    <2> QED
      BY <2>2, DoomDead
  <1>10. CASE Receive
    BY <1>10, DoomReceive
  <1>11. CASE ConnectionLost \/ DaemonCrash
    BY <1>11, DoomConnection
  <1>12. CASE DropUnreplayed \/ BeginReap
    <2>1. UNCHANGED <<entry, closed, spawned, dispose>>
      BY <1>12 DEF DropUnreplayed, BeginReap, daemonVars
    <2>2. \E r \in {"unsubscribe", "list"} : requests' = Append(requests, r)
      BY <1>12 DEF DropUnreplayed, BeginReap
    <2>3. Sends
      BY <2>2 DEF Requests
    <2> QED
      BY <2>1, <2>3, DoomUntouched
  <1>13. CASE PurgeRow \/ ReplayTimesOut \/ DaemonStarts \/ UNCHANGED vars
    BY <1>13, DoomUntouched DEF PurgeRow, ReplayTimesOut, DaemonStarts, vars, daemonVars, wireVars
  <1>14. CASE PlanReap \/ KeepRow \/ NoteAbsent \/ CorrectRow
    BY <1>14, DoomUntouched DEF PlanReap, KeepRow, NoteAbsent, CorrectRow, EndReap, daemonVars,
       wireVars
  <1> QED
    BY <1>1, <1>2, <1>3, <1>4, <1>5, <1>6, <1>7, <1>8, <1>9, <1>10, <1>11, <1>12, <1>13, <1>14
       DEF Next, DisposeNext, ReapNext, FailureNext

(* A dispose that marks the row while its PTY lives was settled by a frame *)
(* of the connection, and its close has not been executed.                 *)
LEMMA SettledOwes ==
  ASSUME IInv, Doom, SettleDispose, row' # row, TargetLives
  PROVE  \E i \in DOMAIN requests : requests[i] = "close"
  <1>1. CloseSucceeded
    BY DEF SettleDispose
  <1>2. dispose.phase = "closed"
    BY <1>1 DEF CloseSucceeded, Doom, ByIdDone
  <1>3. CloseSent
    BY <1>2 DEF Doom, CloseOwed
  <1>4. requests \in Seq(Requests)
    BY DEF IInv, DaemonTyped
  <1>5. DOMAIN requests = 1..Len(requests)
    BY <1>4
  <1> QED
    BY <1>3, <1>5 DEF CloseSent

(* A row marked disposed never leaves its PTY alive with nothing to kill   *)
(* it: the PTY is dead, or the dispose's own close is still on its way to  *)
(* the daemon, whichever frames answered it and whatever was lost          *)
(* (runDisposeSession, closeDaemonSessionById).                            *)
THEOREM ConfirmedKillLands == Spec => ConfirmedIsDoomed
  <1>1. Init => Down /\ Doom
    <2> SUFFICES ASSUME Init
                 PROVE  Down /\ Doom
      OBVIOUS
    <2>1. up /\ entry = None /\ dispose = NoDispose
      BY DEF Init
    <2> QED
      BY <2>1 DEF Down, Doom, Named, CloseOwed, ByIdDone, NoDispose
  <1>2. IInv /\ Down /\ [Next]_vars => Down'
    BY DownInductive
  <1>3. IInv /\ Down /\ Doom /\ [Next]_vars => Doom'
    BY DoomInductive
  <1>4. IInv /\ Doom /\ [Next]_vars
          => [SettleDispose /\ row' # row /\ TargetLives =>
                \E i \in DOMAIN requests : requests[i] = "close"]_vars
    BY SettledOwes
  <1> QED
    BY <1>1, <1>2, <1>3, <1>4, Invariance, PTL DEF Spec, ConfirmedIsDoomed
===============================================================================
