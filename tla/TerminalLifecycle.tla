-------------------------- MODULE TerminalLifecycle --------------------------
(***************************************************************************)
(* One terminal id in the host service (packages/host-service, terminal/): *)
(* the in-memory session, the durable row and the daemon's PTY, and the    *)
(* operations that race over them: explicit creates, attaches that adopt   *)
(* or respawn, lazy adopts, disposes, the reaper, daemon and host          *)
(* failures.                                                               *)
(*                                                                         *)
(* Everything the code keeps is keyed by terminal id, so one id is         *)
(* modelled. The host is a single-threaded event loop: an action is the    *)
(* code between two awaits.  Requests and replies travel in order on the   *)
(* one shared DaemonClient; closeDaemonSessionById uses a connection of    *)
(* its own.                                                                *)
(*                                                                         *)
(* `faults` is a budget for the failures the environment may inject.       *)
(***************************************************************************)
EXTENDS Integers, Sequences

CONSTANTS
  Openers,      \* explicit create requests that may be in flight together
  Recovery,     \* the recovering callers, of "attach" and "adopt"
  Ptys,         \* PTYs the daemon ever spawns for this id: bounds the spawns
  None,
  OthersAlive,  \* the daemon also lists terminals of other ids
  MaxSeq,       \* bounds lifecycleSeq
  MaxFaults     \* bounds faults

ASSUME NamesAssumption ==
  /\ None \notin Ptys
  /\ Recovery \subseteq {"attach", "adopt"}
  /\ Openers \cap {"attach", "adopt"} = {}

ASSUME BoundsAssumption ==
  OthersAlive \in BOOLEAN /\ MaxSeq \in Nat /\ MaxFaults \in Nat

VARIABLES
  row,              \* terminal_sessions row: status, stamp (disposeRequestedAt # null)
  session,          \* sessions.get(id), with the state of its replay
  lifecycleSeq, createsInFlight, lastDisposeSeq,
  queue,            \* lifecycleOperations: the creates of this id, head running
  step,             \* where each create is
  createSeq,        \* its sequence number (cancelSeq of an attach)
  found,            \* the PTY its last daemon reply named
  attach,           \* attachResolutions: idle, or which create it is awaiting
  dispose,          \* disposeResolutions: the dispose in flight (target is history)
  reaper, memory,   \* the reap pass in flight; what passes remember
  up, entry, closed, spawned, subscribed,    \* the daemon, for this id
  requests, replies,                         \* the DaemonClient's connection
  faults,
  wish              \* history: the last instruction, "open" or "killed"

fenceVars  == <<lifecycleSeq, createsInFlight, lastDisposeSeq>>
callVars   == <<queue, step, createSeq, found, attach>>
reapVars   == <<reaper, memory>>
daemonVars == <<up, entry, closed, spawned, subscribed>>
wireVars   == <<requests, replies>>
vars == <<row, session, fenceVars, callVars, dispose, reapVars, daemonVars,
          wireVars, faults, wish>>

Callers == Openers \cup Recovery

Statuses == {"active", "exited", "disposed"}
Steps == {"idle", "queued", "env", "open", "opened", "exists", "adopting",
          "list", "listed", "revoke", "undo", "failed"}
Replies == [kind : {"open-ok", "list", "exit"}, pty : Ptys \cup {None}]
           \cup [kind : {"exists", "unknown", "spawn", "ekill", "closed", "replayed"},
                 pty : {None}]
Requests == {"open", "close", "list", "subscribe", "unsubscribe"}

ASSUME RowAssumption == None \notin [status : Statuses, stamp : BOOLEAN]

(* The type invariant; the fence counts and the fault budget stay in       *)
(* bounds.                                                                 *)
TypeOK ==
  /\ row \in {None} \cup [status : Statuses, stamp : BOOLEAN]
  /\ session \in {None} \cup
       [pty : Ptys, exited : BOOLEAN, replay : {"pending", "ready", "failed"}]
  /\ lifecycleSeq \in 0..MaxSeq
  /\ createsInFlight \in Nat
  /\ lastDisposeSeq \in 0..MaxSeq
  /\ queue \in Seq(Callers)
  /\ step \in [Callers -> Steps]
  /\ createSeq \in [Callers -> 0..MaxSeq]
  /\ found \in [Callers -> Ptys \cup {None}]
  /\ attach \in {"idle", "adopt", "respawn"}
  /\ dispose \in [phase : {"idle", "waiting", "closing", "closed", "failed",
                           "byId", "byIdClosed", "byIdFailed"},
                  hadRow : BOOLEAN, target : Ptys \cup {None}]
  /\ reaper \in [phase : {"idle", "listing", "listed", "orphan", "disposing", "correcting"},
                 alive : BOOLEAN, active : BOOLEAN, rowless : BOOLEAN, same : BOOLEAN]
  /\ memory \in [rowless : BOOLEAN, absent : BOOLEAN, listed : BOOLEAN]
  /\ up \in BOOLEAN
  /\ entry \in Ptys \cup {None}
  /\ closed \in BOOLEAN
  /\ spawned \in SUBSET Ptys
  /\ subscribed \in BOOLEAN
  /\ requests \in Seq(Requests)
  /\ replies \in Seq(Replies)
  /\ faults \in 0..MaxFaults
  /\ wish \in {"open", "killed"}

NoDispose == [phase |-> "idle", hadRow |-> FALSE, target |-> None]
NoReap == [phase |-> "idle", alive |-> FALSE, active |-> FALSE,
           rowless |-> FALSE, same |-> FALSE]
NoMemory == [rowless |-> FALSE, absent |-> FALSE, listed |-> FALSE]

Init ==
  /\ row = None /\ session = None
  /\ lifecycleSeq = 0 /\ createsInFlight = 0 /\ lastDisposeSeq = 0
  /\ queue = << >>
  /\ step = [k \in Callers |-> "idle"]
  /\ createSeq = [k \in Callers |-> 0]
  /\ found = [k \in Callers |-> None]
  /\ attach = "idle"
  /\ dispose = NoDispose
  /\ reaper = NoReap /\ memory = NoMemory
  /\ up = TRUE /\ entry = None /\ closed = FALSE /\ spawned = {}
  /\ subscribed = FALSE
  /\ requests = << >> /\ replies = << >>
  /\ faults = 0
  /\ wish = "open"

Fault == faults < MaxFaults /\ faults' = faults + 1

-----------------------------------------------------------------------------
(* The row and the daemon's entry                                          *)

Stamped(r) == r # None /\ r.stamp

(* terminalLifecycleState                                                  *)
Lifecycle(r) ==
  IF r = None THEN "missing"
  ELSE IF r.stamp \/ r.status = "disposed" THEN "disposed" ELSE r.status

(* What the daemon lists as alive under the id.                            *)
Alive == entry # None /\ ~closed

ListedPty == IF Alive THEN entry ELSE None

-----------------------------------------------------------------------------
(* The create/dispose fence and the create queue                           *)

DisposedAfterUnfenced(k) == FALSE    \* mutant: creates are not fenced

DisposedAfter(k) == lastDisposeSeq > createSeq[k]

Head1 == IF queue = << >> THEN "none" ELSE Head(queue)

AdoptOnly(k) == k = "adopt" \/ (k = "attach" /\ attach = "adopt")

EndWorkTwice(n) ==    \* mutant: the work of an inner create is ended again
  /\ createsInFlight' = createsInFlight - n - 1
  /\ lastDisposeSeq' = IF createsInFlight <= n + 1 THEN 0 ELSE lastDisposeSeq
  /\ UNCHANGED lifecycleSeq

(* endCreateWork for n units: the dispose mark goes with the last of them. *)
EndWork(n) ==
  /\ createsInFlight' = createsInFlight - n
  /\ lastDisposeSeq' = IF createsInFlight = n THEN 0 ELSE lastDisposeSeq
  /\ UNCHANGED lifecycleSeq

(* The running create returns.  An attach whose adopt found the terminal   *)
(* "lost" re-reads the stamp and respawns it under the same sequence       *)
(* number; any other outcome is the attach's own.                          *)
MayRespawn(k, outcome) ==
  k = "attach" /\ attach = "adopt" /\ outcome = "lost" /\ ~Stamped(row)

Returns(k, outcome) ==
  /\ found' = [found EXCEPT ![k] = None]
  /\ IF MayRespawn(k, outcome)
     THEN /\ queue' = Append(Tail(queue), k)
          /\ step' = [step EXCEPT ![k] = "queued"]
          /\ attach' = "respawn"
          /\ UNCHANGED <<createSeq, fenceVars>>
     ELSE /\ queue' = Tail(queue)
          /\ step' = [step EXCEPT ![k] = "idle"]
          /\ createSeq' = [createSeq EXCEPT ![k] = 0]
          /\ attach' = IF k = "attach" THEN "idle" ELSE attach
          /\ EndWork(IF k = "attach" THEN 2 ELSE 1)

(* A create is enqueued: `units` of create work begin under a fresh        *)
(* number.                                                                 *)
Enqueue(k, units) ==
  /\ step[k] = "idle"
  /\ lifecycleSeq < MaxSeq
  /\ lifecycleSeq' = lifecycleSeq + 1
  /\ createSeq' = [createSeq EXCEPT ![k] = lifecycleSeq + 1]
  /\ createsInFlight' = createsInFlight + units
  /\ queue' = Append(queue, k)
  /\ step' = [step EXCEPT ![k] = "queued"]
  /\ UNCHANGED <<lastDisposeSeq, found>>

(* A dispose waiting for an attach that has ended resumes before the loop  *)
(* takes another event, and so does one whose close is answered and a      *)
(* create whose reply has arrived.                                         *)
Settled ==
  /\ ~(dispose.phase = "waiting" /\ attach = "idle")
  /\ dispose.phase \notin {"closed", "failed"}
  /\ \A k \in Callers : step[k] \notin {"opened", "adopting", "listed", "failed"}
  /\ reaper.phase # "listed"

-----------------------------------------------------------------------------
(* Requests that create or recover the terminal                            *)

(* POST /terminal/sessions, agents.run, create-on-attach...                *)
BeginOpen(o) ==
  /\ Settled
  /\ Enqueue(o, 1)
  /\ wish' = "open"
  /\ UNCHANGED <<row, session, attach, dispose, reapVars, daemonVars, wireVars, faults>>

(* A websocket attaches and no session is in memory: one resolution per    *)
(* id, adopt first.                                                        *)
BeginAttach ==
  /\ "attach" \in Recovery
  /\ Settled
  /\ Lifecycle(row) = "active"
  /\ session = None
  /\ attach = "idle"
  /\ Enqueue("attach", 2)
  /\ attach' = "adopt"
  /\ UNCHANGED <<row, session, dispose, reapVars, daemonVars, wireVars, faults, wish>>

(* getOrAdoptSession                                                       *)
BeginAdopt ==
  /\ "adopt" \in Recovery
  /\ Settled
  /\ session = None
  /\ Enqueue("adopt", 1)
  /\ UNCHANGED <<row, session, attach, dispose, reapVars, daemonVars, wireVars, faults, wish>>

(* The create reaches the head of the queue.                               *)
StartCreate(k) ==
  /\ k = Head1 /\ step[k] = "queued"
  /\ \/ /\ session # None
        /\ Returns(k, "ok")
     \/ /\ session = None
        /\ AdoptOnly(k) /\ Stamped(row)
        /\ Returns(k, "lost")
     \/ /\ session = None
        /\ ~(AdoptOnly(k) /\ Stamped(row))
        /\ step' = [step EXCEPT ![k] = "env"]
        /\ UNCHANGED <<fenceVars, queue, createSeq, found, attach>>
  /\ UNCHANGED <<row, session, dispose, reapVars, daemonVars, wireVars, faults, wish>>

(* Environment and shell resolved: first fence, then the daemon is asked.  *)
(* With no shell to spawn the daemon is only asked whether the PTY exists. *)
AskDaemon(k) ==
  /\ k = Head1 /\ step[k] = "env"
  /\ \/ /\ DisposedAfter(k)
        /\ Returns(k, "gone")
        /\ UNCHANGED requests
     \/ /\ ~DisposedAfter(k)
        /\ ~up
        /\ Returns(k, "transient")
        /\ UNCHANGED requests
     \/ /\ ~DisposedAfter(k)
        /\ up
        /\ \E ask \in IF AdoptOnly(k) THEN {"list"} ELSE {"open", "exists"} :
             /\ step' = [step EXCEPT ![k] = ask]
             /\ requests' = Append(requests, IF ask = "open" THEN "open" ELSE "list")
        /\ UNCHANGED <<fenceVars, queue, createSeq, found, attach>>
  /\ UNCHANGED <<row, session, dispose, reapVars, daemonVars, replies, faults, wish>>

-----------------------------------------------------------------------------
(* The create's continuation after a reply                                 *)

(* An error reply, or nothing to adopt where something was expected.       *)
CreateFails(k) ==
  /\ step[k] = "failed"
  /\ Returns(k, "lost")
  /\ UNCHANGED <<row, session, dispose, reapVars, daemonVars, wireVars, faults, wish>>

(* adoptLiveDaemonSession: the "session already exists" fallback adopts    *)
(* what the list shows, unless a dispose is pending.                       *)
AdoptsExisting(k) == found[k] # None /\ ~Stamped(row)

RefuseExisting(k) ==
  /\ step[k] = "adopting"
  /\ ~AdoptsExisting(k)
  /\ Returns(k, "gone")
  /\ UNCHANGED <<row, session, dispose, reapVars, daemonVars, wireVars, faults, wish>>

(* An adopt-only create finds its row ended while it was asking: it closes *)
(* the PTY it found.                                                       *)
EndedMeanwhile == Lifecycle(row) \in {"disposed", "exited"}

NothingToAdopt(k) ==
  /\ step[k] = "listed"
  /\ found[k] = None
  /\ Returns(k, "lost")
  /\ UNCHANGED <<row, session, dispose, reapVars, daemonVars, wireVars, faults, wish>>

RevokeAdoption(k) ==
  /\ step[k] = "listed"
  /\ found[k] # None
  /\ EndedMeanwhile
  /\ step' = [step EXCEPT ![k] = "revoke"]
  /\ requests' = Append(requests, "close")
  /\ UNCHANGED <<row, session, fenceVars, queue, createSeq, found, attach, dispose,
                 reapVars, daemonVars, replies, faults, wish>>

(* A create that holds a live PTY: opened by it, or adopted.               *)
MayCommit(k) ==
  \/ step[k] = "opened"
  \/ step[k] = "adopting" /\ AdoptsExisting(k)
  \/ step[k] = "listed" /\ found[k] # None /\ ~EndedMeanwhile

(* Second fence, at the row insert: a dispose came in since the create     *)
(* began. A PTY this create opened is closed again; an adopted one is left *)
(* alone.                                                                  *)
CancelCreate(k) ==
  /\ MayCommit(k)
  /\ DisposedAfter(k)
  /\ IF step[k] = "opened"
     THEN /\ step' = [step EXCEPT ![k] = "undo"]
          /\ UNCHANGED <<fenceVars, queue, createSeq, found, attach>>
     ELSE Returns(k, "gone")
  /\ UNCHANGED <<row, session, dispose, reapVars, daemonVars, wireVars, faults, wish>>

(* The insert throws (SQLITE_BUSY).                                        *)
InsertFails(k) ==
  /\ MayCommit(k)
  /\ ~DisposedAfter(k)
  /\ Fault
  /\ IF step[k] = "opened"
     THEN /\ step' = [step EXCEPT ![k] = "undo"]
          /\ UNCHANGED <<fenceVars, queue, createSeq, found, attach>>
     ELSE Returns(k, "gone")
  /\ UNCHANGED <<row, session, dispose, reapVars, daemonVars, wireVars, wish>>

(* The row becomes active (an opened PTY clears the stamp, an adopted one  *)
(* keeps it), the session is in the map and subscribes, all in one turn.   *)
Commit(k) ==
  /\ MayCommit(k)
  /\ ~DisposedAfter(k)
  /\ row' = [status |-> "active", stamp |-> step[k] # "opened" /\ Stamped(row)]
  /\ session' = [pty |-> found[k], exited |-> FALSE, replay |-> "pending"]
  /\ requests' = Append(requests, "subscribe")
  /\ reaper' = [reaper EXCEPT !.same = FALSE]
  /\ Returns(k, "ok")
  /\ UNCHANGED <<dispose, memory, daemonVars, replies, faults, wish>>

(* closeDaemonSessionById: kill what the id names, over a separate         *)
(* connection; nothing is attempted when no daemon is reachable.           *)
KillEntry == closed' = (closed \/ entry # None)

(* The cleanup of a cancelled create; its failure is logged.               *)
UndoCreate(k) ==
  /\ step[k] = "undo"
  /\ \/ /\ IF up THEN KillEntry ELSE UNCHANGED closed
        /\ UNCHANGED faults
     \/ /\ up /\ Fault
        /\ UNCHANGED closed
  /\ Returns(k, "gone")
  /\ UNCHANGED <<row, session, dispose, reapVars, up, entry, spawned, subscribed,
                 wireVars, wish>>

(* A caller awaits a replay that failed: the session is dropped.           *)
DropUnreplayed ==
  /\ session # None
  /\ session.replay = "failed"
  /\ session' = None
  /\ requests' = Append(requests, "unsubscribe")
  /\ UNCHANGED <<row, fenceVars, callVars, dispose, reapVars, daemonVars, replies,
                 faults, wish>>

-----------------------------------------------------------------------------
(* Dispose                                                                 *)

(* The row a dispose has confirmed.                                        *)
Disposed(r) == [r EXCEPT !.status = "disposed"]

(* runDisposeSession up to its await, on the row r: stamp, take the        *)
(* session out, ask for the close.  A session whose PTY has exited needs   *)
(* none and finishes at once.                                              *)
WithStamp(r) == IF r = None THEN None ELSE [r EXCEPT !.stamp = TRUE]

RunDispose(r) ==
  /\ session' = None
  /\ IF session # None /\ session.exited
     THEN /\ row' = IF r = None THEN None ELSE Disposed(WithStamp(r))
          /\ dispose' = NoDispose
          /\ requests' = Append(requests, "unsubscribe")
     ELSE /\ row' = WithStamp(r)
          /\ dispose' = [phase |-> IF session = None THEN "byId" ELSE "closing",
                         hadRow |-> r # None, target |-> ListedPty]
          /\ requests' = IF session = None THEN requests
                         ELSE requests \o <<"close", "unsubscribe">>

(* disposeSessionAndWait, with r as the row: mark the creates in flight,   *)
(* join the dispose in flight if there is one, wait for an attach in       *)
(* flight.                                                                 *)
MarkDispose ==
  IF createsInFlight > 0
  THEN /\ lifecycleSeq < MaxSeq
       /\ lifecycleSeq' = lifecycleSeq + 1
       /\ lastDisposeSeq' = lifecycleSeq + 1
       /\ UNCHANGED createsInFlight
  ELSE UNCHANGED fenceVars

RequestDispose(r) ==
  /\ MarkDispose
  /\ IF dispose.phase # "idle"
     THEN row' = r /\ UNCHANGED <<session, dispose, requests>>
     ELSE IF attach # "idle"
     THEN /\ dispose' = [NoDispose EXCEPT !.phase = "waiting"]
          /\ row' = r
          /\ UNCHANGED <<session, requests>>
     ELSE RunDispose(r)

(* A dispose of a terminal that has a session or a row: the DELETE route,  *)
(* a websocket's "dispose", a teardown, the janitor, a resumed agent.      *)
Dispose ==
  /\ Settled
  /\ session # None \/ row # None
  /\ RequestDispose(row)
  /\ wish' = IF dispose.phase = "idle" /\ row # None THEN "killed" ELSE wish
  /\ UNCHANGED <<callVars, reapVars, daemonVars, replies, faults>>

(* The user's kill (killSession): a terminal with no row gets a stamped    *)
(* and disposed one first, in the same turn.                               *)
Tombstone == [status |-> "disposed", stamp |-> TRUE]

Kill ==
  /\ Settled
  /\ RequestDispose(IF row = None THEN Tombstone ELSE row)
  /\ wish' = IF dispose.phase = "idle" THEN "killed" ELSE wish
  /\ UNCHANGED <<callVars, reapVars, daemonVars, replies, faults>>

ResumeDispose ==
  /\ dispose.phase = "waiting"
  /\ attach = "idle"
  /\ RunDispose(row)
  /\ reaper' = IF dispose'.phase = "idle" /\ reaper.phase = "disposing"
               THEN [reaper EXCEPT !.phase = "correcting"] ELSE reaper
  /\ UNCHANGED <<fenceVars, callVars, memory, daemonVars, replies, faults, wish>>

(* The close by id is executed, or does not reach the daemon, or reports   *)
(* EKILL; its answer is under way on the other connection.                 *)
CloseById ==
  /\ dispose.phase = "byId"
  /\ \/ /\ dispose' = [dispose EXCEPT !.phase = "byIdClosed"]
        /\ IF up THEN KillEntry ELSE UNCHANGED closed
        /\ UNCHANGED faults
     \/ /\ up /\ Fault
        /\ dispose' = [dispose EXCEPT !.phase = "byIdFailed"]
        /\ KillEntry \/ UNCHANGED closed
  /\ UNCHANGED <<row, session, fenceVars, callVars, reapVars, up, entry, spawned,
                 subscribed, wireVars, wish>>

(* The close answered: the row is disposed if it still carries the stamp   *)
(* this dispose read (disposes are coalesced, so no other can have set it  *)
(* again).                                                                 *)
ConfirmsById == row # None    \* mutant: the write is not fenced

Confirms == Stamped(row)

ClosedOrNot == TRUE    \* mutant: closeResult.succeeded is not read

CloseSucceeded == dispose.phase \in {"closed", "byIdClosed"}

SettleDispose ==
  /\ dispose.phase \in {"closed", "failed", "byIdClosed", "byIdFailed"}
  /\ row' = IF CloseSucceeded /\ dispose.hadRow /\ Confirms
            THEN Disposed(row) ELSE row
  /\ dispose' = NoDispose
  /\ IF reaper.phase = "disposing"
     THEN /\ reaper' = [reaper EXCEPT !.phase = "correcting"]
          /\ memory' = [memory EXCEPT !.rowless =
                          @ \/ (reaper.rowless /\ ~CloseSucceeded)]
     ELSE UNCHANGED reapVars
  /\ UNCHANGED <<session, fenceVars, callVars, daemonVars, wireVars, faults, wish>>

(* The workspace's ended rows are deleted with it, and the intent to kill  *)
(* with the row.                                                           *)
PurgeRow ==
  /\ Settled
  /\ row # None
  /\ row.status # "active"
  /\ row' = None
  /\ wish' = "open"
  /\ UNCHANGED <<session, fenceVars, callVars, dispose, reapVars, daemonVars, wireVars,
                 faults>>

-----------------------------------------------------------------------------
(* The reaper                                                              *)

BeginReap ==
  /\ Settled
  /\ reaper.phase = "idle"
  /\ up
  /\ requests' = Append(requests, "list")
  /\ reaper' = [NoReap EXCEPT !.phase = "listing"]
  /\ UNCHANGED <<row, session, fenceVars, callVars, dispose, memory, daemonVars, replies,
                 faults, wish>>

OnlyConfirmed(r) == r = None \/ r.status # "active"    \* mutant: the stamp is not read

ShouldReapRow(r) == Lifecycle(r) # "active"

(* An alive PTY that no row mentions is remembered for the next pass.      *)
StillRowless(orphan) == reaper.alive /\ row = None /\ ~orphan

(* Rows are read, orphans planned.  An empty listing is no evidence; a PTY *)
(* with no row is an orphan once two passes have seen it.  A create whose  *)
(* open was answered in the same chunk continues first.                    *)
PlanReap ==
  /\ reaper.phase = "listed"
  /\ \A k \in Callers : step[k] # "opened"
  /\ LET rowless == row = None
         orphan  == /\ reaper.alive
                    /\ IF rowless THEN memory.rowless ELSE ShouldReapRow(row)
     IN IF ~reaper.alive /\ ~OthersAlive
        THEN reaper' = NoReap /\ memory' = NoMemory
        ELSE /\ reaper' = [reaper EXCEPT
                    !.phase = IF orphan THEN "orphan" ELSE "correcting",
                    !.rowless = rowless, !.same = TRUE,
                    !.active = row # None /\ row.status = "active"]
             /\ memory' = [memory EXCEPT !.rowless = StillRowless(orphan)]
  /\ UNCHANGED <<row, session, fenceVars, callVars, dispose, daemonVars, wireVars, faults,
                 wish>>

(* The orphan's turn comes, other orphans having been disposed before it.  *)
ReapOrphan ==
  /\ reaper.phase = "orphan"
  /\ Settled
  /\ RequestDispose(row)
  /\ reaper' = [reaper EXCEPT
        !.phase = IF dispose'.phase = "idle" THEN "correcting" ELSE "disposing"]
  /\ wish' = IF dispose.phase = "idle" /\ row # None THEN "killed" ELSE wish
  /\ UNCHANGED <<callVars, memory, daemonVars, replies, faults>>

(* planStaleRowCorrection.                                                 *)
StaleRow ==
  /\ reaper.active /\ ~reaper.alive
  /\ session # None => session.exited

EndReap(absent) ==
  /\ reaper' = NoReap
  /\ memory' = [memory EXCEPT !.absent = absent, !.listed = TRUE]
  /\ UNCHANGED <<session, fenceVars, callVars, dispose, daemonVars, wireVars, faults, wish>>

(* Nothing to correct, or a row still too young to be judged.              *)
KeepRow ==
  /\ reaper.phase = "correcting"
  /\ EndReap(FALSE)
  /\ UNCHANGED row

(* A row seen absent for the first time, or one over the cap of the pass.  *)
NoteAbsent ==
  /\ reaper.phase = "correcting"
  /\ StaleRow
  /\ EndReap(TRUE)
  /\ UNCHANGED row

(* The row was absent on two listings in a row: disposed, unless it was    *)
(* rewritten since it was read (createdAt).                                *)
CorrectRow ==
  /\ reaper.phase = "correcting"
  /\ StaleRow
  /\ memory.listed /\ memory.absent
  /\ row' = IF row # None /\ row.status = "active" /\ reaper.same
            THEN Disposed(row) ELSE row
  /\ EndReap(FALSE)

-----------------------------------------------------------------------------
(* The daemon, as this id sees it (the module PtyDaemon has the whole of   *)
(* it)                                                                     *)

Reply(kind, pty) == replies' = Append(replies, [kind |-> kind, pty |-> pty])

(* Open: a live entry is refused, a closed one recycled; the spawn may     *)
(* fail.                                                                   *)
ServeOpen ==
  \/ /\ Alive
     /\ Reply("exists", None)
     /\ UNCHANGED <<entry, closed, spawned>>
  \/ /\ ~Alive
     /\ closed' = FALSE
     /\ \/ /\ entry' = None
           /\ Reply("spawn", None)
           /\ UNCHANGED spawned
        \/ \E p \in Ptys \ spawned :
             /\ entry' = p
             /\ spawned' = spawned \cup {p}
             /\ Reply("open-ok", p)

ServeClose ==
  /\ \/ /\ KillEntry
        /\ Reply(IF entry = None THEN "unknown" ELSE "closed", None)
        /\ UNCHANGED faults
     \/ /\ entry # None /\ Fault
        /\ closed' = TRUE
        /\ Reply("ekill", None)
  /\ UNCHANGED <<entry, spawned, subscribed>>

ServeSubscribe ==
  /\ subscribed' = (subscribed \/ entry # None)
  /\ Reply(IF entry = None THEN "unknown" ELSE "replayed", None)

Serve ==
  /\ requests # << >>
  /\ requests' = Tail(requests)
  /\ \/ Head(requests) = "open" /\ ServeOpen /\ UNCHANGED <<subscribed, faults>>
     \/ Head(requests) = "close" /\ ServeClose
     \/ /\ Head(requests) = "list" /\ Reply("list", ListedPty)
        /\ UNCHANGED <<entry, closed, spawned, subscribed, faults>>
     \/ /\ Head(requests) = "subscribe" /\ ServeSubscribe
        /\ UNCHANGED <<entry, closed, spawned, faults>>
     \/ /\ Head(requests) = "unsubscribe" /\ subscribed' = FALSE
        /\ UNCHANGED <<entry, closed, spawned, replies, faults>>
  /\ UNCHANGED <<row, session, fenceVars, callVars, dispose, reapVars, up, wish>>

(* The process ends and its exit is reported to the subscriber.            *)
PtyExits ==
  /\ entry # None
  /\ entry' = None /\ closed' = FALSE
  /\ IF subscribed THEN Reply("exit", entry) ELSE UNCHANGED replies
  /\ subscribed' = FALSE
  /\ UNCHANGED <<row, session, fenceVars, callVars, dispose, reapVars, up, spawned, requests,
                 faults, wish>>

-----------------------------------------------------------------------------
(* DaemonClient: a frame reaches every waiter it matches, by id and type   *)
(* only                                                                    *)

Errors == {"exists", "unknown", "spawn", "ekill"}

(* The next step of the running create, and the PTY it is told of.         *)
StepAfter(k, m) ==
  CASE step[k] = "open" /\ m.kind = "open-ok"           -> "opened"
    [] step[k] = "open" /\ m.kind = "exists"            -> "exists"
    [] step[k] = "open" /\ m.kind \in Errors            -> "failed"
    [] step[k] = "exists" /\ m.kind = "list"            ->
         IF m.pty = None THEN "failed" ELSE "adopting"
    [] step[k] = "list" /\ m.kind = "list"              -> "listed"
    [] step[k] = "revoke" /\ m.kind \in Errors \cup {"closed"} -> "failed"
    [] OTHER                                            -> step[k]

CreateReceives(m) ==
  LET next == [k \in Callers |-> IF k = Head1 THEN StepAfter(k, m) ELSE step[k]] IN
    /\ step' = next
    /\ found' = [k \in Callers |->
         IF next[k] # step[k] /\ next[k] # "exists" THEN m.pty ELSE found[k]]
    /\ requests' = IF \E k \in Callers : step[k] = "open" /\ next[k] = "exists"
                   THEN Append(requests, "list") ELSE requests

DisposeReceives(m) ==
  dispose' = IF dispose.phase # "closing" THEN dispose
             ELSE IF m.kind \in {"closed", "unknown"}
             THEN [dispose EXCEPT !.phase = "closed"]
             ELSE IF m.kind \in Errors THEN [dispose EXCEPT !.phase = "failed"]
             ELSE dispose

ReaperReceives(m) ==
  reaper' = IF reaper.phase = "listing" /\ m.kind = "list"
            THEN [reaper EXCEPT !.phase = "listed", !.alive = m.pty # None]
            ELSE reaper

(* onExit: the session is over, and its row unless a dispose is pending.   *)
ExitRow(r) ==
  IF r # None /\ r.status = "active" /\ ~r.stamp THEN [r EXCEPT !.status = "exited"] ELSE r

SessionReceives(m) ==
  IF session = None THEN UNCHANGED <<session, row>>
  ELSE IF m.kind = "exit"
  THEN session' = [session EXCEPT !.exited = TRUE] /\ row' = ExitRow(row)
  ELSE /\ session' = IF session.replay # "pending" THEN session
                     ELSE IF m.kind = "replayed" THEN [session EXCEPT !.replay = "ready"]
                     ELSE IF m.kind \in Errors THEN [session EXCEPT !.replay = "failed"]
                     ELSE session
       /\ UNCHANGED row

(* The frames of one chunk are all handed out before any continuation      *)
(* runs, so this does not wait for Settled.                                *)
Receive ==
  /\ replies # << >>
  /\ LET m == Head(replies) IN
       /\ CreateReceives(m)
       /\ DisposeReceives(m)
       /\ ReaperReceives(m)
       /\ SessionReceives(m)
  /\ replies' = Tail(replies)
  /\ UNCHANGED <<fenceVars, queue, createSeq, attach, memory, daemonVars, faults, wish>>

-----------------------------------------------------------------------------
(* Failures                                                                *)

Waiting(k) == k = Head1 /\ step[k] \in {"open", "exists", "list", "revoke"}

(* A request times out: its waiter fails, its reply may still come.        *)
CreateTimesOut(k) ==
  /\ Settled /\ Fault
  /\ Waiting(k)
  /\ Returns(k, IF step[k] = "revoke" THEN "lost" ELSE "transient")
  /\ UNCHANGED <<row, session, dispose, reapVars, daemonVars, wireVars, wish>>

DisposeTimesOut ==
  /\ Settled /\ Fault
  /\ dispose.phase = "closing"
  /\ dispose' = [dispose EXCEPT !.phase = "failed"]
  /\ UNCHANGED <<row, session, fenceVars, callVars, reapVars, daemonVars, wireVars, wish>>

ReplayTimesOut ==
  /\ Settled /\ Fault
  /\ session # None
  /\ session.replay = "pending"
  /\ session' = [session EXCEPT !.replay = "failed"]
  /\ UNCHANGED <<row, fenceVars, callVars, dispose, reapVars, daemonVars, wireVars, wish>>

(* The connection is lost: every waiter fails and onDaemonDisconnect drops *)
(* the sessions.  The daemon forgets the subscriptions, or dies with its   *)
(* PTYs.                                                                   *)
Disconnect ==
  /\ requests' = << >> /\ replies' = << >>
  /\ session' = None
  /\ subscribed' = FALSE
  /\ dispose' = IF dispose.phase = "closing"
                THEN [dispose EXCEPT !.phase = "failed"] ELSE dispose
  /\ reaper' = IF reaper.phase = "listing" THEN NoReap ELSE reaper
  /\ IF Head1 \in Callers /\ Waiting(Head1)
     THEN Returns(Head1, IF step[Head1] = "revoke" THEN "lost" ELSE "transient")
     ELSE UNCHANGED <<fenceVars, callVars>>

ConnectionLost ==
  /\ Settled /\ Fault
  /\ up
  /\ Disconnect
  /\ UNCHANGED <<row, memory, up, entry, closed, spawned, wish>>

DaemonCrash ==
  /\ Settled /\ Fault
  /\ up
  /\ up' = FALSE
  /\ entry' = None /\ closed' = FALSE
  /\ Disconnect
  /\ UNCHANGED <<row, memory, spawned, wish>>

DaemonStarts ==
  /\ ~up
  /\ up' = TRUE
  /\ UNCHANGED <<row, session, fenceVars, callVars, dispose, reapVars, entry, closed, spawned,
                 subscribed, wireVars, faults, wish>>

(* The host restarts: only the row and the daemon survive.  A dispose that *)
(* had not stamped the row yet is forgotten with it.                       *)
HostRestart ==
  /\ Fault
  /\ session' = None
  /\ lifecycleSeq' = 0 /\ createsInFlight' = 0 /\ lastDisposeSeq' = 0
  /\ queue' = << >>
  /\ step' = [k \in Callers |-> "idle"]
  /\ createSeq' = [k \in Callers |-> 0]
  /\ found' = [k \in Callers |-> None]
  /\ attach' = "idle"
  /\ dispose' = NoDispose
  /\ reaper' = NoReap /\ memory' = NoMemory
  /\ subscribed' = FALSE
  /\ requests' = << >> /\ replies' = << >>
  /\ wish' = IF Lifecycle(row) = "disposed" THEN wish ELSE "open"
  /\ UNCHANGED <<row, up, entry, closed, spawned>>

-----------------------------------------------------------------------------
CallNext(k) ==
  \/ StartCreate(k)     \/ AskDaemon(k)    \/ CreateFails(k)  \/ RefuseExisting(k)
  \/ NothingToAdopt(k)  \/ RevokeAdoption(k)                  \/ CancelCreate(k)
  \/ Commit(k)          \/ UndoCreate(k)

DisposeNext == ResumeDispose \/ CloseById \/ SettleDispose

ReapNext == PlanReap \/ ReapOrphan \/ KeepRow \/ NoteAbsent \/ CorrectRow

FailureNext ==
  \/ \E k \in Callers : InsertFails(k) \/ CreateTimesOut(k)
  \/ DisposeTimesOut \/ ReplayTimesOut \/ ConnectionLost \/ DaemonCrash \/ HostRestart

Next ==
  \/ \E o \in Openers : BeginOpen(o)
  \/ BeginAttach \/ BeginAdopt
  \/ \E k \in Callers : CallNext(k)
  \/ DropUnreplayed
  \/ Dispose \/ Kill \/ DisposeNext
  \/ PurgeRow
  \/ BeginReap \/ ReapNext
  \/ Serve \/ PtyExits \/ Receive
  \/ FailureNext \/ DaemonStarts

(* The host's continuations run, the connection carries frames, the        *)
(* supervisor restarts the daemon, the interval starts a reap pass, and a  *)
(* pass that may correct a row does so in the end (rows grow old, the cap  *)
(* takes the oldest first).  Nothing is assumed of users, nor that an open *)
(* PTY ends.                                                               *)
Fairness ==
  /\ WF_vars((\E k \in Callers : CallNext(k)) \/ DisposeNext)
  /\ WF_vars(Serve \/ Receive \/ DaemonStarts)
  /\ WF_vars(BeginReap \/ PlanReap \/ ReapOrphan \/ KeepRow)
  /\ SF_vars(NoteAbsent) /\ SF_vars(CorrectRow)

Spec == Init /\ [][Next]_vars
FairSpec == Spec /\ Fairness

-----------------------------------------------------------------------------
(* Properties                                                              *)

(* A session in memory whose process has not exited fronts an active row   *)
(* that nobody has asked to kill: no dispose, confirmation or stale-row    *)
(* correction left over from an earlier generation buries a terminal that  *)
(* lives (createTerminalSessionUnlocked, runDisposeSession,                *)
(* reapOrphanedSessions).                                                  *)
SessionOwnsRow ==
  session # None /\ ~session.exited => row # None /\ row.status = "active" /\ ~row.stamp

(* Once a terminal has been killed and the kill has run, no attach, adopt  *)
(* or create begun before it brings the terminal back, not even the first  *)
(* create of the terminal, still in flight when the kill came              *)
(* (killSession, createTerminalSessionUnlocked): only an explicit create   *)
(* begun after it does.                                                    *)
KilledStaysDead ==
  wish = "killed" /\ dispose.phase = "idle" => session = None

(* The PTY a dispose in flight is to kill is alive.                        *)
TargetLives == Alive /\ entry = dispose.target

(* A row is marked disposed only when the PTY that was alive under the id  *)
(* when the kill was asked for is dead ("the close never confirmed, so     *)
(* nothing was written", the comment on DisposeDbDisposition).             *)
ConfirmedIsDead == [][SettleDispose /\ row' # row => ~TargetLives]_vars

(* A row marked disposed never leaves its PTY alive with nothing to kill   *)
(* it: the PTY is dead, or the dispose's own close is still on its way to  *)
(* the daemon (runDisposeSession).                                         *)
ConfirmedIsDoomed ==
  [][SettleDispose /\ row' # row /\ TargetLives =>
       \E i \in DOMAIN requests : requests[i] = "close"]_vars

(* The reaper disposes only what its policy condemns at that moment: a     *)
(* rowless PTY, an ended row, a stamped one (shouldReapRow).               *)
ReaperSparesLive == [][ReapOrphan => row = None \/ ShouldReapRow(row)]_vars

(* A PTY alive that no active row claims: rowless, under an ended row, or  *)
(* under one stamped for a kill that failed.                               *)
Orphan == Alive /\ Lifecycle(row) # "active"

(* A row with a kill that is not confirmed.                                *)
Limbo == Stamped(row) /\ row.status = "active"

(* Nothing that a failed or lost step of a dispose or a create leaves      *)
(* behind stays: an orphan is killed, or an explicit create takes the id,  *)
(* a kill is confirmed or the row corrected, and there comes a time when   *)
(* neither is left (the reaper's two walks).                               *)
LeftoversGo == (Orphan \/ Limbo) ~> ~(Orphan \/ Limbo)

(* A row with an unconfirmed kill does not stay in limbo ("the reaper      *)
(* retries any stamped row").                                              *)
LimboEnds == Limbo ~> ~Limbo

=============================================================================
