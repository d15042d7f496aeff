------------------------------ MODULE PtyDaemon ------------------------------
(***************************************************************************)
(* The pty-daemon (packages/pty-daemon): one process that owns every        *)
(* terminal's PTY and streams its output to the connected clients.          *)
(*                                                                         *)
(* The daemon is a single-threaded event loop, so an action is one event    *)
(* handler run to completion: a client frame, PTY data, a PTY exit, a        *)
(* socket event, a timer.  What interleaves is the order of those events.   *)
(*                                                                         *)
(* A session object and its PTY live and die together, so both are named by *)
(* the PTY.  Clients, subscriptions and pause marks name a session by id,    *)
(* and an id is recycled by a new PTY once its session has exited: the two   *)
(* names drifting apart is what most of the properties below are about.      *)
(*                                                                         *)
(* Bytes are counted in output frames; replies and exit frames are small     *)
(* against the thresholds and count as nothing.                             *)
(***************************************************************************)
EXTENDS Integers, FiniteSets

CONSTANTS
  Conns,           \* client sockets that may be connected at the same time
  Ids,             \* session ids (the host's terminal ids)
  Ptys,            \* every PTY the daemon ever spawns: bounds the spawns
  None,            \* no PTY / no id
  PauseThreshold,  \* outboundPauseThreshold, in frames
  OutboundCap,     \* outboundBufferCap, in frames
  MaxBurst,        \* frames one data event can deliver (data, then disarm)
  TrailingOutput   \* whether a disposed PTY may still emit data (ConPTY does)

ASSUME NoneAssumption == None \notin Ptys /\ None \notin Ids

ASSUME FlowAssumption ==
  /\ PauseThreshold \in Nat
  /\ OutboundCap \in Nat
  /\ PauseThreshold < OutboundCap
  /\ MaxBurst \in Nat \ {0}
  /\ TrailingOutput \in BOOLEAN

VARIABLES
  store,           \* SessionStore: the PTY of the session each id names
  home,            \* the id each PTY was opened under
  proc,            \* the life of each PTY's process, up to its exit callback
  exited,          \* sessions whose `exited` flag is set
  disposed,        \* PTYs whose descriptor was released
  paused,          \* PTYs whose reads are paused
  serving,         \* the server accepts connections
  conns,           \* Server.conns
  sock,            \* each client's socket
  negotiated,      \* conns whose handshake is done
  subscriptions,   \* conn.subscriptions
  pausedSessions,  \* conn.pausedSessions
  pauseTimer,      \* conns whose pause timer is armed
  writable         \* frames in each socket's write buffer (writableLength)

sessionVars == <<store, home, proc, exited, disposed>>
linkVars    == <<serving, conns, sock, negotiated>>
flowVars    == <<pausedSessions, pauseTimer, paused>>
vars == <<sessionVars, linkVars, flowVars, subscriptions, writable>>

ProcStates == {"unspawned", "running", "signalled", "dead", "reported"}
SockStates == {"idle", "open", "destroyed"}

(* The type invariant; the bound on writable is the cap writeMessage enforces. *)
TypeOK ==
  /\ store \in [Ids -> Ptys \cup {None}]
  /\ home \in [Ptys -> Ids \cup {None}]
  /\ proc \in [Ptys -> ProcStates]
  /\ exited \in SUBSET Ptys
  /\ disposed \in SUBSET Ptys
  /\ paused \in SUBSET Ptys
  /\ serving \in BOOLEAN
  /\ conns \in SUBSET Conns
  /\ sock \in [Conns -> SockStates]
  /\ negotiated \in SUBSET Conns
  /\ subscriptions \in [Conns -> SUBSET Ids]
  /\ pausedSessions \in [Conns -> SUBSET Ids]
  /\ pauseTimer \in SUBSET Conns
  /\ writable \in [Conns -> 0..OutboundCap]

Init ==
  /\ store = [id \in Ids |-> None]
  /\ home = [p \in Ptys |-> None]
  /\ proc = [p \in Ptys |-> "unspawned"]
  /\ exited = {} /\ disposed = {} /\ paused = {}
  /\ serving = TRUE
  /\ conns = {}
  /\ sock = [c \in Conns |-> "idle"]
  /\ negotiated = {}
  /\ subscriptions = [c \in Conns |-> {}]
  /\ pausedSessions = [c \in Conns |-> {}]
  /\ pauseTimer = {}
  /\ writable = [c \in Conns |-> 0]

-----------------------------------------------------------------------------
(* Connections                                                             *)

Connect(c) ==
  /\ serving
  /\ sock[c] = "idle"
  /\ conns' = conns \cup {c}
  /\ sock' = [sock EXCEPT ![c] = "open"]
  /\ UNCHANGED <<sessionVars, flowVars, serving, negotiated, subscriptions, writable>>

(* The frames decoded from one chunk are dispatched in a loop that a        *)
(* destroyed socket does not stop, so a conn is served as long as it is     *)
(* in conns.                                                               *)
Hello(c) ==
  /\ c \in conns \ negotiated
  /\ negotiated' = negotiated \cup {c}
  /\ UNCHANGED <<sessionVars, flowVars, serving, conns, sock, subscriptions, writable>>

(* A frame that does not decode, a first frame that is not hello, a hello    *)
(* with no common version: answered, then the socket is destroyed.          *)
ProtocolError(c) ==
  /\ c \in conns
  /\ sock[c] = "open"
  /\ sock' = [sock EXCEPT ![c] = "destroyed"]
  /\ UNCHANGED <<sessionVars, flowVars, serving, conns, negotiated, subscriptions, writable>>

Client(c) == c \in conns \cap negotiated

-----------------------------------------------------------------------------
(* Flow control                                                            *)

(* socket.write of n frames: past the cap the socket is destroyed; a        *)
(* destroyed socket takes nothing.                                         *)
OverflowsUnchecked(c, n) == FALSE    \* mutant: writeMessage never destroys

Overflows(c, n) == sock[c] = "open" /\ writable[c] + n > OutboundCap

SendTo(targets, n) ==
  /\ sock' = [c \in Conns |->
                IF c \in targets /\ Overflows(c, n) THEN "destroyed" ELSE sock[c]]
  /\ writable' = [c \in Conns |->
                    IF c \in targets /\ sock[c] = "open" /\ ~Overflows(c, n)
                    THEN writable[c] + n ELSE writable[c]]

(* After one of n successive writes the buffer is above the pause threshold *)
(* and the socket is not destroyed yet.                                     *)
Congests(c, n) ==
  /\ sock[c] = "open"
  /\ \E k \in 1..n : /\ PauseThreshold < writable[c] + k
                     /\ writable[c] + k <= OutboundCap

(* resumePausedSessions: conn's marks go, and each session no other conn     *)
(* in `remaining` still holds is resumed.                                   *)
Stored(p) == home[p] # None /\ store[home[p]] = p

(* mutant: any other subscriber counts as a holder *)
SubscribedElsewhere(c, id, remaining) ==
  \E other \in remaining \ {c} : id \in subscriptions[other]

HeldElsewhere(c, id, remaining) ==
  \E other \in remaining \ {c} : id \in pausedSessions[other]

Resumed(c, remaining) ==
  {p \in Ptys : /\ home[p] \in pausedSessions[c]
                /\ Stored(p)
                /\ p \notin exited
                /\ ~HeldElsewhere(c, home[p], remaining)}

ResumePausedSessions(c, remaining) ==
  /\ pauseTimer' = pauseTimer \ {c}
  /\ pausedSessions' = [pausedSessions EXCEPT ![c] = {}]
  /\ paused' = paused \ Resumed(c, remaining)

ForgetConn(c) ==    \* mutant: the paused producers are not released
  /\ conns' = conns \ {c}
  /\ UNCHANGED flowVars

DropConn(c) ==
  /\ conns' = conns \ {c}
  /\ ResumePausedSessions(c, conns \ {c})

-----------------------------------------------------------------------------
(* Client requests                                                         *)

(* handleOpen: an id whose session has exited is recycled, a live one is      *)
(* refused (EEXIST).                                                        *)
FreeForAll(id) == TRUE    \* mutant: no EEXIST

Free(id) == store[id] = None \/ store[id] \in exited

OpenSession(c, id, p) ==
  /\ Client(c)
  /\ Free(id)
  /\ proc[p] = "unspawned"
  /\ store' = [store EXCEPT ![id] = p]
  /\ home' = [home EXCEPT ![p] = id]
  /\ proc' = [proc EXCEPT ![p] = "running"]
  /\ UNCHANGED <<exited, disposed, linkVars, flowVars, subscriptions, writable>>

(* The spawn throws (p = None), or the set-up after the fork does: the dead   *)
(* entry is gone in both cases, and the half-made PTY is killed and released. *)
OpenFails(c, id, p) ==
  /\ Client(c)
  /\ Free(id)
  /\ store' = [store EXCEPT ![id] = None]
  /\ \/ /\ p = None
        /\ UNCHANGED <<home, proc, disposed>>
     \/ /\ p \in Ptys
        /\ proc[p] = "unspawned"
        /\ home' = [home EXCEPT ![p] = id]
        /\ proc' = [proc EXCEPT ![p] = "signalled"]
        /\ disposed' = disposed \cup {p}
  /\ UNCHANGED <<exited, linkVars, flowVars, subscriptions, writable>>

(* handleClose: signal the process tree (which may fail: EKILL), release the   *)
(* descriptor, flag the session exited.  It stays in the store until its exit  *)
(* callback or until its id is recycled, and keeps its subscribers and marks.  *)
CloseSession(c, id) ==
  /\ Client(c)
  /\ store[id] # None
  /\ LET p == store[id] IN
       /\ \/ proc' = [proc EXCEPT ![p] = IF @ = "running" THEN "signalled" ELSE @]
          \/ UNCHANGED proc
       /\ disposed' = disposed \cup {p}
       /\ exited' = exited \cup {p}
       /\ paused' = paused \ {p}
  /\ UNCHANGED <<store, home, linkVars, pausedSessions, pauseTimer, subscriptions, writable>>

(* handleSubscribe: frames = 1 is a replay of a non-empty buffer.             *)
Subscribe(c, id, frames) ==
  /\ Client(c)
  /\ store[id] # None
  /\ frames \in 0..1
  /\ subscriptions' = [subscriptions EXCEPT ![c] = @ \cup {id}]
  /\ SendTo({c}, frames)
  /\ UNCHANGED <<sessionVars, flowVars, serving, conns, negotiated>>

(* handleUnsubscribe leaves the conn's pause marks alone.                     *)
Unsubscribe(c, id) ==
  /\ Client(c)
  /\ id \in subscriptions[c]
  /\ subscriptions' = [subscriptions EXCEPT ![c] = @ \ {id}]
  /\ UNCHANGED <<sessionVars, linkVars, flowVars, writable>>

-----------------------------------------------------------------------------
(* PTY events                                                              *)

(* A PTY emits data while it is open and not paused; a disposed one only on    *)
(* a platform with trailing output.                                         *)
CanEmit(p) ==
  /\ proc[p] \notin {"unspawned", "reported"}
  /\ p \notin paused
  /\ p \in disposed => TrailingOutput

(* deliver: the frames of one data event, the second being the mode reset the *)
(* microtask of the same event emits (for a live session only).               *)
Deliver(p, frames) ==
  /\ CanEmit(p)
  /\ frames \in 1..MaxBurst
  /\ frames = 1 \/ (p \notin exited /\ Stored(p))
  /\ LET id        == home[p]
         listeners == {c \in conns : id \in subscriptions[c]}
         congested == {c \in listeners : Congests(c, frames)}
     IN  /\ SendTo(listeners, frames)
         /\ pausedSessions' = [c \in Conns |->
                IF c \in congested THEN pausedSessions[c] \cup {id}
                ELSE pausedSessions[c]]
         /\ pauseTimer' = pauseTimer \cup congested
         /\ paused' = IF congested # {} /\ p \notin disposed
                      THEN paused \cup {p} ELSE paused
  /\ UNCHANGED <<sessionVars, serving, conns, negotiated, subscriptions>>

(* The shell ends by itself, or because it was signalled.                     *)
ProcessEnds(p) ==
  /\ proc[p] \in {"running", "signalled"}
  /\ proc' = [proc EXCEPT ![p] = "dead"]
  /\ UNCHANGED <<store, home, exited, disposed, linkVars, flowVars, subscriptions, writable>>

(* onExit's `store.get(session.id) !== session` return.                       *)
AppliesToRecycled(p) == home[p] # None    \* mutant: the check is missing
AppliesUnlessClosed(p) == Stored(p) /\ p \notin exited    \* mutant: closed = handled

ExitApplies(p) == Stored(p)

(* The conns whose last mark this exit took.                                 *)
NoConn(marks) == {}       \* mutant: the timer is left running
AllConns(marks) == conns  \* mutant: the timer is cleared regardless of other marks

Unburdened(marks) == {c \in conns : marks[c] = {}}

(* onExit: always flags and releases the session; only the session its id      *)
(* still names tells its subscribers, drops their marks and leaves the store.  *)
ExitReported(p) ==
  /\ proc[p] = "dead"
  /\ proc' = [proc EXCEPT ![p] = "reported"]
  /\ exited' = exited \cup {p}
  /\ disposed' = disposed \cup {p}
  /\ paused' = paused \ {p}
  /\ LET id == home[p]
         unmarked == [c \in Conns |->
            IF c \in conns THEN pausedSessions[c] \ {id} ELSE pausedSessions[c]]
     IN IF ExitApplies(p)
        THEN /\ store' = [store EXCEPT ![id] = None]
             /\ subscriptions' = [c \in Conns |->
                   IF c \in conns THEN subscriptions[c] \ {id} ELSE subscriptions[c]]
             /\ pausedSessions' = unmarked
             /\ pauseTimer' = pauseTimer \ Unburdened(unmarked)
        ELSE UNCHANGED <<store, subscriptions, pausedSessions, pauseTimer>>
  /\ UNCHANGED <<home, linkVars, writable>>

-----------------------------------------------------------------------------
(* Socket events and timers                                                *)

(* The peer reads some of the buffer, but not all of it.                      *)
PartialFlush(c) ==
  /\ sock[c] = "open"
  /\ writable[c] > 1
  /\ writable' = [writable EXCEPT ![c] = @ - 1]
  /\ UNCHANGED <<sessionVars, linkVars, flowVars, subscriptions>>

(* 'drain': the buffer is empty again.                                       *)
Drain(c) ==
  /\ c \in conns
  /\ sock[c] = "open"
  /\ writable[c] > 0
  /\ writable' = [writable EXCEPT ![c] = 0]
  /\ ResumePausedSessions(c, conns)
  /\ UNCHANGED <<sessionVars, linkVars, subscriptions>>

(* armPauseTimer's callback: a conn that still holds marks is disconnected.    *)
PauseTimeout(c) ==
  /\ c \in pauseTimer
  /\ pauseTimer' = pauseTimer \ {c}
  /\ sock' = [sock EXCEPT ![c] =
                IF sock[c] = "open" /\ pausedSessions[c] # {} THEN "destroyed" ELSE @]
  /\ UNCHANGED <<sessionVars, serving, conns, negotiated, pausedSessions, paused,
                 subscriptions, writable>>

(* The peer goes away.                                                      *)
PeerCloses(c) ==
  /\ sock[c] = "open"
  /\ sock' = [sock EXCEPT ![c] = "destroyed"]
  /\ UNCHANGED <<sessionVars, flowVars, serving, conns, negotiated, subscriptions, writable>>

(* 'error': dropConn now; the socket's 'close' follows and drops it again.     *)
SocketError(c) ==
  /\ sock[c] = "open"
  /\ sock' = [sock EXCEPT ![c] = "destroyed"]
  /\ DropConn(c)
  /\ UNCHANGED <<sessionVars, serving, negotiated, subscriptions, writable>>

(* 'close': dropConn, and the connection's state is garbage.                  *)
SocketClosed(c) ==
  /\ sock[c] = "destroyed"
  /\ sock' = [sock EXCEPT ![c] = "idle"]
  /\ DropConn(c)
  /\ negotiated' = negotiated \ {c}
  /\ subscriptions' = [subscriptions EXCEPT ![c] = {}]
  /\ writable' = [writable EXCEPT ![c] = 0]
  /\ UNCHANGED <<sessionVars, serving>>

(* close(): sockets destroyed, every stored PTY killed and released.  No       *)
(* session is flagged exited.                                               *)
Shutdown ==
  /\ serving
  /\ serving' = FALSE
  /\ sock' = [c \in Conns |-> IF c \in conns THEN "destroyed" ELSE sock[c]]
  /\ conns' = {}
  /\ LET owned == {p \in Ptys : Stored(p)} IN
       /\ proc' = [p \in Ptys |->
             IF p \in owned /\ proc[p] = "running" THEN "signalled" ELSE proc[p]]
       /\ disposed' = disposed \cup owned
       /\ paused' = paused \ owned
  /\ UNCHANGED <<store, home, exited, negotiated, pausedSessions, pauseTimer,
                 subscriptions, writable>>

(* The process has exited: nothing is left to happen.                        *)
Stopped ==
  /\ ~serving
  /\ \A c \in Conns : sock[c] = "idle"
  /\ UNCHANGED vars

-----------------------------------------------------------------------------
ConnNext(c) ==
  \/ Connect(c)       \/ Hello(c)        \/ ProtocolError(c)
  \/ PartialFlush(c)  \/ Drain(c)        \/ PauseTimeout(c)
  \/ PeerCloses(c)    \/ SocketError(c)  \/ SocketClosed(c)

RequestNext(c) ==
  \E id \in Ids :
    \/ \E p \in Ptys : OpenSession(c, id, p)
    \/ \E p \in Ptys \cup {None} : OpenFails(c, id, p)
    \/ CloseSession(c, id)
    \/ \E frames \in 0..1 : Subscribe(c, id, frames)
    \/ Unsubscribe(c, id)

PtyNext(p) ==
  \/ \E frames \in 1..MaxBurst : Deliver(p, frames)
  \/ ProcessEnds(p)
  \/ ExitReported(p)

Next ==
  \/ \E c \in Conns : ConnNext(c) \/ RequestNext(c)
  \/ \E p \in Ptys : PtyNext(p)
  \/ Shutdown
  \/ Stopped

(* A destroyed socket's 'close' is emitted and an armed timer fires (Node      *)
(* runs both); a signalled process dies (TreeKiller escalates to SIGKILL) and  *)
(* its exit is reported.  Nothing is assumed of clients.                      *)
Fairness ==
  /\ \A c \in Conns : WF_vars(SocketClosed(c)) /\ WF_vars(PauseTimeout(c))
  /\ \A p \in Ptys : /\ WF_vars(proc[p] = "signalled" /\ ProcessEnds(p))
                     /\ WF_vars(ExitReported(p))

Spec == Init /\ [][Next]_vars
FairSpec == Spec /\ Fairness

-----------------------------------------------------------------------------
(* Properties                                                              *)

(* The abstract registry the store implements.                              *)
Registry == INSTANCE SessionRegistry WITH
  owner <- store,
  ended <- exited,
  used  <- {p \in Ptys : proc[p] # "unspawned"}

(* The daemon implements the registry: through failed opens, recycled ids and  *)
(* late exits, an id names one session, and a live session keeps its id       *)
(* (handleOpen, handleClose, onExit).                                        *)
ImplementsRegistry == Registry!Spec

(* A live PTY: spawned, and its descriptor not released yet.                  *)
Live == {p \in Ptys : proc[p] # "unspawned" /\ p \notin disposed}

(* A PTY whose descriptor is open is the one its id names: the client can      *)
(* always reach it to close it, through every order of recycling, failed       *)
(* opens and late exits (handleOpen, handleClose, onExit).                    *)
NoStrandedPty == \A p \in Live : Stored(p)

(* A PTY is paused only on behalf of a client that is still connected and      *)
(* holds a mark for its id: whoever goes away, and however ids are recycled    *)
(* meanwhile, no terminal is left frozen with nobody to resume it             *)
(* (resumePausedSessions, dropConn, onExit).                                  *)
NoOrphanPause ==
  \A p \in paused : \E c \in conns : home[p] \in pausedSessions[c]

(* Every connected client that holds a PTY paused is on the clock: its pause   *)
(* timer is armed, and no exit or drain of other sessions disarms it.          *)
PauseHasDeadline ==
  \A c \in conns : sock[c] = "open" /\ pausedSessions[c] # {} => c \in pauseTimer

(* The converse: a client with no marks left has no timer running, so its next *)
(* congestion episode gets a whole deadline (the comment in onExit).           *)
NoStaleDeadline == \A c \in pauseTimer : pausedSessions[c] # {}

(* An exit callback that arrives after its id was recycled leaves the          *)
(* replacement alone: a live session leaves the store only by its own exit.    *)
LiveSessionStays ==
  [][\A id \in Ids : store[id] \in Live /\ store'[id] # store[id]
        => proc'[store[id]] = "reported"]_vars

(* The pause timer only disconnects a client that is blocking somebody (the     *)
(* comment in armPauseTimer).                                                *)
OnlyBlockersTimeOut ==
  [][\A c \in Conns : PauseTimeout(c) /\ sock'[c] # sock[c]
        => \E p \in paused : home[p] \in pausedSessions[c]]_vars

(* A terminal is never frozen for good by a client that stopped reading.       *)
PauseEnds == \A p \in Ptys : p \in paused ~> p \notin paused

(* A session whose close was acknowledged leaves the store (or its id is        *)
(* recycled): the list does not grow with closed terminals.                   *)
ClosedSessionLeaves ==
  \A p \in Ptys : proc[p] = "signalled" ~> \A id \in Ids : store[id] # p

=============================================================================
