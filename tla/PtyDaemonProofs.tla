--------------------------- MODULE PtyDaemonProofs ---------------------------
(***************************************************************************)
(* Theorems about PtyDaemon, for every set of clients, ids and PTYs and every *)
(* choice of thresholds.  The argument rests on one inductive invariant, IInv: *)
(* a live PTY is the one its id names, so a mark kept under that id always     *)
(* reaches it; and a client that leaves `conns` has given its marks up.       *)
(***************************************************************************)
EXTENDS PtyDaemon, TLAPS

(* The flags agree: a session flagged exited has released its descriptor, a    *)
(* PTY has a home once it is spawned, and only a live PTY is paused.          *)
FlagsAgree ==
  /\ exited \subseteq disposed
  /\ paused \subseteq Live
  /\ \A p \in Ptys : proc[p] = "unspawned" => p \notin disposed /\ home[p] = None
  /\ \A p \in Ptys : proc[p] = "reported" => p \in exited

(* The store and `home` are inverse where the store is defined.               *)
StoreAgrees ==
  \A id \in Ids : store[id] # None => home[store[id]] = id

(* The sockets: a served conn has one, and an idle one has left no marks.      *)
LinksAgree ==
  \A c \in Conns : /\ c \in conns => sock[c] # "idle"
                   /\ sock[c] = "idle" => pausedSessions[c] = {}

IInv ==
  /\ TypeOK
  /\ FlagsAgree
  /\ StoreAgrees
  /\ LinksAgree
  /\ NoStrandedPty
  /\ NoOrphanPause
  /\ PauseHasDeadline
  /\ NoStaleDeadline

-----------------------------------------------------------------------------
(* Sending keeps the buffers within the cap and only ever destroys sockets.    *)
LEMMA SendToFacts ==
  ASSUME NEW targets \in SUBSET Conns, NEW n \in Nat, TypeOK, SendTo(targets, n)
  PROVE  /\ sock' \in [Conns -> SockStates]
         /\ writable' \in [Conns -> 0..OutboundCap]
         /\ \A c \in Conns : sock'[c] = "idle" <=> sock[c] = "idle"
         /\ \A c \in Conns : sock'[c] = "open" => sock[c] = "open"
  <1>1. OutboundCap \in Nat
    BY FlowAssumption
  <1>2. sock' \in [Conns -> SockStates]
    BY DEF SendTo, TypeOK, SockStates
  <1>3. ASSUME NEW c \in Conns
        PROVE  writable'[c] \in 0..OutboundCap
    <2>1. writable[c] \in 0..OutboundCap /\ n \in Nat
      BY DEF TypeOK
    <2>2. writable'[c] = IF c \in targets /\ sock[c] = "open" /\ ~Overflows(c, n)
                         THEN writable[c] + n ELSE writable[c]
      BY DEF SendTo
    <2> QED
      BY <1>1, <2>1, <2>2 DEF Overflows
  <1>4. writable' \in [Conns -> 0..OutboundCap]
    BY <1>3 DEF SendTo
  <1>5. \A c \in Conns : sock'[c] = sock[c] \/ (sock[c] = "open" /\ sock'[c] = "destroyed")
    BY DEF SendTo, Overflows
  <1> QED
    BY <1>2, <1>4, <1>5

LEMMA InitIInv == Init => IInv
  BY NoneAssumption, FlowAssumption
     DEF Init, IInv, TypeOK, FlagsAgree, StoreAgrees, LinksAgree, NoStrandedPty,
         NoOrphanPause, PauseHasDeadline, NoStaleDeadline, Live, Stored,
         ProcStates, SockStates

-----------------------------------------------------------------------------
(* What a step that leaves the sessions alone, and pauses nobody new, keeps.    *)
LEMMA SessionsUntouched ==
  ASSUME IInv, UNCHANGED sessionVars, paused' \subseteq paused
  PROVE  FlagsAgree' /\ StoreAgrees' /\ NoStrandedPty'
  <1>1. Live' = Live
    BY DEF Live, sessionVars
  <1>2. \A p \in Ptys : Stored(p)' <=> Stored(p)
    BY DEF Stored, sessionVars
  <1>3. FlagsAgree'
    BY <1>1 DEF IInv, FlagsAgree, sessionVars
  <1>4. StoreAgrees'
    BY DEF IInv, StoreAgrees, sessionVars
  <1>5. NoStrandedPty'
    BY <1>1, <1>2 DEF IInv, NoStrandedPty, Live
  <1> QED
    BY <1>3, <1>4, <1>5

(* A step that touches neither sessions nor marks keeps every pause held as     *)
(* long as it drops no conn.                                                 *)
LEMMA HoldersUntouched ==
  ASSUME IInv, UNCHANGED sessionVars, UNCHANGED flowVars, conns \subseteq conns'
  PROVE  NoOrphanPause'
  BY DEF IInv, NoOrphanPause, sessionVars, flowVars

(* resumePausedSessions releases exactly what nobody else holds: a PTY that      *)
(* stays paused is live, so its id still names it, so if c held it and it was    *)
(* not resumed another remaining conn holds it.                               *)
LEMMA ResumeKeepsHolders ==
  ASSUME IInv, NEW c \in Conns, NEW remaining \in SUBSET conns,
         conns \ {c} \subseteq remaining,
         ResumePausedSessions(c, remaining), conns' = remaining,
         UNCHANGED sessionVars
  PROVE  /\ NoOrphanPause'
         /\ NoStaleDeadline'
         /\ paused' \subseteq paused
         /\ pausedSessions' \in [Conns -> SUBSET Ids]
         /\ pauseTimer' \in SUBSET Conns
         /\ pausedSessions'[c] = {}
         /\ \A d \in Conns \ {c} : pausedSessions'[d] = pausedSessions[d]
         /\ \A d \in Conns \ {c} : d \in pauseTimer' <=> d \in pauseTimer
  <1>1. /\ pausedSessions \in [Conns -> SUBSET Ids]
        /\ conns \in SUBSET Conns /\ pauseTimer \in SUBSET Conns
        /\ paused \in SUBSET Ptys
    BY DEF IInv, TypeOK
  <1>2. /\ pausedSessions'[c] = {}
        /\ \A d \in Conns \ {c} : pausedSessions'[d] = pausedSessions[d]
        /\ pausedSessions' \in [Conns -> SUBSET Ids]
    BY <1>1 DEF ResumePausedSessions
  <1>3. pauseTimer' = pauseTimer \ {c} /\ paused' \subseteq paused
    BY DEF ResumePausedSessions
  <1>4. NoStaleDeadline'
    BY <1>1, <1>2, <1>3 DEF IInv, NoStaleDeadline
  <1>5. ASSUME NEW p \in paused'
        PROVE  \E d \in conns' : home'[p] \in pausedSessions'[d]
    <2>1. p \in paused /\ p \in Ptys /\ p \notin Resumed(c, remaining)
      BY <1>1 DEF ResumePausedSessions
    <2>2. PICK d \in conns : home[p] \in pausedSessions[d]
      BY <2>1 DEF IInv, NoOrphanPause
    <2>3. Stored(p) /\ p \notin exited
      BY <2>1 DEF IInv, FlagsAgree, NoStrandedPty, Live
    <2>4. CASE d # c
      <3>1. d \in conns' /\ d \in Conns \ {c}
        BY <1>1, <2>4
      <3> QED
        BY <1>2, <2>2, <3>1 DEF sessionVars
    <2>5. CASE d = c
      <3>1. HeldElsewhere(c, home[p], remaining)
        BY <2>1, <2>2, <2>3, <2>5 DEF Resumed
      <3>2. PICK other \in remaining \ {c} : home[p] \in pausedSessions[other]
        BY <3>1 DEF HeldElsewhere
      <3>3. other \in Conns \ {c}
        BY <1>1, <3>2
      <3> QED
        BY <1>2, <3>2, <3>3 DEF sessionVars
    <2> QED
      BY <2>4, <2>5
  <1>6. NoOrphanPause'
    BY <1>5 DEF NoOrphanPause
  <1> QED
    BY <1>1, <1>2, <1>3, <1>4, <1>6

-----------------------------------------------------------------------------
(* One lemma per kind of step.  First the steps of one connection.            *)
LEMMA LinkSteps ==
  ASSUME IInv, NEW c \in Conns,
         \/ Connect(c) \/ Hello(c) \/ ProtocolError(c) \/ PartialFlush(c) \/ PeerCloses(c)
  PROVE  IInv'
  <1>1. UNCHANGED sessionVars /\ UNCHANGED flowVars /\ conns \subseteq conns'
    BY DEF Connect, Hello, ProtocolError, PartialFlush, PeerCloses, linkVars
  <1>2. FlagsAgree' /\ StoreAgrees' /\ NoStrandedPty'
    BY <1>1, SessionsUntouched DEF flowVars
  <1>3. NoOrphanPause'
    BY <1>1, HoldersUntouched
  <1>4. NoStaleDeadline'
    BY <1>1 DEF IInv, NoStaleDeadline, flowVars
  <1>5. TypeOK'
    BY <1>1, FlowAssumption
       DEF IInv, TypeOK, SockStates, sessionVars, flowVars, linkVars,
           Connect, Hello, ProtocolError, PartialFlush, PeerCloses
  <1>6. PauseHasDeadline' /\ LinksAgree'
    BY <1>1
       DEF IInv, TypeOK, PauseHasDeadline, LinksAgree, flowVars, linkVars,
           Connect, Hello, ProtocolError, PartialFlush, PeerCloses
  <1> QED
    BY <1>2, <1>3, <1>4, <1>5, <1>6 DEF IInv

LEMMA PauseTimeoutStep ==
  ASSUME IInv, NEW c \in Conns, PauseTimeout(c)
  PROVE  IInv'
  <1>1. FlagsAgree' /\ StoreAgrees' /\ NoStrandedPty'
    BY SessionsUntouched DEF PauseTimeout
  <1>2. NoOrphanPause'
    BY DEF IInv, NoOrphanPause, PauseTimeout, sessionVars
  <1>3. TypeOK'
    BY DEF IInv, TypeOK, SockStates, PauseTimeout, sessionVars
  <1>4. PauseHasDeadline' /\ NoStaleDeadline' /\ LinksAgree'
    BY DEF IInv, TypeOK, PauseHasDeadline, NoStaleDeadline, LinksAgree, PauseTimeout
  <1> QED
    BY <1>1, <1>2, <1>3, <1>4 DEF IInv

LEMMA DrainStep ==
  ASSUME IInv, NEW c \in Conns, Drain(c)
  PROVE  IInv'
  <1>1. ResumePausedSessions(c, conns) /\ conns' = conns /\ UNCHANGED sessionVars
    BY DEF Drain, linkVars
  <1>2. conns \in SUBSET conns /\ conns \in SUBSET Conns /\ conns \ {c} \subseteq conns
    BY DEF IInv, TypeOK
  <1>3. /\ NoOrphanPause' /\ NoStaleDeadline' /\ paused' \subseteq paused
        /\ pausedSessions' \in [Conns -> SUBSET Ids] /\ pauseTimer' \in SUBSET Conns
        /\ pausedSessions'[c] = {}
        /\ \A d \in Conns \ {c} : pausedSessions'[d] = pausedSessions[d]
        /\ \A d \in Conns \ {c} : d \in pauseTimer' <=> d \in pauseTimer
    BY <1>1, <1>2, ResumeKeepsHolders
  <1>4. FlagsAgree' /\ StoreAgrees' /\ NoStrandedPty'
    BY <1>1, <1>3, SessionsUntouched
  <1>5. TypeOK'
    <2>1. writable' \in [Conns -> 0..OutboundCap]
      BY FlowAssumption DEF IInv, TypeOK, Drain
    <2>2. paused' \in SUBSET Ptys /\ conns' \in SUBSET Conns
      BY <1>1, <1>3 DEF IInv, TypeOK
    <2> QED
      BY <1>1, <1>3, <2>1, <2>2 DEF IInv, TypeOK, Drain, sessionVars, linkVars
  <1>6. PauseHasDeadline' /\ LinksAgree'
    BY <1>1, <1>2, <1>3 DEF IInv, TypeOK, PauseHasDeadline, LinksAgree, Drain, linkVars
  <1> QED
    BY <1>3, <1>4, <1>5, <1>6 DEF IInv

(* 'error' and 'close' both drop the conn; 'close' also forgets it.            *)
LEMMA DropSteps ==
  ASSUME IInv, NEW c \in Conns, SocketError(c) \/ SocketClosed(c)
  PROVE  IInv'
  <1>1. /\ ResumePausedSessions(c, conns \ {c}) /\ conns' = conns \ {c}
        /\ UNCHANGED sessionVars
    BY DEF SocketError, SocketClosed, DropConn
  <1>2. conns \ {c} \in SUBSET conns /\ conns \in SUBSET Conns
    BY DEF IInv, TypeOK
  <1>3. /\ NoOrphanPause' /\ NoStaleDeadline' /\ paused' \subseteq paused
        /\ pausedSessions' \in [Conns -> SUBSET Ids] /\ pauseTimer' \in SUBSET Conns
        /\ pausedSessions'[c] = {}
        /\ \A d \in Conns \ {c} : pausedSessions'[d] = pausedSessions[d]
        /\ \A d \in Conns \ {c} : d \in pauseTimer' <=> d \in pauseTimer
    BY <1>1, <1>2, ResumeKeepsHolders
  <1>4. FlagsAgree' /\ StoreAgrees' /\ NoStrandedPty'
    BY <1>1, <1>3, SessionsUntouched
  <1>5. TypeOK'
    BY <1>1, <1>3, FlowAssumption
       DEF IInv, TypeOK, SockStates, SocketError, SocketClosed, sessionVars
  <1>6. PauseHasDeadline' /\ LinksAgree'
    BY <1>1, <1>2, <1>3
       DEF IInv, TypeOK, PauseHasDeadline, LinksAgree, SocketError, SocketClosed
  <1> QED
    BY <1>3, <1>4, <1>5, <1>6 DEF IInv

-----------------------------------------------------------------------------
(* Then the requests.                                                       *)

LEMMA SubscriptionSteps ==
  ASSUME IInv, NEW c \in Conns, NEW id \in Ids,
         (\E frames \in 0..1 : Subscribe(c, id, frames)) \/ Unsubscribe(c, id)
  PROVE  IInv'
  <1>1. /\ UNCHANGED sessionVars /\ UNCHANGED flowVars
        /\ UNCHANGED <<serving, conns, negotiated>>
    BY DEF Subscribe, Unsubscribe, linkVars
  <1>2. /\ sock' \in [Conns -> SockStates]
        /\ writable' \in [Conns -> 0..OutboundCap]
        /\ \A d \in Conns : sock'[d] = "idle" <=> sock[d] = "idle"
        /\ \A d \in Conns : sock'[d] = "open" => sock[d] = "open"
    <2>1. CASE Unsubscribe(c, id)
      BY <2>1 DEF IInv, TypeOK, Unsubscribe, linkVars
    <2>2. CASE \E frames \in 0..1 : Subscribe(c, id, frames)
      <3>1. PICK frames \in 0..1 : Subscribe(c, id, frames)
        BY <2>2
      <3>2. frames \in Nat /\ {c} \in SUBSET Conns /\ SendTo({c}, frames) /\ TypeOK
        BY <3>1 DEF Subscribe, IInv
      <3> QED
        BY <3>2, SendToFacts
    <2> QED
      BY <2>1, <2>2
  <1>3. FlagsAgree' /\ StoreAgrees' /\ NoStrandedPty'
    BY <1>1, SessionsUntouched DEF flowVars
  <1>4. NoOrphanPause'
    BY <1>1, HoldersUntouched
  <1>5. subscriptions' \in [Conns -> SUBSET Ids]
    BY DEF IInv, TypeOK, Subscribe, Unsubscribe
  <1>6. TypeOK'
    BY <1>1, <1>2, <1>5 DEF IInv, TypeOK, sessionVars, flowVars
  <1>7. PauseHasDeadline' /\ NoStaleDeadline' /\ LinksAgree'
    BY <1>1, <1>2 DEF IInv, TypeOK, PauseHasDeadline, NoStaleDeadline, LinksAgree, flowVars
  <1> QED
    BY <1>3, <1>4, <1>6, <1>7 DEF IInv

(* An id that is free names no live PTY, so recycling it strands nobody.        *)
LEMMA FreeIdNamesNoLivePty ==
  ASSUME IInv, NEW id \in Ids, Free(id), NEW p \in Live
  PROVE  home[p] # id
  BY NoneAssumption DEF IInv, TypeOK, Free, Live, FlagsAgree, NoStrandedPty, Stored

LEMMA OpenSteps ==
  ASSUME IInv, NEW c \in Conns, NEW id \in Ids,
         \/ \E p \in Ptys : OpenSession(c, id, p)
         \/ \E p \in Ptys \cup {None} : OpenFails(c, id, p)
  PROVE  IInv'
  <1>1. /\ Free(id) /\ UNCHANGED <<linkVars, flowVars, exited, subscriptions, writable>>
    BY DEF OpenSession, OpenFails
  <1>2. /\ PauseHasDeadline' /\ NoStaleDeadline' /\ LinksAgree'
    BY <1>1 DEF IInv, PauseHasDeadline, NoStaleDeadline, LinksAgree, linkVars, flowVars
  <1>3. paused \subseteq Live /\ paused \in SUBSET Ptys
    BY DEF IInv, FlagsAgree, TypeOK
  <1>4. CASE \E p \in Ptys : OpenSession(c, id, p)
    <2>1. PICK p \in Ptys : OpenSession(c, id, p)
      BY <1>4
    <2>2. TypeOK'
      BY <1>1, <2>1 DEF IInv, TypeOK, ProcStates, OpenSession, linkVars, flowVars
    <2>3. /\ p \notin disposed /\ p \notin Live /\ disposed' = disposed
          /\ home' = [home EXCEPT ![p] = id] /\ store' = [store EXCEPT ![id] = p]
          /\ proc' = [proc EXCEPT ![p] = "running"]
      BY <2>1 DEF IInv, FlagsAgree, OpenSession, Live
    <2>4. Live' = Live \cup {p}
      BY <2>3 DEF IInv, TypeOK, Live
    <2>5. FlagsAgree'
      BY <1>1, <2>3, <2>4 DEF IInv, TypeOK, FlagsAgree, flowVars
    <2>6. ASSUME NEW q \in Live
          PROVE  q # p /\ home'[q] = home[q] /\ home[q] # id /\ Stored(q)'
      <3>1. q \in Ptys /\ q # p /\ home[q] # id /\ Stored(q)
        BY <2>3, FreeIdNamesNoLivePty, <1>1 DEF Live, IInv, NoStrandedPty
      <3> QED
        BY <2>3, <3>1 DEF IInv, TypeOK, Stored
    <2>7. Stored(p)'
      BY <2>3, NoneAssumption DEF IInv, TypeOK, Stored
    <2>8. NoStrandedPty'
      BY <2>4, <2>6, <2>7 DEF NoStrandedPty
    <2>9. StoreAgrees'
      <3>1. \A i \in Ids : store[i] = p => FALSE
        BY <2>1, NoneAssumption DEF IInv, StoreAgrees, FlagsAgree, OpenSession
      <3> QED
        BY <2>3, <3>1 DEF IInv, TypeOK, StoreAgrees
    <2>10. NoOrphanPause'
      BY <1>1, <1>3, <2>6 DEF IInv, NoOrphanPause, linkVars, flowVars
    <2> QED
      BY <1>2, <2>2, <2>5, <2>8, <2>9, <2>10 DEF IInv
  <1>5. CASE \E p \in Ptys \cup {None} : OpenFails(c, id, p)
    <2>1. PICK p \in Ptys \cup {None} : OpenFails(c, id, p)
      BY <1>5
    <2>2. TypeOK'
      BY <1>1, <2>1 DEF IInv, TypeOK, ProcStates, OpenFails, linkVars, flowVars
    <2>3. store' = [store EXCEPT ![id] = None]
      BY <2>1 DEF OpenFails
    <2>4. \A q \in Ptys : \/ proc'[q] = proc[q] /\ home'[q] = home[q]
                             /\ (q \in disposed' <=> q \in disposed)
                          \/ /\ q = p /\ proc[q] = "unspawned"
                             /\ proc'[q] = "signalled" /\ home'[q] = id /\ q \in disposed'
      BY <2>1 DEF OpenFails, IInv, TypeOK
    <2>5. Live' = Live
      BY <2>4 DEF IInv, FlagsAgree, Live
    <2>6. disposed \subseteq disposed'
      BY <2>1 DEF OpenFails
    <2>7. FlagsAgree'
      <3>1. \A q \in Ptys : proc'[q] = "unspawned" => q \notin disposed' /\ home'[q] = None
        BY <2>4 DEF IInv, FlagsAgree
      <3>2. \A q \in Ptys : proc'[q] = "reported" => q \in exited'
        BY <1>1, <2>4 DEF IInv, FlagsAgree
      <3>3. exited' \subseteq disposed' /\ paused' \subseteq Live'
        BY <1>1, <2>5, <2>6 DEF IInv, FlagsAgree, flowVars
      <3> QED
        BY <3>1, <3>2, <3>3 DEF FlagsAgree
    <2>8. ASSUME NEW q \in Live
          PROVE  home'[q] = home[q] /\ Stored(q)'
      <3>1. q \in Ptys /\ home[q] # id /\ Stored(q) /\ home[q] \in Ids
        BY FreeIdNamesNoLivePty, <1>1 DEF Live, IInv, NoStrandedPty, TypeOK, Stored
      <3>2. home'[q] = home[q]
        BY <2>4, <3>1 DEF Live
      <3> QED
        BY <2>3, <3>1, <3>2 DEF IInv, TypeOK, Stored
    <2>9. NoStrandedPty'
      BY <2>5, <2>8 DEF NoStrandedPty
    <2>10. StoreAgrees'
      <3>1. ASSUME NEW i \in Ids, store'[i] # None
            PROVE  home'[store'[i]] = i
        <4>1. i # id /\ store'[i] = store[i] /\ store[i] \in Ptys /\ home[store[i]] = i
          BY <2>3, <3>1 DEF IInv, TypeOK, StoreAgrees
        <4>2. proc[store[i]] # "unspawned"
          BY <4>1, NoneAssumption DEF IInv, FlagsAgree
        <4> QED
          BY <2>4, <4>1, <4>2
      <3> QED
        BY <3>1 DEF StoreAgrees
    <2>11. NoOrphanPause'
      BY <1>1, <1>3, <2>8 DEF IInv, NoOrphanPause, linkVars, flowVars
    <2> QED
      BY <1>2, <2>2, <2>7, <2>9, <2>10, <2>11 DEF IInv
  <1> QED
    BY <1>4, <1>5

(* Releasing PTYs: what closing one session and shutting down have in common.   *)
LEMMA ReleaseKeeps ==
  ASSUME IInv, NEW gone \in SUBSET Ptys, UNCHANGED <<store, home>>,
         disposed' = disposed \cup gone, paused' = paused \ gone,
         exited \subseteq exited', exited' \subseteq exited \cup gone,
         \A p \in Ptys : proc'[p] = "unspawned" <=> proc[p] = "unspawned",
         \A p \in Ptys : proc'[p] = "reported" => p \in exited',
         \A p \in gone : proc[p] # "unspawned"
  PROVE  FlagsAgree' /\ StoreAgrees' /\ NoStrandedPty' /\ Live' = Live \ gone
  <1>1. Live' = Live \ gone
    BY DEF Live
  <1>2. FlagsAgree'
    BY <1>1 DEF IInv, FlagsAgree
  <1>3. StoreAgrees'
    BY DEF IInv, StoreAgrees
  <1>4. NoStrandedPty'
    BY <1>1 DEF IInv, NoStrandedPty, Stored
  <1> QED
    BY <1>1, <1>2, <1>3, <1>4

LEMMA CloseStep ==
  ASSUME IInv, NEW c \in Conns, NEW id \in Ids, CloseSession(c, id)
  PROVE  IInv'
  <1> DEFINE p == store[id]
  <1>1. /\ p \in Ptys /\ proc[p] # "unspawned"
    BY NoneAssumption DEF CloseSession, IInv, TypeOK, StoreAgrees, FlagsAgree
  <1>2. /\ UNCHANGED <<store, home, linkVars, pausedSessions, pauseTimer>>
        /\ disposed' = disposed \cup {p} /\ exited' = exited \cup {p}
        /\ paused' = paused \ {p}
    BY DEF CloseSession
  <1>3. \A q \in Ptys : proc'[q] = proc[q] \/ (proc[q] = "running" /\ proc'[q] = "signalled")
    BY DEF CloseSession, IInv, TypeOK
  <1>4. FlagsAgree' /\ StoreAgrees' /\ NoStrandedPty'
    <2>1. \A q \in Ptys : proc'[q] = "reported" => q \in exited'
      BY <1>2, <1>3 DEF IInv, FlagsAgree
    <2>2. {p} \in SUBSET Ptys /\ \A q \in {p} : proc[q] # "unspawned"
      BY <1>1
    <2>3. \A q \in Ptys : proc'[q] = "unspawned" <=> proc[q] = "unspawned"
      BY <1>3
    <2> QED
      BY <1>2, <2>1, <2>2, <2>3, ReleaseKeeps
  <1>5. TypeOK'
    BY <1>1, <1>2 DEF IInv, TypeOK, ProcStates, CloseSession, linkVars
  <1>6. NoOrphanPause'
    BY <1>2 DEF IInv, NoOrphanPause, linkVars
  <1>7. PauseHasDeadline' /\ NoStaleDeadline' /\ LinksAgree'
    BY <1>2 DEF IInv, PauseHasDeadline, NoStaleDeadline, LinksAgree, linkVars
  <1> QED
    BY <1>4, <1>5, <1>6, <1>7 DEF IInv

-----------------------------------------------------------------------------
(* The PTY's events.                                                        *)

LEMMA DeliverStep ==
  ASSUME IInv, NEW p \in Ptys, NEW frames \in 1..MaxBurst, Deliver(p, frames)
  PROVE  IInv'
  <1> DEFINE listeners == {c \in conns : home[p] \in subscriptions[c]}
             congested == {c \in listeners : Congests(c, frames)}
  <1>1. /\ SendTo(listeners, frames)
        /\ UNCHANGED <<sessionVars, serving, conns, negotiated, subscriptions>>
        /\ pausedSessions' = [c \in Conns |->
              IF c \in congested THEN pausedSessions[c] \cup {home[p]} ELSE pausedSessions[c]]
        /\ pauseTimer' = pauseTimer \cup congested
        /\ paused' = IF congested # {} /\ p \notin disposed THEN paused \cup {p} ELSE paused
        /\ proc[p] # "unspawned"
    BY DEF Deliver, CanEmit
  <1>2. listeners \in SUBSET Conns /\ congested \in SUBSET conns /\ congested \in SUBSET Conns
    BY DEF IInv, TypeOK
  <1>3. congested # {} => home[p] \in Ids
    BY DEF IInv, TypeOK
  <1>4. /\ sock' \in [Conns -> SockStates]
        /\ writable' \in [Conns -> 0..OutboundCap]
        /\ \A c \in Conns : sock'[c] = "idle" <=> sock[c] = "idle"
        /\ \A c \in Conns : sock'[c] = "open" => sock[c] = "open"
    <2>1. frames \in Nat
      BY FlowAssumption
    <2> QED
      BY <1>1, <1>2, <2>1, SendToFacts DEF IInv
  <1>5. TypeOK'
    BY <1>1, <1>2, <1>3, <1>4 DEF IInv, TypeOK, sessionVars
  <1>6. Live' = Live /\ paused' \subseteq Live
    BY <1>1 DEF IInv, FlagsAgree, Live, sessionVars
  <1>7. FlagsAgree' /\ StoreAgrees' /\ NoStrandedPty'
    BY <1>1, <1>6 DEF IInv, FlagsAgree, StoreAgrees, NoStrandedPty, Stored, sessionVars
  <1>8. \A c \in Conns : pausedSessions[c] \subseteq pausedSessions'[c]
    BY <1>1
  <1>9. NoOrphanPause'
    <2>1. ASSUME NEW q \in paused'
          PROVE  \E c \in conns' : home'[q] \in pausedSessions'[c]
      <3>1. CASE q \in paused
        <4>1. PICK c \in conns : home[q] \in pausedSessions[c]
          BY <3>1 DEF IInv, NoOrphanPause
        <4> QED
          BY <1>1, <1>8, <4>1 DEF IInv, TypeOK, sessionVars
      <3>2. CASE q \notin paused
        <4>1. q = p /\ congested # {}
          BY <1>1, <3>2
        <4>2. PICK c \in congested : TRUE
          BY <4>1
        <4>3. c \in conns /\ c \in Conns /\ home[p] \in pausedSessions'[c]
          BY <1>1, <1>2, <4>2
        <4> QED
          BY <1>1, <4>1, <4>3 DEF sessionVars
      <3> QED
        BY <3>1, <3>2
    <2> QED
      BY <2>1 DEF NoOrphanPause
  <1>10. PauseHasDeadline'
    BY <1>1, <1>2, <1>4 DEF IInv, TypeOK, PauseHasDeadline
  <1>11. NoStaleDeadline'
    BY <1>1, <1>2, <1>8 DEF IInv, TypeOK, NoStaleDeadline
  <1>12. LinksAgree'
    <2>1. \A c \in Conns : c \in congested => sock[c] = "open"
      BY DEF Congests
    <2> QED
      BY <1>1, <1>4, <2>1 DEF IInv, TypeOK, LinksAgree
  <1> QED
    BY <1>5, <1>7, <1>9, <1>10, <1>11, <1>12 DEF IInv

LEMMA ProcessEndsStep ==
  ASSUME IInv, NEW p \in Ptys, ProcessEnds(p)
  PROVE  IInv'
  <1>1. /\ UNCHANGED <<store, home, exited, disposed, linkVars, flowVars, subscriptions, writable>>
        /\ proc' = [proc EXCEPT ![p] = "dead"] /\ proc[p] # "unspawned"
    BY DEF ProcessEnds
  <1>2. Live' = Live
    BY <1>1 DEF IInv, TypeOK, Live
  <1>3. TypeOK'
    BY <1>1 DEF IInv, TypeOK, ProcStates, linkVars, flowVars
  <1>4. FlagsAgree' /\ StoreAgrees' /\ NoStrandedPty'
    BY <1>1, <1>2 DEF IInv, TypeOK, FlagsAgree, StoreAgrees, NoStrandedPty, Stored, flowVars
  <1>5. NoOrphanPause' /\ PauseHasDeadline' /\ NoStaleDeadline' /\ LinksAgree'
    BY <1>1 DEF IInv, NoOrphanPause, PauseHasDeadline, NoStaleDeadline, LinksAgree,
                linkVars, flowVars
  <1> QED
    BY <1>3, <1>4, <1>5 DEF IInv

(* Exit of the session its id still names: the id is freed and its marks go, but *)
(* the marks of every other id stay, and another live PTY has another id.        *)
LEMMA ExitReportedStep ==
  ASSUME IInv, NEW p \in Ptys, ExitReported(p)
  PROVE  IInv'
  <1> DEFINE id == home[p]
             unmarked == [c \in Conns |->
                IF c \in conns THEN pausedSessions[c] \ {id} ELSE pausedSessions[c]]
  <1>1. /\ proc[p] = "dead" /\ proc' = [proc EXCEPT ![p] = "reported"]
        /\ exited' = exited \cup {p} /\ disposed' = disposed \cup {p}
        /\ paused' = paused \ {p}
        /\ UNCHANGED <<home, linkVars, writable>>
    BY DEF ExitReported
  <1>2. Live' = Live \ {p}
    BY <1>1 DEF IInv, TypeOK, Live
  <1>3. FlagsAgree'
    BY <1>1, <1>2 DEF IInv, TypeOK, FlagsAgree
  <1>4. CASE Stored(p)
    <2>1. /\ store' = [store EXCEPT ![id] = None]
          /\ subscriptions' = [c \in Conns |->
                IF c \in conns THEN subscriptions[c] \ {id} ELSE subscriptions[c]]
          /\ pausedSessions' = unmarked
          /\ pauseTimer' = pauseTimer \ {c \in conns : unmarked[c] = {}}
      BY <1>4 DEF ExitReported, ExitApplies, Unburdened
    <2>2. id \in Ids
      BY <1>4 DEF IInv, TypeOK, Stored
    <2>3. TypeOK'
      BY <1>1, <2>1, <2>2 DEF IInv, TypeOK, ProcStates, linkVars
    <2>4. StoreAgrees'
      BY <1>1, <2>1 DEF IInv, TypeOK, StoreAgrees
    <2>5. ASSUME NEW q \in Live \ {p}
          PROVE  home[q] # id /\ Stored(q)'
      <3>1. Stored(q) /\ q \in Ptys /\ home[q] \in Ids
        BY <2>5 DEF IInv, TypeOK, NoStrandedPty, Live, Stored
      <3>2. home[q] # id
        BY <1>4, <2>5, <3>1 DEF Stored
      <3> QED
        BY <1>1, <2>1, <3>1, <3>2 DEF IInv, TypeOK, Stored
    <2>6. NoStrandedPty'
      BY <1>2, <2>5 DEF NoStrandedPty
    <2>7. ASSUME NEW q \in paused'
          PROVE  \E c \in conns' : home'[q] \in pausedSessions'[c]
      <3>1. q \in Live \ {p} /\ q \in paused
        BY <1>1, <2>7 DEF IInv, FlagsAgree
      <3>2. PICK c \in conns : home[q] \in pausedSessions[c]
        BY <3>1 DEF IInv, NoOrphanPause
      <3>3. home[q] # id /\ c \in Conns
        BY <2>5, <3>1, <3>2 DEF IInv, TypeOK
      <3> QED
        BY <1>1, <2>1, <3>2, <3>3 DEF linkVars
    <2>8. NoOrphanPause'
      BY <2>7 DEF NoOrphanPause
    <2>9. \A c \in Conns : /\ pausedSessions'[c] = unmarked[c]
                           /\ pausedSessions'[c] \subseteq pausedSessions[c]
      BY <2>1
    <2>10. PauseHasDeadline' /\ LinksAgree'
      BY <1>1, <2>1, <2>9 DEF IInv, TypeOK, PauseHasDeadline, LinksAgree, linkVars
    <2>11. NoStaleDeadline'
      BY <1>1, <2>1, <2>9 DEF IInv, TypeOK, NoStaleDeadline, linkVars
    <2> QED
      BY <1>3, <2>3, <2>4, <2>6, <2>8, <2>10, <2>11 DEF IInv
  <1>5. CASE ~Stored(p)
    <2>1. UNCHANGED <<store, subscriptions, pausedSessions, pauseTimer>>
      BY <1>5 DEF ExitReported, ExitApplies
    <2>2. TypeOK'
      BY <1>1, <2>1 DEF IInv, TypeOK, ProcStates, linkVars
    <2>3. StoreAgrees' /\ NoStrandedPty'
      BY <1>1, <1>2, <2>1 DEF IInv, StoreAgrees, NoStrandedPty, Stored
    <2>4. NoOrphanPause' /\ PauseHasDeadline' /\ NoStaleDeadline' /\ LinksAgree'
      BY <1>1, <2>1 DEF IInv, NoOrphanPause, PauseHasDeadline, NoStaleDeadline, LinksAgree,
                        linkVars
    <2> QED
      BY <1>3, <2>2, <2>3, <2>4 DEF IInv
  <1> QED
    BY <1>4, <1>5

LEMMA ShutdownStep ==
  ASSUME IInv, Shutdown
  PROVE  IInv'
  <1> DEFINE owned == {p \in Ptys : Stored(p)}
  <1>1. /\ serving' = FALSE /\ conns' = {}
        /\ sock' = [c \in Conns |-> IF c \in conns THEN "destroyed" ELSE sock[c]]
        /\ disposed' = disposed \cup owned /\ paused' = paused \ owned
        /\ proc' = [p \in Ptys |->
              IF p \in owned /\ proc[p] = "running" THEN "signalled" ELSE proc[p]]
        /\ UNCHANGED <<store, home, exited, negotiated, pausedSessions, pauseTimer,
                       subscriptions, writable>>
    BY DEF Shutdown
  <1>2. \A p \in owned : proc[p] # "unspawned"
    BY DEF IInv, FlagsAgree, Stored
  <1>3. FlagsAgree' /\ StoreAgrees' /\ NoStrandedPty'
    <2>1. \A p \in Ptys : proc'[p] = "unspawned" <=> proc[p] = "unspawned"
      BY <1>1
    <2>2. \A p \in Ptys : proc'[p] = "reported" => p \in exited'
      BY <1>1 DEF IInv, FlagsAgree
    <2> QED
      BY <1>1, <1>2, <2>1, <2>2, ReleaseKeeps
  <1>4. TypeOK'
    BY <1>1 DEF IInv, TypeOK, ProcStates, SockStates
  <1>5. paused' = {}
    BY <1>1 DEF IInv, FlagsAgree, NoStrandedPty, TypeOK
  <1>6. NoOrphanPause' /\ PauseHasDeadline' /\ NoStaleDeadline' /\ LinksAgree'
    BY <1>1, <1>5 DEF IInv, TypeOK, NoOrphanPause, PauseHasDeadline, NoStaleDeadline, LinksAgree
  <1> QED
    BY <1>3, <1>4, <1>6 DEF IInv

-----------------------------------------------------------------------------
LEMMA NextIInv == IInv /\ [Next]_vars => IInv'
  <1> SUFFICES ASSUME IInv, [Next]_vars PROVE IInv'
    OBVIOUS
  <1>1. ASSUME NEW c \in Conns, ConnNext(c)
        PROVE  IInv'
    BY <1>1, LinkSteps, PauseTimeoutStep, DrainStep, DropSteps DEF ConnNext
  <1>2. ASSUME NEW c \in Conns, RequestNext(c)
        PROVE  IInv'
    BY <1>2, SubscriptionSteps, OpenSteps, CloseStep DEF RequestNext
  <1>3. ASSUME NEW p \in Ptys, PtyNext(p)
        PROVE  IInv'
    BY <1>3, DeliverStep, ProcessEndsStep, ExitReportedStep DEF PtyNext
  <1>4. CASE UNCHANGED vars
    <2>1. UNCHANGED sessionVars /\ UNCHANGED flowVars /\ conns' = conns
      BY <1>4 DEF vars, linkVars
    <2>2. FlagsAgree' /\ StoreAgrees' /\ NoStrandedPty' /\ NoOrphanPause'
      BY <2>1, SessionsUntouched, HoldersUntouched DEF flowVars
    <2>3. TypeOK' /\ PauseHasDeadline' /\ NoStaleDeadline' /\ LinksAgree'
      BY <1>4 DEF IInv, TypeOK, PauseHasDeadline, NoStaleDeadline, LinksAgree,
                  vars, sessionVars, linkVars, flowVars
    <2> QED
      BY <2>2, <2>3 DEF IInv
  <1> QED
    BY <1>1, <1>2, <1>3, <1>4, ShutdownStep DEF Next, Stopped

(* The inductive invariant holds throughout, and with it the type invariant and  *)
(* the safety invariants of the runs.                                         *)
THEOREM InvariantsHold == Spec => []IInv
  <1> QED
    BY InitIInv, NextIInv, PTL DEF Spec

THEOREM TypeCorrect == Spec => []TypeOK
  <1>1. IInv => TypeOK
    BY DEF IInv
  <1> QED
    BY <1>1, InvariantsHold, PTL

(* Every PTY whose descriptor is open is reachable under its id.               *)
THEOREM NoPtyIsStranded == Spec => []NoStrandedPty
  <1>1. IInv => NoStrandedPty
    BY DEF IInv
  <1> QED
    BY <1>1, InvariantsHold, PTL

(* No terminal is frozen with nobody left to resume it.                        *)
THEOREM NoPauseIsOrphaned == Spec => []NoOrphanPause
  <1>1. IInv => NoOrphanPause
    BY DEF IInv
  <1> QED
    BY <1>1, InvariantsHold, PTL

(* Every conn that holds a PTY paused is on the clock.                         *)
THEOREM PausesHaveDeadlines == Spec => []PauseHasDeadline
  <1>1. IInv => PauseHasDeadline
    BY DEF IInv
  <1> QED
    BY <1>1, InvariantsHold, PTL

(* Only a conn that holds one is: no deadline outlives its pause.               *)
THEOREM DeadlinesHavePauses == Spec => []NoStaleDeadline
  <1>1. IInv => NoStaleDeadline
    BY DEF IInv
  <1> QED
    BY <1>1, InvariantsHold, PTL

-----------------------------------------------------------------------------
(* A session leaves the store, or is replaced, in three ways; none takes a live  *)
(* one except its own exit.                                                  *)
LEMMA StoreChanges ==
  ASSUME IInv, [Next]_vars, NEW id \in Ids, store'[id] # store[id]
  PROVE  Free(id) \/ (store[id] \in Ptys /\ ExitReported(store[id]))
  <1>1. CASE \E c \in Conns : ConnNext(c)
    BY <1>1 DEF ConnNext, Connect, Hello, ProtocolError, PartialFlush, Drain, PauseTimeout,
                PeerCloses, SocketError, SocketClosed, sessionVars
  <1>2. ASSUME NEW c \in Conns, RequestNext(c)
        PROVE  Free(id)
    <2>1. PICK i \in Ids :
            \/ \E p \in Ptys : OpenSession(c, i, p)
            \/ \E p \in Ptys \cup {None} : OpenFails(c, i, p)
            \/ CloseSession(c, i)
            \/ \E frames \in 0..1 : Subscribe(c, i, frames)
            \/ Unsubscribe(c, i)
      BY <1>2 DEF RequestNext
    <2>2. Free(i) /\ (i # id => store'[id] = store[id])
      BY <2>1 DEF OpenSession, OpenFails, CloseSession, Subscribe, Unsubscribe, sessionVars,
                  IInv, TypeOK
    <2> QED
      BY <2>2
  <1>3. ASSUME NEW p \in Ptys, PtyNext(p)
        PROVE  store[id] = p /\ ExitReported(p)
    <2>1. ExitReported(p) /\ Stored(p) /\ store' = [store EXCEPT ![home[p]] = None]
      BY <1>3 DEF PtyNext, Deliver, ProcessEnds, ExitReported, ExitApplies, sessionVars
    <2> QED
      BY <2>1 DEF IInv, TypeOK, Stored
  <1> QED
    BY <1>1, <1>2, <1>3 DEF Next, Shutdown, Stopped, vars, sessionVars

(* A late exit never takes the session that recycled its id.                   *)
THEOREM LiveSessionsStay == Spec => LiveSessionStays
  <1> DEFINE Stays == \A id \in Ids : store[id] \in Live /\ store'[id] # store[id]
                        => proc'[store[id]] = "reported"
  <1>1. ASSUME IInv, [Next]_vars
        PROVE  Stays
    <2> SUFFICES ASSUME NEW id \in Ids, store[id] \in Live, store'[id] # store[id]
                 PROVE  proc'[store[id]] = "reported"
      OBVIOUS
    <2>1. ~Free(id)
      BY <1>1, NoneAssumption DEF IInv, FlagsAgree, Free, Live
    <2>2. store[id] \in Ptys /\ ExitReported(store[id])
      BY <1>1, <2>1, StoreChanges
    <2> QED
      BY <1>1, <2>2 DEF ExitReported, IInv, TypeOK
  <1>2. IInv /\ [Next]_vars => [Stays]_vars
    BY <1>1
  <1> QED
    BY <1>2, InvariantsHold, PTL DEF Spec, LiveSessionStays

-----------------------------------------------------------------------------
(* Refinement: the store implements the abstract registry.                     *)

LEMMA InitRefines == Init => Registry!Init
  BY DEF Init, Registry!Init

(* The steps that touch no session are stutters of the registry.                *)
LEMMA SessionStutter ==
  ASSUME UNCHANGED sessionVars
  PROVE  UNCHANGED Registry!vars
  BY DEF sessionVars, Registry!vars

LEMMA RequestRefines ==
  ASSUME IInv, NEW c \in Conns, RequestNext(c)
  PROVE  [Registry!Next]_(Registry!vars)
  <1>1. PICK id \in Ids :
          \/ \E p \in Ptys : OpenSession(c, id, p)
          \/ \E p \in Ptys \cup {None} : OpenFails(c, id, p)
          \/ CloseSession(c, id)
          \/ \E frames \in 0..1 : Subscribe(c, id, frames)
          \/ Unsubscribe(c, id)
    BY DEF RequestNext
  <1>2. ASSUME NEW p \in Ptys, OpenSession(c, id, p)
        PROVE  Registry!Open(id, p)
    <2>1. /\ Free(id) /\ proc[p] = "unspawned" /\ UNCHANGED exited
          /\ store' = [store EXCEPT ![id] = p] /\ proc' = [proc EXCEPT ![p] = "running"]
      BY <1>2 DEF OpenSession
    <2>2. {q \in Ptys : proc'[q] # "unspawned"} = {q \in Ptys : proc[q] # "unspawned"} \cup {p}
      BY <2>1 DEF IInv, TypeOK
    <2> QED
      BY <2>1, <2>2 DEF Registry!Open, Registry!Available, Free
  <1>3. ASSUME NEW p \in Ptys \cup {None}, OpenFails(c, id, p)
        PROVE  Registry!OpenFails(id)
    <2>1. Free(id) /\ UNCHANGED exited /\ store' = [store EXCEPT ![id] = None]
      BY <1>3 DEF OpenFails
    <2>2. \/ UNCHANGED proc
          \/ /\ p \in Ptys /\ proc[p] = "unspawned"
             /\ proc' = [proc EXCEPT ![p] = "signalled"]
      BY <1>3 DEF OpenFails
    <2>3. CASE UNCHANGED proc
      BY <2>1, <2>3 DEF Registry!OpenFails, Registry!Available, Free
    <2>4. CASE p \in Ptys /\ proc[p] = "unspawned" /\ proc' = [proc EXCEPT ![p] = "signalled"]
      <3>1. {q \in Ptys : proc'[q] # "unspawned"} = {q \in Ptys : proc[q] # "unspawned"} \cup {p}
        BY <2>4 DEF IInv, TypeOK
      <3>2. p \in Ptys \ {q \in Ptys : proc[q] # "unspawned"}
        BY <2>4
      <3> QED
        BY <2>1, <3>1, <3>2 DEF Registry!OpenFails, Registry!Available, Free
    <2> QED
      BY <2>2, <2>3, <2>4
  <1>4. ASSUME CloseSession(c, id)
        PROVE  Registry!Close(id)
    <2>1. /\ UNCHANGED store /\ store[id] \in Ptys /\ exited' = exited \cup {store[id]}
      BY <1>4 DEF CloseSession, IInv, TypeOK
    <2>2. \A q \in Ptys : proc'[q] = "unspawned" <=> proc[q] = "unspawned"
      BY <1>4 DEF CloseSession, IInv, TypeOK
    <2>3. {q \in Ptys : proc'[q] # "unspawned"} = {q \in Ptys : proc[q] # "unspawned"}
      BY <2>2
    <2> QED
      BY <2>1, <2>3 DEF Registry!Close
  <1>5. ASSUME (\E frames \in 0..1 : Subscribe(c, id, frames)) \/ Unsubscribe(c, id)
        PROVE  UNCHANGED Registry!vars
    BY <1>5, SessionStutter DEF Subscribe, Unsubscribe
  <1> QED
    BY <1>1, <1>2, <1>3, <1>4, <1>5 DEF Registry!Next

LEMMA PtyRefines ==
  ASSUME IInv, NEW p \in Ptys, PtyNext(p)
  PROVE  [Registry!Next]_(Registry!vars)
  <1>1. CASE \E frames \in 1..MaxBurst : Deliver(p, frames)
    BY <1>1, SessionStutter DEF Deliver
  <1>2. ASSUME NEW state \in {"dead", "reported"}, proc' = [proc EXCEPT ![p] = state],
               proc[p] # "unspawned"
        PROVE  {q \in Ptys : proc'[q] # "unspawned"} = {q \in Ptys : proc[q] # "unspawned"}
    BY <1>2 DEF IInv, TypeOK
  <1>3. CASE ProcessEnds(p)
    BY <1>2, <1>3 DEF ProcessEnds, Registry!vars
  <1>4. CASE ExitReported(p)
    <2>1. /\ proc' = [proc EXCEPT ![p] = "reported"] /\ proc[p] # "unspawned"
          /\ exited' = exited \cup {p}
      BY <1>4 DEF ExitReported
    <2>2. {q \in Ptys : proc'[q] # "unspawned"} = {q \in Ptys : proc[q] # "unspawned"}
      BY <1>2, <2>1
    <2>3. CASE Stored(p)
      <3>1. /\ home[p] \in Ids /\ store[home[p]] = p
            /\ store' = [store EXCEPT ![home[p]] = None]
        BY <1>4, <2>3 DEF ExitReported, ExitApplies, Stored, IInv, TypeOK
      <3>2. Registry!Exit(home[p])
        BY <2>1, <2>2, <3>1 DEF Registry!Exit
      <3> QED
        BY <3>1, <3>2 DEF Registry!Next
    <2>4. CASE ~Stored(p)
      <3>1. UNCHANGED store
        BY <1>4, <2>4 DEF ExitReported, ExitApplies
      <3>2. \A id \in Ids : store[id] # p
        BY <2>4, NoneAssumption DEF IInv, TypeOK, StoreAgrees, Stored
      <3>3. Registry!StaleExit(p)
        BY <2>1, <2>2, <3>1, <3>2 DEF Registry!StaleExit
      <3> QED
        BY <3>3 DEF Registry!Next
    <2> QED
      BY <2>3, <2>4
  <1> QED
    BY <1>1, <1>3, <1>4 DEF PtyNext

LEMMA StepRefines ==
  ASSUME IInv, [Next]_vars
  PROVE  [Registry!Next]_(Registry!vars)
  <1>1. ASSUME NEW c \in Conns, ConnNext(c)
        PROVE  UNCHANGED Registry!vars
    BY <1>1, SessionStutter
       DEF ConnNext, Connect, Hello, ProtocolError, PartialFlush, Drain, PauseTimeout,
           PeerCloses, SocketError, SocketClosed
  <1>2. ASSUME Shutdown
        PROVE  UNCHANGED Registry!vars
    <2>1. UNCHANGED <<store, exited>>
      BY <1>2 DEF Shutdown
    <2>2. \A q \in Ptys : proc'[q] = "unspawned" <=> proc[q] = "unspawned"
      BY <1>2 DEF Shutdown, IInv, TypeOK
    <2>3. {q \in Ptys : proc'[q] # "unspawned"} = {q \in Ptys : proc[q] # "unspawned"}
      BY <2>2
    <2> QED
      BY <2>1, <2>3 DEF Registry!vars
  <1>3. ASSUME UNCHANGED vars
        PROVE  UNCHANGED Registry!vars
    BY <1>3 DEF vars, sessionVars, Registry!vars
  <1> QED
    BY <1>1, <1>2, <1>3, RequestRefines, PtyRefines DEF Next, Stopped

(* The daemon implements the registry.                                        *)
THEOREM DaemonImplementsRegistry == Spec => ImplementsRegistry
  <1>1. IInv /\ [Next]_vars => [Registry!Next]_(Registry!vars)
    BY StepRefines
  <1> QED
    BY <1>1, InitRefines, InvariantsHold, PTL DEF Spec, ImplementsRegistry, Registry!Spec

=============================================================================
