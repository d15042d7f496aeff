--------------------------- MODULE SessionRegistry ---------------------------
(***************************************************************************)
(* What the pty-daemon promises its clients about session ids, without       *)
(* sockets, flow control or processes: an id names at most one session, a    *)
(* session that has not ended keeps its id, and a PTY is used once.          *)
(* PtyDaemon implements it.                                                 *)
(***************************************************************************)
CONSTANTS Ids, Ptys, None

VARIABLES
  owner,  \* the PTY each id names
  ended,  \* PTYs whose session has ended: closed, or exited
  used    \* PTYs already spawned

vars == <<owner, ended, used>>

Init ==
  /\ owner = [id \in Ids |-> None]
  /\ ended = {}
  /\ used = {}

Available(id) == owner[id] = None \/ owner[id] \in ended

(* A fresh PTY takes an id that is free or whose session has ended.          *)
Open(id, p) ==
  /\ Available(id)
  /\ p \notin used
  /\ owner' = [owner EXCEPT ![id] = p]
  /\ used' = used \cup {p}
  /\ UNCHANGED ended

(* The open fails, possibly after a PTY was spawned: the id is left free.    *)
OpenFails(id) ==
  /\ Available(id)
  /\ owner' = [owner EXCEPT ![id] = None]
  /\ \/ UNCHANGED used
     \/ \E p \in Ptys \ used : used' = used \cup {p}
  /\ UNCHANGED ended

(* A client closes the session an id names.                                 *)
Close(id) ==
  /\ owner[id] \in Ptys
  /\ ended' = ended \cup {owner[id]}
  /\ UNCHANGED <<owner, used>>

(* The exit of the session an id names frees the id.                        *)
Exit(id) ==
  /\ owner[id] \in Ptys
  /\ ended' = ended \cup {owner[id]}
  /\ owner' = [owner EXCEPT ![id] = None]
  /\ UNCHANGED used

(* The exit of a PTY no id names any more touches no id.                     *)
StaleExit(p) ==
  /\ p \in used
  /\ \A id \in Ids : owner[id] # p
  /\ ended' = ended \cup {p}
  /\ UNCHANGED <<owner, used>>

Next ==
  \/ \E id \in Ids : \/ \E p \in Ptys : Open(id, p)
                     \/ OpenFails(id)
                     \/ Close(id)
                     \/ Exit(id)
  \/ \E p \in Ptys : StaleExit(p)

Spec == Init /\ [][Next]_vars
=============================================================================
