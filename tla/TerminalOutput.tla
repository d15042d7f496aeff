--------------------------- MODULE TerminalOutput ---------------------------
(***************************************************************************)
(* The output path of one terminal: from its PTY through the host's        *)
(* session (packages/host-service/src/terminal/terminal.ts) over           *)
(* websockets to the panes that show it (the desktop's terminal-ws-        *)
(* transport.ts, the phone's page).  Output is a stream of numbered bytes; *)
(* a pane keeps an anchor, the position up to which its screen holds the   *)
(* stream, and dials with it, so that the host can send exactly what it    *)
(* missed out of a bounded ring.                                           *)
(*                                                                         *)
(* The stream of one session object is an `epoch`; 0 stands for no session *)
(* and for no anchor.  A chunk is one byte, a size one dimension, 0 for    *)
(* none.  A pane dials into one of two slots, so that the socket the host  *)
(* still holds may outlive the one the pane dialled after it.              *)
(*                                                                         *)
(* History, which no guard reads: `painted` is the run of bytes on a       *)
(* screen, `kept` the run in its persisted snapshot, `layout` the size     *)
(* each byte was written at, `owed` the sockets that were told to skip     *)
(* output and whose program has not been made to redraw since, `missed`    *)
(* those of them that a resize to the very size a nudge had given the PTY  *)
(* left without, and `muddled` the phones that dialled, or took a new      *)
(* position, while they had yet to parse what they had received.           *)
(*                                                                         *)
(* Left out: clients that dial without a position, sessions that exited, a *)
(* socket that moves to a replaced session object, the phone's own         *)
(* snapshots, focus, colours, titles and input.                            *)
(***************************************************************************)
EXTENDS Integers, FiniteSets, FiniteSetsExt, Sequences

CONSTANTS
  Panes,        \* clients
  Phones,       \* those that may be off screen and stay connected
  Boxes,        \* the sizes a client may report
  RingCap,      \* CATCHUP_RING_CAP_BYTES
  MaxQueue,     \* bound: messages a pane has under way when it moves
  Budgets       \* bound: the bytes of a session, the sessions, each pane's first size,
                \* its dials and its moves

ASSUME OutputAssumption ==
  /\ Phones \subseteq Panes
  /\ Boxes \subseteq Nat \ {0, 1} /\ \E b \in Boxes : \A other \in Boxes : b >= other
  /\ RingCap \in Nat \ {0} /\ MaxQueue \in Nat
  /\ Budgets \subseteq [bytes : Nat, sessions : Nat, boxes : [Panes -> Boxes],
                        dials : [Panes -> Nat], moves : [Panes -> Nat]]

VARIABLES
  epoch, epochs, out, first, lastResize, layout,   \* the session's stream
  size, kernel, nudge, restoring,                  \* the PTY's size and its repaints
  open, req, sockets, dims, hidden,                \* what the host knows of its sockets
  inbox, outbox,                                   \* what is under way to and from a pane
  conn, ready, counting, fresh,                    \* a pane's connection
  anchor, content, queued, painted,                \* its screen
  visible, box, saved, kept,
  awake, heard,                                    \* has it a socket; what its
                                                   \* transport ever received
  owed, missed, muddled,
  budget                                           \* what is left of it

stream == <<epoch, epochs, out, first, layout>>
pty == <<size, kernel, nudge, restoring, lastResize>>
host == <<open, req, sockets, dims, hidden>>
wire == <<inbox, outbox>>
link == <<conn, ready, counting, fresh>>
screen == <<anchor, content, queued, painted>>
pane == <<link, screen, visible, box, saved, kept, awake, heard, muddled, budget>>
vars == <<stream, pty, host, wire, pane, owed, missed>>

Conns == Panes \X {1, 2}
Current(c) == conn[c[1]] = c[2]

NoAnchor == [epoch |-> 0, seq |-> 0]
NoRequest == [kind |-> "idle", epoch |-> 0, seq |-> 0]
Blank == [epoch |-> 0, start |-> 0, bytes |-> <<>>]
MinRows == 1

Init ==
  /\ budget \in Budgets
  /\ epoch = 0 /\ epochs = 0 /\ out = 0 /\ first = 0 /\ lastResize = -1 /\ layout = <<>>
  /\ size = Max(Boxes) /\ kernel = size /\ nudge = FALSE /\ restoring = FALSE
  /\ open = {} /\ req = [c \in Conns |-> NoRequest] /\ sockets = {}
  /\ dims = [c \in Conns |-> 0] /\ hidden = [c \in Conns |-> "no"]
  /\ inbox = [p \in Panes |-> <<>>] /\ outbox = [c \in Conns |-> <<>>]
  /\ conn = [p \in Panes |-> 0] /\ ready = [p \in Panes |-> FALSE]
  /\ counting = [p \in Panes |-> FALSE] /\ fresh = [p \in Panes |-> FALSE]
  /\ anchor = [p \in Panes |-> NoAnchor] /\ content = [p \in Panes |-> FALSE]
  /\ visible = [p \in Panes |-> TRUE] /\ box = budget.boxes
  /\ queued = [p \in Panes |-> <<>>]
  /\ saved = [p \in Panes |-> NoAnchor]
  /\ painted = [p \in Panes |-> Blank] /\ kept = [p \in Panes |-> Blank]
  /\ awake = [p \in Panes |-> TRUE] /\ heard = [p \in Panes |-> "nothing"]
  /\ owed = {} /\ missed = {} /\ muddled = {}

-----------------------------------------------------------------------------
(* The PTY's size.                                                         *)

(* The smallest box across the visible clients, 0 when there is none.      *)
EffectiveDims(d, h) ==
  LET seen == {d[c] : c \in {k \in Conns : d[k] # 0 /\ h[k] = "no"}}
  IN  IF seen = {} THEN 0 ELSE Min(seen)

(* applyEffectiveDims.  A resize voids the restore of a nudge under way,   *)
(* records its position in the stream and leaves the hidden clients behind *)
(* that were still in step.                                                *)
Applied(next, force) == next # 0 /\ (force \/ next # size)
ApplyVoids(next, d, h, force) ==    \* mutant: a resize to the same size only voids the restore
  /\ dims' = d
  /\ IF Applied(next, force)
     THEN /\ size' = next /\ restoring' = FALSE
          /\ kernel' = IF next = size THEN kernel ELSE next
     ELSE UNCHANGED <<size, kernel, restoring>>
  /\ IF next \notin {0, size}
     THEN /\ lastResize' = out'
          /\ hidden' = [c \in Conns |-> IF h[c] = "step" THEN "diverged" ELSE h[c]]
     ELSE hidden' = h /\ UNCHANGED lastResize
Apply(next, d, h, force) ==
  /\ dims' = d
  /\ IF Applied(next, force)
     THEN size' = next /\ kernel' = next /\ restoring' = FALSE
     ELSE UNCHANGED <<size, kernel, restoring>>
  /\ IF next \notin {0, size}
     THEN /\ lastResize' = out'
          /\ hidden' = [c \in Conns |-> IF h[c] = "step" THEN "diverged" ELSE h[c]]
     ELSE hidden' = h /\ UNCHANGED lastResize

(* What nudgeRepaint makes of a size: one row less, or one more at the     *)
(* minimum.                                                                *)
ToggledDown(b) == b - 1    \* mutant: there is always a row to take
Toggled(b) == IF b > MinRows THEN b - 1 ELSE b + 1

(* detachSocket, for each of a set of sockets in any order: a departing    *)
(* client releases its constraint, unless it was hidden and had none.      *)
DetachKeepsDims(gone) ==    \* mutant: the socket goes, its box stays
  /\ sockets' = sockets \ gone
  /\ Apply(EffectiveDims(dims, hidden), dims, hidden, FALSE)
Detach(gone) ==
  LET d == [c \in Conns |-> IF c \in gone THEN 0 ELSE dims[c]]
      h == [c \in Conns |-> IF c \in gone THEN "no" ELSE hidden[c]]
      held == {c \in gone : dims[c] # 0 /\ hidden[c] = "no"}
      left == EffectiveDims(d, h)
      last == IF held = {} THEN {0}
              ELSE IF left = 0 /\ Cardinality(held) > 1 THEN {dims[c] : c \in held}
              ELSE {left}
  IN  /\ sockets' = sockets \ gone
      /\ \E next \in last : Apply(next, d, h, FALSE)

(* Every program redraws on a SIGWINCH, which the kernel sends when its    *)
(* size changes.  A resize to the size a nudge has already given it        *)
(* changes nothing.                                                        *)
Coincides == size' # size /\ size' = kernel
Repaints(left) ==
  /\ owed' = IF kernel' # kernel THEN {} ELSE left
  /\ missed' = IF Coincides THEN owed' ELSE missed \cap owed'

-----------------------------------------------------------------------------
(* The session.                                                            *)

(* An attach finds no session and adopts or starts one: a new stream, with *)
(* what the daemon's ring replays, at the size the daemon has.             *)
Adopt ==
  /\ epoch = 0 /\ epochs < budget.sessions
  /\ \E c \in Conns : req[c] # NoRequest
  /\ epochs' = epochs + 1 /\ epoch' = epochs'
  /\ \E n \in 0..1 : n <= budget.bytes /\ out' = n /\ layout' = [i \in 1..n |-> 0]
  /\ first' = 0 /\ lastResize' = -1
  /\ size' = kernel
  /\ UNCHANGED <<kernel, nudge, restoring, host, wire, pane, owed, missed>>

(* onDaemonDisconnect: the session object and its timers are gone.         *)
DaemonDisconnect ==
  /\ epoch # 0
  /\ epoch' = 0 /\ out' = 0 /\ first' = 0 /\ layout' = <<>> /\ lastResize' = -1
  /\ open' = open \ sockets /\ sockets' = {}
  /\ dims' = [c \in Conns |-> 0] /\ hidden' = [c \in Conns |-> "no"]
  /\ nudge' = FALSE /\ restoring' = FALSE
  /\ owed' = {} /\ missed' = {}
  /\ UNCHANGED <<epochs, size, kernel, req, wire, pane>>

Synced(mode, seq) == [type |-> "synced", epoch |-> epoch, mode |-> mode, from |-> seq, upto |-> seq]
Bytes(from, upto) ==
  [type |-> "bytes", epoch |-> epoch, mode |-> "none", from |-> from, upto |-> upto]
Report(type, b) == [type |-> type, box |-> b]
Plain(type) == [type |-> type, epoch |-> 0, mode |-> "none", from |-> 0, upto |-> 0]

(* deliverOutput: retain, then broadcast.  A socket that closed, or does   *)
(* not drain, is detached on the way, and the hidden ones that this leaves *)
(* behind get the byte or not, as their turn comes before or after.        *)
Output ==
  /\ epoch # 0 /\ out < budget.bytes
  /\ out' = out + 1 /\ layout' = Append(layout, size)
  /\ first' = Max({first, out' - RingCap})
  /\ \E stuck \in SUBSET {c \in sockets \cap open : hidden[c] # "diverged"} :
       LET gone == (sockets \ open) \cup stuck
           step == {c \in sockets \ gone : hidden[c] = "step"}
           live == {c \in sockets \ gone : hidden[c] = "no"}
       IN  /\ Detach(gone)
           /\ open' = open \ gone
           /\ \E late \in SUBSET step :
                /\ lastResize' = lastResize => late = {}
                /\ inbox' = [p \in Panes |-> IF <<p, conn[p]>> \in live \cup (step \ late)
                                             THEN Append(inbox[p], Bytes(out, out'))
                                             ELSE inbox[p]]
           /\ Repaints(owed \ gone)
  /\ UNCHANGED <<epoch, epochs, nudge, req, outbox, pane>>

(* What goes to a socket reaches a pane only while it is the pane's own.   *)
Sent(c, messages) ==
  IF Current(c) THEN [inbox EXCEPT ![c[1]] = @ \o messages] ELSE inbox

(* sendSeqAttach.                                                          *)
ExactLoosely(r) ==    \* mutant: a position in the ring will do, whatever was resized since
  r.kind = "anchor" /\ r.epoch = epoch /\ r.seq >= first /\ r.seq <= out
Exact(r) ==
  /\ r.kind = "anchor" /\ r.epoch = epoch
  /\ r.seq >= first /\ r.seq > lastResize /\ r.seq <= out

CatchUpSkips(from) ==    \* mutant: the byte at the anchor counts as delivered
  IF from + 1 < out THEN <<Bytes(from + 1, out)>> ELSE <<>>
CatchUp(from) == IF from < out THEN <<Bytes(from, out)>> ELSE <<>>
Answer(r) ==
  IF Exact(r) THEN <<Synced("exact", r.seq)>> \o CatchUp(r.seq)
  ELSE IF r.kind = "new" THEN <<Synced("tail", first)>> \o CatchUp(first)
  ELSE <<Synced("reanchor", out)>>

(* attachSocketToSession.  The mode preamble, when there is one, precedes  *)
(* the anchor and does not count.                                          *)
Attach(c) ==
  /\ epoch # 0 /\ c \in open /\ req[c] # NoRequest
  /\ sockets' = sockets \cup {c}
  /\ \E preamble \in {<<>>} \cup IF c[1] \in Phones THEN {} ELSE {<<Plain("preamble")>>} :
       inbox' = Sent(c, <<Plain("attached")>> \o preamble \o Answer(req[c]))
  /\ IF Exact(req[c]) \/ req[c].kind = "new"
     THEN UNCHANGED <<nudge, owed>>
     ELSE nudge' = TRUE /\ owed' = owed \cup {c}
  /\ req' = [req EXCEPT ![c] = NoRequest]
  /\ UNCHANGED <<stream, size, kernel, restoring, lastResize, open, dims, hidden, outbox, pane,
                 missed>>

(* The messages of a client, in the order it sent them.  Those of a socket *)
(* the session does not hold are dropped.                                  *)
Heard(c) == outbox[c] # <<>> /\ outbox' = [outbox EXCEPT ![c] = Tail(@)]

Ignore(c) ==
  /\ Heard(c) /\ (epoch = 0 \/ c \notin sockets)
  /\ UNCHANGED <<stream, pty, host, inbox, pane, owed, missed>>

(* nudgeRepaint, after `resized` says what the size is by then.            *)
Nudge(now) == kernel' = Toggled(now) /\ restoring' = TRUE

HandleHide(c) ==
  /\ Heard(c) /\ epoch # 0 /\ c \in sockets /\ Head(outbox[c]).type = "hide"
  /\ UNCHANGED <<stream, nudge, open, req, sockets, inbox, pane>>
  /\ LET h == [hidden EXCEPT ![c] = IF @ = "no" THEN "step" ELSE @]
     IN  Apply(EffectiveDims(dims, h), dims, h, FALSE)
  /\ Repaints(owed)

(* A client back on screen: one whose output was withheld is told its new  *)
(* position, and the program redraws, by the resize or by a nudge.         *)
HandleShowSilently(c) ==    \* mutant: the client is not told its new position
  /\ Heard(c) /\ epoch # 0 /\ c \in sockets /\ Head(outbox[c]).type = "show"
  /\ UNCHANGED <<stream, nudge, open, req, sockets, pane>>
  /\ LET h == [hidden EXCEPT ![c] = "no"]
         next == EffectiveDims(dims, h)
         resumes == hidden[c] = "diverged"
     IN  /\ UNCHANGED inbox
         /\ IF resumes /\ next \in {0, size}
            THEN /\ Nudge(size) /\ dims' = dims /\ hidden' = h
                 /\ UNCHANGED <<size, lastResize>>
            ELSE Apply(next, dims, h, FALSE)
         /\ Repaints(owed \cup IF resumes THEN {c} ELSE {})
HandleShow(c) ==
  /\ Heard(c) /\ epoch # 0 /\ c \in sockets /\ Head(outbox[c]).type = "show"
  /\ UNCHANGED <<stream, nudge, open, req, sockets, pane>>
  /\ LET h == [hidden EXCEPT ![c] = "no"]
         next == EffectiveDims(dims, h)
         resumes == hidden[c] = "diverged"
     IN  /\ IF resumes
            THEN inbox' = Sent(c, <<Synced("reanchor", out)>>)
            ELSE UNCHANGED inbox
         /\ IF resumes /\ next \in {0, size}
            THEN /\ Nudge(size) /\ dims' = dims /\ hidden' = h
                 /\ UNCHANGED <<size, lastResize>>
            ELSE Apply(next, dims, h, FALSE)
         /\ Repaints(owed \cup IF resumes THEN {c} ELSE {})

(* A resize takes the place of the nudge an attach armed: the size moves,  *)
(* or it is nudged.                                                        *)
NudgeDueUnsized(next) == nudge /\ next = 0    \* mutant: a resize to the same size will do
NudgeDue(next) == nudge /\ next \in {0, size}
HandleResize(c) ==
  /\ Heard(c) /\ epoch # 0 /\ c \in sockets /\ Head(outbox[c]).type = "resize"
  /\ UNCHANGED <<stream, open, req, sockets, inbox, pane>>
  /\ nudge' = FALSE
  /\ LET d == [dims EXCEPT ![c] = Head(outbox[c]).box]
         next == EffectiveDims(d, hidden)
     IN  IF NudgeDue(next)
         THEN /\ Nudge(size) /\ dims' = d /\ UNCHANGED <<size, lastResize, hidden>>
              /\ Repaints(IF next = size THEN {} ELSE owed)
         ELSE Apply(next, d, hidden, TRUE) /\ Repaints(owed)

(* The timers of the nudge.                                                *)
NudgeFires ==
  /\ epoch # 0 /\ nudge /\ nudge' = FALSE
  /\ UNCHANGED <<stream, size, lastResize, host, wire, pane>>
  /\ Nudge(size) /\ Repaints(owed)

Restore ==
  /\ epoch # 0 /\ restoring /\ restoring' = FALSE
  /\ UNCHANGED <<stream, size, nudge, lastResize, host, wire, pane>>
  /\ kernel' = size /\ Repaints(owed)

(* sweepClientLiveness drops a client on screen that stopped answering.    *)
SweepDrop(c) ==
  /\ epoch # 0 /\ c \in sockets \cap open /\ hidden[c] = "no"
  /\ UNCHANGED <<stream, nudge, req, wire, pane>>
  /\ Detach({c}) /\ open' = open \ {c}
  /\ Repaints(owed \ {c})

(* The other end is closing, and the close event has not come yet.         *)
PeerCloses(c) ==
  /\ c \in open /\ ~Current(c)
  /\ open' = open \ {c}
  /\ UNCHANGED <<stream, pty, req, sockets, dims, hidden, wire, pane, owed, missed>>

(* onClose, onError.                                                       *)
CloseEvent(c) ==
  /\ c \in open \cup sockets
  /\ UNCHANGED <<stream, nudge, inbox, pane>>
  /\ open' = open \ {c} /\ req' = [req EXCEPT ![c] = NoRequest]
  /\ outbox' = [outbox EXCEPT ![c] = <<>>]
  /\ Detach({c})
  /\ Repaints(owed \ {c})

-----------------------------------------------------------------------------
(* The panes.                                                              *)

(* connect: the position to resume from, nothing on a screen that is       *)
(* blank, or "none" when the screen holds something of unknown position.   *)
Request(p) ==
  IF anchor[p] # NoAnchor THEN [kind |-> "anchor", epoch |-> anchor[p].epoch, seq |-> anchor[p].seq]
  ELSE [kind |-> IF content[p] THEN "none" ELSE "new", epoch |-> 0, seq |-> 0]

(* A position that is sent, or taken, while chunks are still queued is not *)
(* that of the screen: the page does either at once, and counts the chunks *)
(* on top of it when they are parsed.                                      *)
Positions(p) == muddled' = IF queued[p] = <<>> THEN muddled ELSE muddled \cup {p}

Idle(c) == c \notin open \cup sockets /\ ~Current(c)

Dial(p) ==
  /\ conn[p] = 0 /\ awake[p] /\ Positions(p)
  /\ budget.dials[p] > 0 /\ budget' = [budget EXCEPT !.dials[p] = @ - 1]
  /\ \E i \in {1, 2} :
       LET c == <<p, i>>
       IN  /\ Idle(c) /\ (i = 2 => ~Idle(<<p, 1>>))
           /\ conn' = [conn EXCEPT ![p] = i] /\ open' = open \cup {c}
           /\ req' = [req EXCEPT ![c] = Request(p)]
           /\ outbox' = [outbox EXCEPT ![c] = <<>>]
  /\ UNCHANGED <<stream, pty, sockets, dims, hidden, inbox, ready, counting, fresh, screen,
                 visible, box, saved, kept, awake, heard, owed, missed>>

(* What a pane says of itself; nothing, unless it is connected.            *)
Says(p, messages) ==
  outbox' = IF ready[p] THEN [outbox EXCEPT ![<<p, conn[p]>>] = @ \o messages] ELSE outbox
Quiet(p) == \A i \in {conn[p]} \ {0} : Len(outbox[<<p, i>>]) < MaxQueue

Moving(p) == budget.moves[p] > 0 /\ budget' = [budget EXCEPT !.moves[p] = @ - 1]

ShownAs(p) == Report(IF visible[p] THEN "show" ELSE "hide", 0)

(* The next message of the pane's socket.                                  *)
Reads(p, type) ==
  /\ inbox[p] # <<>> /\ Head(inbox[p]).type = type
  /\ inbox' = [inbox EXCEPT ![p] = Tail(@)]
Arrived(p) == Head(inbox[p])

ReadAttached(p) ==
  /\ Reads(p, "attached")
  /\ ready' = [ready EXCEPT ![p] = TRUE]
  /\ counting' = [counting EXCEPT ![p] = FALSE] /\ fresh' = [fresh EXCEPT ![p] = FALSE]
  /\ outbox' = [outbox EXCEPT ![<<p, conn[p]>>] = @ \o <<ShownAs(p), Report("resize", box[p])>>]
  /\ UNCHANGED <<stream, pty, host, conn, screen, visible, box, saved, kept,
                 awake, heard, muddled, owed, missed, budget>>

(* Output before any position: _hasReceivedBytes without _seqEverSynced.   *)
Hears(p) == heard' = [heard EXCEPT ![p] = IF @ = "nothing" THEN "bytes" ELSE @]

ReadPreamble(p) ==
  /\ Reads(p, "preamble") /\ Hears(p)
  /\ fresh' = [fresh EXCEPT ![p] = TRUE] /\ content' = [content EXCEPT ![p] = TRUE]
  /\ UNCHANGED <<stream, pty, host, outbox, conn, ready, counting, anchor, queued, painted,
                 visible, box, saved, kept, awake, muddled, owed, missed, budget>>

(* The pane takes the host's word for where it is.  Only an exact attach   *)
(* leaves it where it was.                                                 *)
ReadSynced(p) ==
  /\ Reads(p, "synced") /\ Positions(p)
  /\ heard' = [heard EXCEPT ![p] = "synced"]
  /\ LET m == Arrived(p)
     IN  /\ anchor' = [anchor EXCEPT ![p] = [epoch |-> m.epoch, seq |-> m.from]]
         /\ painted' = IF m.mode = "exact" THEN painted
                       ELSE [painted EXCEPT ![p] =
                               [epoch |-> m.epoch, start |-> m.from, bytes |-> <<>>]]
  /\ counting' = [counting EXCEPT ![p] = TRUE]
  /\ UNCHANGED <<stream, pty, host, outbox, conn, ready, fresh, content, queued,
                 visible, box, saved, kept, awake, owed, missed, budget>>

Counted(p, n, counts) == IF counts THEN [anchor EXCEPT ![p].seq = @ + n] ELSE anchor
Onto(p, m) ==
  [painted EXCEPT ![p].bytes = @ \o [i \in 1..(m.upto - m.from) |-> m.from + i]]

ReadBytes(p) ==
  /\ Reads(p, "bytes") /\ Hears(p)
  /\ LET m == Arrived(p)
     IN  IF p \in Phones
         THEN /\ queued' = [queued EXCEPT ![p] = Append(@, [chunk |-> m, counts |-> counting[p]])]
              /\ UNCHANGED <<anchor, painted>>
         ELSE /\ anchor' = Counted(p, m.upto - m.from, counting[p]) /\ painted' = Onto(p, m)
              /\ UNCHANGED queued
  /\ fresh' = [fresh EXCEPT ![p] = TRUE] /\ content' = [content EXCEPT ![p] = TRUE]
  /\ UNCHANGED <<stream, pty, host, outbox, conn, ready, counting, visible, box, saved,
                 kept, awake, muddled, owed, missed, budget>>

(* The phone's page: the terminal reports a chunk as parsed.               *)
Paint(p) ==
  /\ queued[p] # <<>> /\ queued' = [queued EXCEPT ![p] = Tail(@)]
  /\ LET m == Head(queued[p]).chunk
     IN  /\ anchor' = Counted(p, m.upto - m.from, Head(queued[p]).counts)
         /\ painted' = Onto(p, m)
  /\ UNCHANGED <<stream, pty, host, wire, link, content, visible, box, saved, kept,
                 awake, heard, muddled, owed, missed, budget>>

(* The pane's end of the connection is gone.  Bytes without an anchor      *)
(* poison the desktop's.                                                   *)
Unlink(p) ==
  /\ conn' = [conn EXCEPT ![p] = 0] /\ ready' = [ready EXCEPT ![p] = FALSE]
  /\ counting' = [counting EXCEPT ![p] = FALSE] /\ fresh' = [fresh EXCEPT ![p] = FALSE]
  /\ inbox' = [inbox EXCEPT ![p] = <<>>]
Poisoned(p) == p \notin Phones /\ fresh[p] /\ ~counting[p]

Lose(p) ==
  /\ conn[p] # 0 /\ Unlink(p)
  /\ anchor' = IF Poisoned(p) THEN [anchor EXCEPT ![p] = NoAnchor] ELSE anchor
  /\ UNCHANGED <<stream, pty, host, outbox, content, queued, painted, visible, box, saved,
                 kept, awake, heard, muddled, owed, missed, budget>>

(* A desktop pane leaves the screen: it says so, persists its buffer with  *)
(* its anchor, or without when the buffer is not up to it or the anchor    *)
(* cannot be trusted, and closes its socket.  It keeps the socket when     *)
(* output has come and never a position, as from a host that knows none.   *)
Unplaced(p) == heard[p] = "bytes"
Persistable(p) == {NoAnchor} \cup IF Unplaced(p) THEN {} ELSE {anchor[p]}

Park(p) ==
  /\ p \notin Phones /\ visible[p]
  /\ Moving(p)
  /\ visible' = [visible EXCEPT ![p] = FALSE]
  /\ Says(p, <<Report("hide", 0)>>)
  /\ \E a \in Persistable(p) : saved' = [saved EXCEPT ![p] = a]
  /\ kept' = [kept EXCEPT ![p] = painted[p]]
  /\ IF Unplaced(p) THEN UNCHANGED <<inbox, link, anchor, awake>>
     ELSE /\ Unlink(p) /\ awake' = [awake EXCEPT ![p] = FALSE]
          /\ anchor' = IF Poisoned(p) THEN [anchor EXCEPT ![p] = NoAnchor] ELSE anchor
  /\ UNCHANGED <<stream, pty, host, content, queued, painted, box, heard, muddled, owed, missed>>

(* Back on screen: a socket that was kept says so, and reports the size    *)
(* again.                                                                  *)
Unpark(p) ==
  /\ p \notin Phones /\ ~visible[p]
  /\ Moving(p)
  /\ visible' = [visible EXCEPT ![p] = TRUE] /\ awake' = [awake EXCEPT ![p] = TRUE]
  /\ Says(p, <<Report("show", 0), Report("resize", box[p])>>)
  /\ UNCHANGED <<stream, pty, host, inbox, link, screen, box, saved, kept, heard, muddled,
                 owed, missed>>

(* The renderer restarts, or has evicted the parked pane, persisting it    *)
(* once more: the snapshot comes back with the anchor that was persisted   *)
(* with it.                                                                *)
ReloadKeepsAnchor(p) ==    \* mutant: the old buffer with the live position
  /\ p \notin Phones /\ Unlink(p)
  /\ Moving(p)
  /\ visible' = [visible EXCEPT ![p] = TRUE] /\ awake' = [awake EXCEPT ![p] = TRUE]
  /\ heard' = [heard EXCEPT ![p] = "nothing"]
  /\ painted' = [painted EXCEPT ![p] = kept[p]]
  /\ content' = [content EXCEPT ![p] = kept[p] # Blank]
  /\ UNCHANGED <<stream, pty, host, outbox, anchor, queued, box, saved, kept, muddled,
                 owed, missed>>
Reload(p) ==
  /\ p \notin Phones /\ Unlink(p)
  /\ Moving(p)
  /\ \/ UNCHANGED <<saved, kept>>
     \/ /\ ~visible[p]
        /\ \E a \in Persistable(p) : saved' = [saved EXCEPT ![p] = a]
        /\ kept' = [kept EXCEPT ![p] = painted[p]]
  /\ visible' = [visible EXCEPT ![p] = TRUE] /\ awake' = [awake EXCEPT ![p] = TRUE]
  /\ heard' = [heard EXCEPT ![p] = "nothing"]
  /\ anchor' = [anchor EXCEPT ![p] = saved'[p]] /\ painted' = [painted EXCEPT ![p] = kept'[p]]
  /\ content' = [content EXCEPT ![p] = kept'[p] # Blank]
  /\ UNCHANGED <<stream, pty, host, outbox, queued, box, muddled, owed, missed>>

(* The phone's page goes behind another or the background, and comes back. *)
Toggle(p) ==
  /\ p \in Phones /\ Quiet(p)
  /\ Moving(p)
  /\ visible' = [visible EXCEPT ![p] = ~@]
  /\ Says(p, <<Report(IF visible[p] THEN "hide" ELSE "show", 0)>>)
  /\ UNCHANGED <<stream, pty, host, inbox, link, screen, box, saved, kept, awake, heard,
                 muddled, owed, missed>>

Fit(p) ==
  /\ visible[p] /\ Quiet(p)
  /\ Moving(p)
  /\ \E b \in Boxes \ {box[p]} :
       /\ box' = [box EXCEPT ![p] = b]
       /\ Says(p, <<Report("resize", b)>>)
  /\ UNCHANGED <<stream, pty, host, inbox, link, screen, visible, saved, kept, awake, heard,
                 muddled, owed, missed>>

-----------------------------------------------------------------------------
HostNext ==
  \/ Adopt \/ DaemonDisconnect \/ Output \/ NudgeFires \/ Restore
  \/ \E c \in Conns :
       \/ Attach(c) \/ Ignore(c) \/ HandleHide(c) \/ HandleShow(c) \/ HandleResize(c)
       \/ SweepDrop(c) \/ PeerCloses(c) \/ CloseEvent(c)
PaneNext(p) ==
  \/ Dial(p) \/ ReadAttached(p) \/ ReadPreamble(p) \/ ReadSynced(p) \/ ReadBytes(p) \/ Paint(p)
  \/ Lose(p) \/ Park(p) \/ Unpark(p) \/ Reload(p) \/ Toggle(p) \/ Fit(p)
Next == HostNext \/ \E p \in Panes : PaneNext(p)

Spec == Init /\ [][Next]_vars

-----------------------------------------------------------------------------
Step == [type : {"synced"}, epoch : Nat, mode : {"exact", "tail", "reanchor"}, from : Nat,
         upto : Nat]
        \cup [type : {"bytes", "preamble", "attached"}, epoch : Nat, mode : {"none"},
              from : Nat, upto : Nat]
Reports == [type : {"hide", "show", "resize"}, box : Boxes \cup {0}]
Position == [epoch : Nat, seq : Nat]
Run == [epoch : Nat, start : Nat, bytes : Seq(Nat)]

(* Types; a PTY has rows, what is owed a redraw is attached, and only a    *)
(* phone parses later than it receives.                                    *)
TypeOK ==
  /\ epochs \in Nat /\ epoch \in 0..epochs /\ out \in Nat /\ first \in 0..out
  /\ lastResize \in -1..out /\ layout \in Seq(Nat) /\ Len(layout) = out
  /\ size \in Nat \ {0} /\ kernel \in Nat \ {0} /\ nudge \in BOOLEAN /\ restoring \in BOOLEAN
  /\ open \subseteq Conns /\ sockets \subseteq Conns /\ owed \subseteq sockets
  /\ req \in [Conns -> [kind : {"idle", "none", "anchor", "new"}, epoch : Nat, seq : Nat]]
  /\ dims \in [Conns -> Boxes \cup {0}] /\ hidden \in [Conns -> {"no", "step", "diverged"}]
  /\ inbox \in [Panes -> Seq(Step)] /\ outbox \in [Conns -> Seq(Reports)]
  /\ conn \in [Panes -> 0..2] /\ ready \in [Panes -> BOOLEAN]
  /\ counting \in [Panes -> BOOLEAN] /\ fresh \in [Panes -> BOOLEAN]
  /\ anchor \in [Panes -> Position] /\ saved \in [Panes -> Position]
  /\ painted \in [Panes -> Run] /\ kept \in [Panes -> Run]
  /\ content \in [Panes -> BOOLEAN] /\ visible \in [Panes -> BOOLEAN] /\ box \in [Panes -> Boxes]
  /\ queued \in [Panes -> Seq([chunk : Step, counts : BOOLEAN])]
  /\ awake \in [Panes -> BOOLEAN] /\ heard \in [Panes -> {"nothing", "bytes", "synced"}]
  /\ missed \subseteq owed /\ muddled \subseteq Phones

(* "seq has to describe what the buffer HOLDS": the position a counting    *)
(* pane would dial with is the end of the run its screen shows, whatever   *)
(* reloads, preambles, re-anchors and catch-ups it went through.           *)
Describes(p) ==
  counting[p] =>
    /\ anchor[p].epoch = painted[p].epoch
    /\ anchor[p].seq = painted[p].start + Len(painted[p].bytes)
SeqDescribesBuffer == \A p \in Panes : Describes(p)

(* It is so for every pane that parsed what it had before it dialled or    *)
(* took a position: for the desktop's always.                              *)
CountersAgree == \A p \in Panes \ muddled : Describes(p)

(* A client that is attached, was not left behind on purpose and has read  *)
(* and parsed what it was sent shows everything the terminal wrote: no     *)
(* attach, resume, resize or reconnect leaves it short of the live output, *)
(* unless it is a phone that took a position before it had parsed what it  *)
(* had.                                                                    *)
NobodyFallsBehind ==
  \A c \in sockets :
    /\ Current(c) /\ hidden[c] # "diverged" /\ c[1] \notin muddled
    /\ inbox[c[1]] = <<>> /\ queued[c[1]] = <<>>
    => painted[c[1]].start + Len(painted[c[1]].bytes) = out

(* An exact catch-up replays only bytes the program laid out for the size  *)
(* the PTY has now (or that the daemon replayed), however often the size   *)
(* moved away and back, by clients that come, leave, hide or are dropped.  *)
ExactFits ==
  \A n \in 0..out : epoch # 0 /\ Exact([kind |-> "anchor", epoch |-> epoch, seq |-> n]) =>
     \A i \in (n + 1)..out : layout[i] \in {0, size}

(* A client that is gone or hidden constrains the size no more, and the    *)
(* PTY has the smallest box of those on screen, whichever way each of them *)
(* left.                                                                   *)
SmallestVisible ==
  /\ \A c \in Conns : dims[c] # 0 \/ hidden[c] # "no" => c \in sockets
  /\ EffectiveDims(dims, hidden) \in {0, size}

(* A client that was told to skip output has its program redraw: until it  *)
(* has, a nudge is armed or the size it toggled is about to be restored.   *)
(* Those that a resize to the very size of the nudge left without are the  *)
(* only ones that wait for the next redraw, whenever it comes.             *)
RepaintIsComing == owed \subseteq missed \/ nudge \/ restoring

(* The row a nudge takes from the PTY comes back: what the kernel holds is *)
(* the size the session believes in, or a restore is pending.              *)
NudgeIsUndone == epoch # 0 => kernel = size \/ restoring

(* What is shown is a run of the session's stream, without a gap or a      *)
(* repeat, that a pane gives up only when it has to (OutputStream); a      *)
(* phone that took a position too early has given up for good.             *)
Stream ==
  INSTANCE OutputStream WITH
    length <- out, resized <- lastResize + 1, Late <- Phones, lost <- muddled,
    known <- {p \in Panes \ muddled : anchor[p] # NoAnchor},
    screen <- [p \in Panes |-> IF p \in muddled THEN Blank ELSE painted[p]],
    snapshot <- kept
ImplementsStream == Stream!Spec
=============================================================================
