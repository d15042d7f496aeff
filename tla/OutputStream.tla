----------------------------- MODULE OutputStream -----------------------------
(***************************************************************************)
(* What the output path of a terminal promises to the panes that show it.  *)
(*                                                                         *)
(* A session is a stream of numbered bytes.  A screen holds a run of one   *)
(* stream: the bytes from `start` on, without a gap and without a repeat.  *)
(* It may leave that run for another position (Jump) only when it has to:  *)
(* it does not know where it is, it shows another session, what it missed  *)
(* is no longer retained, or was laid out for another size.  A pane that   *)
(* shows its output late may lose its way for good (Muddle): nothing is    *)
(* promised to it from then on.                                            *)
(***************************************************************************)
EXTENDS Naturals, Sequences

CONSTANTS
  Panes,
  Late        \* those that show what they receive later than they receive it

VARIABLES
  epoch,      \* the session whose output this is, 0 for none
  length,     \* bytes it has produced
  first,      \* the position from which they are retained
  resized,    \* the positions at which the size changed, as the last of them plus one
  known,      \* the panes that know their position
  screen,     \* what each pane shows
  snapshot,   \* what each pane has persisted
  lost        \* the panes that lost their way

stream == <<epoch, length, first, resized>>
vars == <<stream, known, screen, snapshot, lost>>
Blank == [epoch |-> 0, start |-> 0, bytes |-> <<>>]
End(s) == s.start + Len(s.bytes)

Init ==
  /\ epoch = 0 /\ length = 0 /\ first = 0 /\ resized = 0 /\ known = {} /\ lost = {}
  /\ screen = [p \in Panes |-> Blank] /\ snapshot = [p \in Panes |-> Blank]

(* A session begins, with what the daemon still holds of its output, or    *)
(* ends.                                                                   *)
Begin ==
  /\ epoch = 0 /\ epoch' # 0 /\ length' \in Nat /\ first' = 0 /\ resized' = 0
  /\ UNCHANGED <<known, screen, snapshot, lost>>
Finish ==
  /\ epoch' = 0 /\ length' = 0 /\ first' = 0 /\ resized' = 0
  /\ UNCHANGED <<known, screen, snapshot, lost>>

(* The program writes, and the oldest output goes; the size changes, by    *)
(* itself or because the write dropped a client.                           *)
Produce ==
  /\ epoch # 0 /\ epoch' = epoch /\ length' \in {length, length + 1}
  /\ first' \in first..length' /\ resized' \in {resized, length' + 1}
  /\ UNCHANGED <<known, screen, snapshot, lost>>

(* A pane shows the next bytes of the run it holds.                        *)
Follows(s, t) ==
  /\ t.epoch = s.epoch /\ t.start = s.start
  /\ SubSeq(t.bytes, 1, Len(s.bytes)) = s.bytes
  /\ \A i \in (Len(s.bytes) + 1)..Len(t.bytes) : t.bytes[i] = t.start + i
Show(p) ==
  /\ p \notin lost
  /\ \E t \in {screen'[p]} :
       /\ Follows(screen[p], t) /\ t.epoch # 0
       /\ t.epoch = epoch => End(t) <= length
       /\ screen' = [screen EXCEPT ![p] = t]
  /\ UNCHANGED <<stream, known, snapshot, lost>>

(* A pane gives up the run it holds and is told where the stream is.       *)
MustJump(p) ==
  \/ p \notin known
  \/ screen[p].epoch # epoch
  \/ End(screen[p]) < first
  \/ End(screen[p]) < resized
Jump(p) ==
  /\ p \notin lost /\ MustJump(p) /\ known' = known \cup {p}
  /\ \E t \in {screen'[p]} :
       /\ t.bytes = <<>> /\ t.epoch # 0
       /\ t.epoch = epoch => t.start <= length
       /\ screen' = [screen EXCEPT ![p] = t]
  /\ UNCHANGED <<stream, snapshot, lost>>

(* A pane loses track of its position, or persists what it shows, or is    *)
(* rebuilt from what it persisted.                                         *)
Lose(p) == known' = known \ {p} /\ UNCHANGED <<stream, screen, snapshot, lost>>
Keep(p) ==
  /\ snapshot' = [snapshot EXCEPT ![p] = screen[p]]
  /\ known' \in {known, known \ {p}}
  /\ UNCHANGED <<stream, screen, lost>>
Restore(p) ==
  /\ screen' = [screen EXCEPT ![p] = snapshot[p]]
  /\ known' \in {known \cup {p}, known \ {p}}
  /\ UNCHANGED <<stream, snapshot, lost>>

(* A late pane takes a position that is not the one it shows.              *)
Muddle(p) ==
  /\ p \in Late \ lost /\ lost' = lost \cup {p}
  /\ known' = known \ {p} /\ screen' = [screen EXCEPT ![p] = Blank]
  /\ UNCHANGED <<stream, snapshot>>

Next ==
  \/ Begin \/ Finish \/ Produce
  \/ \E p \in Panes : Show(p) \/ Jump(p) \/ Lose(p) \/ Keep(p) \/ Restore(p) \/ Muddle(p)

Spec == Init /\ [][Next]_vars
=============================================================================
