-------------------------- MODULE OutputStreamProofs --------------------------
(***************************************************************************)
(* The output path implements OutputStream: every step of the host or of a *)
(* pane is a step of the stream, or changes nothing the stream speaks of.  *)
(***************************************************************************)
EXTENDS TerminalOutputProofs

(* What the stream is told of the panes: nothing of one that lost its way. *)
Known == {p \in Panes \ muddled : anchor[p] # NoAnchor}
Shown == [p \in Panes |-> IF p \in muddled THEN Blank ELSE painted[p]]

LEMMA Stutters ==
  ASSUME UNCHANGED <<epoch, out, first, lastResize, Known, Shown, kept, muddled>>
  PROVE  [Stream!Next]_(Stream!vars)
  BY DEF Stream!vars, Stream!stream, Known, Shown

LEMMA SameScreens ==
  ASSUME UNCHANGED <<anchor, painted, muddled>>
  PROVE  UNCHANGED <<Known, Shown>>
  BY DEF Known, Shown

(* One pane moves.                                                         *)
LEMMA KnownAt ==
  ASSUME NEW p \in Panes \ muddled, muddled' = muddled,
         \A r \in Panes : r # p => anchor'[r] = anchor[r]
  PROVE  Known' = IF anchor'[p] = NoAnchor THEN Known \ {p} ELSE Known \cup {p}
<1>1. CASE anchor'[p] = NoAnchor
  BY <1>1 DEF Known
<1>2. CASE anchor'[p] # NoAnchor
  BY <1>2 DEF Known
<1> QED
  BY <1>1, <1>2

LEMMA ShownAt ==
  ASSUME NEW p \in Panes \ muddled, muddled' = muddled, painted \in [Panes -> Run], NEW t,
         painted' = [painted EXCEPT ![p] = t]
  PROVE  Shown' = [Shown EXCEPT ![p] = t] /\ Shown[p] = painted[p] /\ Shown'[p] = t
<1>1. painted'[p] = t /\ \A r \in Panes : r # p => painted'[r] = painted[r]
  OBVIOUS
<1>2. \A r \in Panes : Shown'[r] = IF r \in muddled THEN Blank ELSE painted'[r]
  BY DEF Shown
<1>3. \A r \in Panes : Shown[r] = IF r \in muddled THEN Blank ELSE painted[r]
  BY DEF Shown
<1>4. [Shown EXCEPT ![p] = t] = [r \in Panes |-> IF r = p THEN t ELSE Shown[r]]
  BY DEF Shown
<1>5. Shown' = [r \in Panes |-> IF r \in muddled THEN Blank ELSE painted'[r]]
  BY DEF Shown
<1>6. \A r \in Panes : (IF r \in muddled THEN Blank ELSE painted'[r])
                      = (IF r = p THEN t ELSE Shown[r])
  BY <1>1, <1>3
<1>7. Shown' = [Shown EXCEPT ![p] = t]
  BY <1>4, <1>5, <1>6
<1> QED
  BY <1>1, <1>2, <1>3, <1>7

LEMMA StreamStarts == Init => Stream!Init
<1> SUFFICES ASSUME Init
             PROVE  Stream!Init
  OBVIOUS
<1>1. /\ epoch = 0 /\ out = 0 /\ first = 0 /\ lastResize = -1 /\ muddled = {}
      /\ anchor = [p \in Panes |-> NoAnchor]
      /\ painted = [p \in Panes |-> Blank] /\ kept = [p \in Panes |-> Blank]
  BY DEF Init
<1>2. Known = {} /\ Shown = [p \in Panes |-> Blank]
  BY <1>1 DEF Known, Shown
<1>3. lastResize + 1 = 0
  BY <1>1
<1> QED
  BY <1>1, <1>2, <1>3 DEF Stream!Init, Stream!Blank, Blank, Known, Shown

-----------------------------------------------------------------------------
(* The host.                                                               *)

LEMMA SessionRefines ==
  ASSUME IInv, Adopt \/ DaemonDisconnect
  PROVE  [Stream!Next]_(Stream!vars)
<1>1. UNCHANGED <<Known, Shown, kept, muddled>>
  BY SameScreens DEF Adopt, DaemonDisconnect, pane, screen
<1>2. first' = 0 /\ lastResize' + 1 = 0
  BY DEF Adopt, DaemonDisconnect
<1>3. CASE Adopt
  <2>1. epoch = 0 /\ epoch' # 0 /\ out' \in Nat
    BY <1>3 DEF Adopt, IInv, Typed, HostTyped
  <2> QED
    BY <1>1, <1>2, <2>1 DEF Stream!Next, Stream!Begin, Known, Shown
<1>4. CASE DaemonDisconnect
  <2>1. epoch' = 0 /\ out' = 0
    BY <1>4 DEF DaemonDisconnect
  <2> QED
    BY <1>1, <1>2, <2>1 DEF Stream!Next, Stream!Finish, Known, Shown
<1> QED
  BY <1>3, <1>4

(* The size may change, and with it only the position of the last resize.  *)
LEMMA ResizeRefines ==
  ASSUME IInv, UNCHANGED <<stream, pane>>, lastResize' \in {lastResize, out'},
         epoch = 0 => lastResize' = lastResize
  PROVE  [Stream!Next]_(Stream!vars)
<1>1. UNCHANGED <<epoch, out, first, Known, Shown, kept, muddled>>
  BY SameScreens DEF stream, pane, screen
<1>2. CASE epoch = 0
  BY <1>1, <1>2, Stutters
<1>3. CASE epoch # 0
  <2>1. out \in Nat /\ first \in 0..out /\ lastResize \in -1..out
    BY DEF IInv, Typed, HostTyped
  <2>2. first' \in first..out'
    <3>1. first' = first /\ out' = out
      BY <1>1
    <3> QED
      BY <2>1, <3>1
  <2>3. lastResize' + 1 \in {lastResize + 1, out' + 1}
    <3>1. CASE lastResize' = lastResize
      BY <3>1
    <3>2. CASE lastResize' = out'
      BY <3>2
    <3> QED
      BY <3>1, <3>2
  <2> QED
    BY <1>1, <1>3, <2>2, <2>3 DEF Stream!Next, Stream!Produce, Known, Shown
<1> QED
  BY <1>2, <1>3

LEMMA ApplyMoves ==
  ASSUME NEW next, NEW d, NEW h, NEW force, Apply(next, d, h, force)
  PROVE  lastResize' \in {lastResize, out'} /\ (next = 0 => lastResize' = lastResize)
<1>1. CASE next \notin {0, size}
  BY <1>1 DEF Apply
<1>2. CASE next \in {0, size}
  BY <1>2 DEF Apply
<1> QED
  BY <1>1, <1>2

LEMMA DetachMoves ==
  ASSUME IInv, NEW gone \in SUBSET Conns, Detach(gone)
  PROVE  lastResize' \in {lastResize, out'} /\ (epoch = 0 => lastResize' = lastResize)
<1> DEFINE d == [c \in Conns |-> IF c \in gone THEN 0 ELSE dims[c]]
           h == [c \in Conns |-> IF c \in gone THEN "no" ELSE hidden[c]]
           held == {c \in gone : dims[c] # 0 /\ hidden[c] = "no"}
           left == EffectiveDims(d, h)
           last == IF held = {} THEN {0}
                   ELSE IF left = 0 /\ Cardinality(held) > 1 THEN {dims[c] : c \in held}
                   ELSE {left}
<1>1. PICK next \in last : Apply(next, d, h, FALSE)
  BY DEF Detach
<1>2. lastResize' \in {lastResize, out'} /\ (next = 0 => lastResize' = lastResize)
  BY <1>1, ApplyMoves
<1>3. epoch = 0 => held = {}
  BY DEF IInv, HostInv, SmallestVisible
<1> QED
  BY <1>1, <1>2, <1>3

LEMMA HandlersRefine ==
  ASSUME IInv, NEW c \in Conns,
         (HandleHide(c) \/ HandleShow(c)) \/ (HandleResize(c) \/ SweepDrop(c)) \/ CloseEvent(c)
  PROVE  [Stream!Next]_(Stream!vars)
<1>1. UNCHANGED <<stream, pane>>
  BY DEF HandleHide, HandleShow, HandleResize, SweepDrop, CloseEvent
<1>2. CASE (HandleHide(c) \/ HandleShow(c)) \/ HandleResize(c)
  <2>1. epoch # 0
    BY <1>2 DEF HandleHide, HandleShow, HandleResize
  <2>2. lastResize' \in {lastResize, out'}
    BY <1>2, ApplyMoves DEF HandleHide, HandleShow, HandleResize
  <2> QED
    BY <1>1, <2>1, <2>2, ResizeRefines
<1>3. CASE SweepDrop(c) \/ CloseEvent(c)
  <2>1. Detach({c})
    BY <1>3 DEF SweepDrop, CloseEvent
  <2> QED
    BY <1>1, <2>1, DetachMoves, ResizeRefines
<1> QED
  BY <1>2, <1>3

LEMMA OutputRefines ==
  ASSUME IInv, Output
  PROVE  [Stream!Next]_(Stream!vars)
<1>1. /\ epoch # 0 /\ out' = out + 1 /\ first' = Max({first, out' - RingCap})
      /\ UNCHANGED <<epoch, Known, Shown, kept, muddled>>
  BY SameScreens DEF Output, pane, screen
<1>2. /\ out \in Nat /\ first \in 0..out /\ RingCap \in Nat \ {0}
  BY OutputAssumption DEF IInv, Typed, HostTyped
<1>3. first' \in first..out'
  <2>1. first' = IF first >= out' - RingCap THEN first ELSE out' - RingCap
    BY <1>1, <1>2, MaxOfTwo
  <2> QED
    BY <1>1, <1>2, <2>1
<1>4. lastResize' \in {lastResize, out'}
  <2>1. \E gone \in SUBSET Conns : Detach(gone)
    <3>1. sockets \subseteq Conns
      BY DEF IInv, Typed, HostTyped
    <3> QED
      BY <3>1 DEF Output
  <2> QED
    BY <2>1, DetachMoves
<1>5. lastResize' + 1 \in {lastResize + 1, out' + 1}
  <2>1. CASE lastResize' = lastResize
    BY <2>1
  <2>2. CASE lastResize' = out'
    BY <2>2
  <2> QED
    BY <1>4, <2>1, <2>2
<1> QED
  BY <1>1, <1>3, <1>5 DEF Stream!Next, Stream!Produce, Known, Shown

LEMMA HostRefines ==
  ASSUME IInv, HostNext
  PROVE  [Stream!Next]_(Stream!vars)
<1>1. CASE NudgeFires \/ Restore
  BY <1>1, SameScreens, Stutters DEF NudgeFires, Restore, stream, pane, screen
<1>2. ASSUME NEW c \in Conns, (Attach(c) \/ Ignore(c)) \/ PeerCloses(c)
      PROVE  [Stream!Next]_(Stream!vars)
  BY <1>2, SameScreens, Stutters DEF Attach, Ignore, PeerCloses, stream, pty, pane, screen
<1>3. ASSUME NEW c \in Conns,
             \/ Attach(c) \/ Ignore(c) \/ HandleHide(c) \/ HandleShow(c) \/ HandleResize(c)
             \/ SweepDrop(c) \/ PeerCloses(c) \/ CloseEvent(c)
      PROVE  [Stream!Next]_(Stream!vars)
  BY <1>2, <1>3, HandlersRefine
<1> QED
  BY <1>1, <1>3, SessionRefines, OutputRefines DEF HostNext

-----------------------------------------------------------------------------
(* The panes.                                                              *)

LEMMA GrowsBy ==
  ASSUME NEW s \in Seq(Nat), NEW more \in Seq(Nat)
  PROVE  /\ Len(s \o more) = Len(s) + Len(more)
         /\ SubSeq(s \o more, 1, Len(s)) = s
         /\ \A i \in (Len(s) + 1)..Len(s \o more) : (s \o more)[i] = more[i - Len(s)]
<1>1. /\ s \o more \in Seq(Nat) /\ Len(s \o more) = Len(s) + Len(more)
      /\ \A i \in 1..(Len(s) + Len(more)) :
           (s \o more)[i] = IF i <= Len(s) THEN s[i] ELSE more[i - Len(s)]
  BY ConcatFacts
<1>2. Len(s) \in Nat /\ Len(more) \in Nat
  OBVIOUS
<1>3. SubSeq(s \o more, 1, Len(s)) = s
  <2>1. \A i \in 1..Len(s) : (s \o more)[i] = s[i] /\ (s \o more)[i] \in Nat
    BY <1>1, <1>2
  <2>2. /\ SubSeq(s \o more, 1, Len(s)) \in Seq(Nat)
        /\ Len(SubSeq(s \o more, 1, Len(s))) = Len(s)
        /\ \A i \in 1..Len(s) : SubSeq(s \o more, 1, Len(s))[i] = (s \o more)[i]
    BY <1>1, <1>2
  <2> QED
    BY <2>1, <2>2, SeqEqual
<1> QED
  BY <1>1, <1>2, <1>3

LEMMA NumbersGoOn ==
  ASSUME NEW more, NEW b \in Nat, NEW k \in Nat, NEW n \in Nat, NEW f \in Nat, f = b + k,
         more = [i \in 1..n |-> f + i]
  PROVE  \A i \in (k + 1)..(k + n) : more[i - k] = b + i
<1>1. ASSUME NEW i \in (k + 1)..(k + n)
      PROVE  more[i - k] = b + i
  <2>1. i - k \in 1..n /\ f + (i - k) = b + i
    OBVIOUS
  <2> QED
    BY <2>1
<1> QED
  BY <1>1

LEMMA NumberSeq ==
  ASSUME NEW n \in Nat, NEW f \in Nat
  PROVE  [i \in 1..n |-> f + i] \in Seq(Nat) /\ Len([i \in 1..n |-> f + i]) = n
  OBVIOUS

LEMMA RunFollows ==
  ASSUME NEW old \in Run, NEW new, NEW f \in Nat, NEW n \in Nat, f = EndOf(old),
         new.epoch = old.epoch, new.start = old.start,
         new.bytes = old.bytes \o [i \in 1..n |-> f + i]
  PROVE  Stream!Follows(old, new)
<1>1. PICK s \in Seq(Nat), b \in Nat, k \in Nat : s = old.bytes /\ b = old.start /\ k = Len(s)
  BY DEF Run
<1>2. PICK more \in Seq(Nat) : more = [i \in 1..n |-> f + i] /\ Len(more) = n
  BY NumberSeq
<1>3. f = b + k /\ new.start = b /\ new.bytes = s \o more
  BY <1>1, <1>2 DEF EndOf
<1>4. \A i \in (k + 1)..(k + n) : more[i - k] = b + i
  BY <1>2, <1>3, NumbersGoOn
<1>5. /\ Len(s \o more) = k + n /\ SubSeq(s \o more, 1, k) = s
      /\ \A i \in (k + 1)..(k + n) : (s \o more)[i] = more[i - k]
  BY <1>1, <1>2, GrowsBy
<1>6. \A i \in (k + 1)..(k + n) : (s \o more)[i] = b + i
  BY <1>4, <1>5
<1> QED
  BY <1>1, <1>3, <1>5, <1>6 DEF Stream!Follows

LEMMA ShowsMore ==
  ASSUME IInv, NEW p \in Panes \ muddled, NEW m \in Frame, painted' = Onto(p, m),
         anchor' = Counted(p, m.upto - m.from, TRUE),
         m.from = EndOf(painted[p]), m.epoch = painted[p].epoch, m.epoch # 0,
         Within(m.epoch, m.upto), anchor[p].epoch # 0,
         UNCHANGED <<epoch, out, first, lastResize, kept, muddled>>
  PROVE  [Stream!Next]_(Stream!vars)
<1>1. Typed /\ m.from \in Nat /\ m.upto \in Nat /\ m.upto - m.from \in Nat
  BY FrameFacts DEF IInv
<1>2. /\ painted \in [Panes -> Run] /\ painted[p] \in Run
  BY <1>1 DEF Typed, PaneTyped
<1>3. /\ painted' \in [Panes -> Run] /\ painted'[p].epoch = painted[p].epoch
      /\ painted'[p].start = painted[p].start
      /\ painted'[p].bytes = painted[p].bytes \o [i \in 1..(m.upto - m.from) |-> m.from + i]
      /\ EndOf(painted'[p]) = EndOf(painted[p]) + (m.upto - m.from)
      /\ \A r \in Panes : r # p => painted'[r] = painted[r]
  BY <1>1, OntoFacts
<1>4. Known' = Known
  <2>1. /\ anchor'[p] = [epoch |-> anchor[p].epoch, seq |-> anchor[p].seq + (m.upto - m.from)]
        /\ \A r \in Panes : r # p => anchor'[r] = anchor[r]
    BY <1>1, CountedFacts
  <2>2. anchor'[p] # NoAnchor /\ anchor[p] # NoAnchor
    <3>1. anchor'[p].epoch = anchor[p].epoch
      <4>1. PICK a, n : a = anchor'[p] /\ n = anchor[p].seq + (m.upto - m.from)
        OBVIOUS
      <4>2. a = [epoch |-> anchor[p].epoch, seq |-> n]
        BY <2>1, <4>1
      <4>3. a.epoch = anchor[p].epoch
        BY <4>2
      <4> QED
        BY <4>1, <4>3
    <3>2. NoAnchor.epoch = 0
      BY DEF NoAnchor
    <3>3. anchor'[p] # NoAnchor
      BY <3>1, <3>2
    <3>4. anchor[p] # NoAnchor
      BY <3>2
    <3> QED
      BY <3>3, <3>4
  <2> QED
    BY <2>1, <2>2 DEF Known
<1>5. Stream!Follows(painted[p], painted'[p])
  BY <1>1, <1>2, <1>3, RunFollows
<1>6. painted'[p].epoch = epoch => Stream!End(painted'[p]) <= out
  <2>1. EndOf(painted'[p]) = m.upto
    BY <1>1, <1>3
  <2> QED
    BY <1>3, <2>1 DEF Stream!End, EndOf, Within
<1>7. /\ Shown' = [Shown EXCEPT ![p] = painted'[p]]
      /\ Shown[p] = painted[p] /\ Shown'[p] = painted'[p]
  <2>1. painted' = [painted EXCEPT ![p] = painted'[p]]
    BY <1>2, <1>3
  <2> QED
    BY <1>2, <2>1, ShownAt
<1>8. Stream!Show(p)
  <2>1. UNCHANGED Stream!stream
    BY DEF Stream!stream
  <2>2. painted'[p].epoch # 0
    BY <1>3
  <2> QED
    BY <1>4, <1>5, <1>6, <1>7, <2>1, <2>2 DEF Stream!Show, Known, Shown
<1> QED
  BY <1>8 DEF Stream!Next

LEMMA BytesRefine ==
  ASSUME IInv, NEW p \in Panes \ muddled, ReadBytes(p)
  PROVE  [Stream!Next]_(Stream!vars)
<1> DEFINE m == Head(inbox[p])
<1>1. Typed /\ PaneInv(p)
  BY DEF IInv
<1>2. Reads(p, "bytes") /\ "bytes" \in Ahead \cup Numbered
  BY DEF ReadBytes, Numbered
<1>3. m.type = "bytes" /\ m \in Frame /\ OrderlyAt(p, 1) /\ inbox[p][1] = m
  BY <1>2, ReadFacts, NumberedFacts
<1>4. counting[p] = TRUE /\ m.epoch = painted[p].epoch /\ m.from = Tip(p) /\ Within(m.epoch, m.upto)
  BY <1>1, <1>3, PaneTypes DEF OrderlyAt, Follow
<1>5. UNCHANGED <<epoch, out, first, lastResize, kept, muddled>>
  BY DEF ReadBytes, stream, pty
<1>6. CASE p \in Phones
  <2>1. UNCHANGED <<anchor, painted>>
    BY <1>6 DEF ReadBytes
  <2> QED
    BY <1>5, <2>1, SameScreens, Stutters
<1>7. CASE p \notin Phones
  <2>1. anchor' = Counted(p, m.upto - m.from, TRUE) /\ painted' = Onto(p, m)
    BY <1>4, <1>7 DEF ReadBytes, Arrived
  <2>2. queued[p] = <<>> /\ anchor[p].epoch # 0
    BY <1>1, <1>4, <1>7 DEF PaneInv, Screen, Marks
  <2>3. m.from = EndOf(painted[p]) /\ m.epoch # 0
    BY <1>3, <1>4, <2>2, FrameFacts DEF Tip, Numbered
  <2> HIDE DEF m
  <2> QED
    BY <1>3, <1>4, <1>5, <2>1, <2>2, <2>3, ShowsMore
<1> QED
  BY <1>6, <1>7

LEMMA PaintRefines ==
  ASSUME IInv, NEW p \in Panes \ muddled, Paint(p)
  PROVE  [Stream!Next]_(Stream!vars)
<1> DEFINE m == Head(queued[p]).chunk
<1>1. Typed /\ PaneInv(p)
  BY DEF IInv
<1>2. queued[p] # <<>> /\ queued[p] \in Seq(Chunk)
  BY <1>1 DEF Paint, Typed, PaneTyped
<1>3. /\ Head(queued[p]) = queued[p][1] /\ Head(queued[p]) \in Chunk
      /\ 1 \in 1..Len(queued[p])
  BY <1>2, TailFacts
<1>4. m \in Frame /\ m.type = "bytes" /\ Head(queued[p]).counts = TRUE
  BY <1>1, <1>3 DEF Chunk, PaneInv, Queue
<1>5. /\ anchor' = Counted(p, m.upto - m.from, TRUE) /\ painted' = Onto(p, m)
  BY <1>4 DEF Paint
<1>6. m.epoch = painted[p].epoch /\ Within(m.epoch, m.upto) /\ m.from = EndOf(painted[p])
  BY <1>1, <1>3 DEF PaneInv, Queue
<1>7. anchor[p].epoch # 0 /\ m.epoch # 0
  BY <1>1, <1>2, <1>4, FrameFacts DEF PaneInv, Screen, Marks, Numbered
<1>8. UNCHANGED <<epoch, out, first, lastResize, kept, muddled>>
  BY DEF Paint, stream, pty
<1> HIDE DEF m
<1> QED
  BY <1>4, <1>5, <1>6, <1>7, <1>8, ShowsMore

LEMMA SyncedRefines ==
  ASSUME IInv, NEW p \in Panes \ muddled, ReadSynced(p), queued[p] = <<>>
  PROVE  [Stream!Next]_(Stream!vars)
<1> DEFINE m == Head(inbox[p])
           restart == [epoch |-> m.epoch, start |-> m.from, bytes |-> <<>>]
<1>1. Typed /\ PaneInv(p)
  BY DEF IInv
<1>2. Reads(p, "synced") /\ "synced" \in Ahead \cup Numbered
  BY DEF ReadSynced, Numbered
<1>3. m.type = "synced" /\ m \in Frame /\ OrderlyAt(p, 1) /\ inbox[p][1] = m
  BY <1>2, ReadFacts, NumberedFacts DEF Numbered
<1>4. /\ anchor' = [anchor EXCEPT ![p] = [epoch |-> m.epoch, seq |-> m.from]]
      /\ painted' = IF m.mode = "exact" THEN painted ELSE [painted EXCEPT ![p] = restart]
      /\ UNCHANGED <<epoch, out, first, lastResize, kept, muddled>>
  BY DEF ReadSynced, Positions, Arrived, stream, pty
<1>5. /\ m.epoch # 0 /\ m.from = m.upto
  BY <1>3, FrameFacts DEF Numbered
<1>6. anchor \in [Panes -> Position] /\ painted \in [Panes -> Run]
  BY <1>1 DEF Typed, PaneTyped
<1> HIDE DEF m
<1>7. CASE m.mode = "exact"
  <2>1. anchor[p] = [epoch |-> m.epoch, seq |-> m.from]
    BY <1>3, <1>7 DEF OrderlyAt, Resume
  <2>2. UNCHANGED <<anchor, painted>>
    BY <1>4, <1>6, <1>7, <2>1
  <2> QED
    BY <1>4, <2>2, SameScreens, Stutters
<1>8. CASE m.mode # "exact"
  <2>1. painted' = [painted EXCEPT ![p] = restart]
    BY <1>4, <1>8
  <2>2. anchor[p] = NoAnchor \/ Gone(painted[p].epoch, EndOf(painted[p]))
    BY <1>3, <1>8 DEF OrderlyAt, Moved, Tip
  <2>3. Known' = Known \cup {p}
    <3>1. /\ anchor'[p] = [epoch |-> m.epoch, seq |-> m.from]
          /\ \A r \in Panes : r # p => anchor'[r] = anchor[r]
      BY <1>4, <1>6
    <3>2. anchor'[p] # NoAnchor
      BY <1>5, <3>1 DEF NoAnchor
    <3> QED
      BY <1>4, <3>1, <3>2, KnownAt
  <2>4. restart.bytes = <<>> /\ restart.epoch = m.epoch /\ restart.start = m.from
    OBVIOUS
  <2>5. m.epoch = epoch => m.from <= out
    BY <1>3, <1>5 DEF OrderlyAt, Within
  <2> HIDE DEF restart
  <2>6. Shown' = [Shown EXCEPT ![p] = restart] /\ Shown[p] = painted[p] /\ Shown'[p] = restart
    BY <1>4, <1>6, <2>1, ShownAt
  <2>7. Stream!MustJump(p)
    <3>1. CASE anchor[p] = NoAnchor
      BY <3>1 DEF Stream!MustJump
    <3>2. CASE Gone(painted[p].epoch, EndOf(painted[p]))
      <4>1. PICK l \in Int, e \in Nat : l = lastResize /\ e = EndOf(painted[p])
        BY <1>1, <1>6 DEF Typed, HostTyped, Run, EndOf
      <4>2. e <= l => e < l + 1
        OBVIOUS
      <4>3. Shown[p].epoch # epoch \/ EndOf(Shown[p]) < first \/ EndOf(Shown[p]) < lastResize + 1
        BY <2>6, <3>2, <4>1, <4>2 DEF Gone
      <4> QED
        BY <4>3 DEF Stream!MustJump, Stream!End, EndOf, Shown
    <3> QED
      BY <2>2, <3>1, <3>2
  <2>8. Stream!Jump(p)
    <3>1. UNCHANGED Stream!stream
      BY <1>4 DEF Stream!stream
    <3>2. /\ Shown'[p].bytes = <<>> /\ Shown'[p].epoch # 0
          /\ Shown'[p].epoch = epoch => Shown'[p].start <= out
      BY <1>5, <2>4, <2>5, <2>6
    <3>3. Shown' = [Shown EXCEPT ![p] = Shown'[p]]
      BY <2>6
    <3> QED
      BY <1>4, <2>3, <2>7, <3>1, <3>2, <3>3 DEF Stream!Jump, Known, Shown
  <2> QED
    BY <2>8 DEF Stream!Next
<1> QED
  BY <1>7, <1>8

(* Steps after which a pane shows what it showed, or its snapshot.         *)
LEMMA LeavingRefines ==
  ASSUME IInv, NEW p \in Panes \ muddled, (Lose(p) \/ Park(p)) \/ Reload(p)
  PROVE  [Stream!Next]_(Stream!vars)
<1>1. UNCHANGED <<epoch, out, first, lastResize, muddled>> /\ UNCHANGED Stream!stream
  BY DEF Lose, Park, Reload, stream, pty, Stream!stream
<1>2. /\ anchor \in [Panes -> Position] /\ painted \in [Panes -> Run]
      /\ saved \in [Panes -> Position] /\ kept \in [Panes -> Run]
  BY DEF IInv, Typed, PaneTyped
<1>3. Shown[p] = painted[p]
  BY DEF Shown
<1>4. ASSUME anchor'[p] \in {anchor[p], NoAnchor}, \A r \in Panes : r # p => anchor'[r] = anchor[r]
      PROVE  Known' \in {Known, Known \ {p}}
  <2>1. anchor[p] # NoAnchor => Known \cup {p} = Known
    BY DEF Known
  <2> QED
    BY <1>1, <1>4, <2>1, KnownAt
<1>5. ASSUME Known' \in {Known, Known \ {p}}, painted' = painted,
             kept' = [kept EXCEPT ![p] = painted[p]]
      PROVE  [Stream!Next]_(Stream!vars)
  <2>1. Shown' = Shown
    BY <1>1, <1>5 DEF Shown
  <2>2. kept' = [kept EXCEPT ![p] = Shown[p]]
    BY <1>3, <1>5
  <2> QED
    BY <1>1, <1>5, <2>1, <2>2 DEF Stream!Keep, Stream!Next, Known, Shown
<1>6. CASE Lose(p)
  <2>1. Known' \in {Known, Known \ {p}}
    BY <1>4, <1>6, AnchorOrNot DEF Lose
  <2>2. Shown' = Shown /\ kept' = kept
    BY <1>1, <1>6 DEF Lose, Shown
  <2>3. CASE Known' = Known
    BY <1>1, <2>2, <2>3, Stutters
  <2>4. CASE Known' = Known \ {p}
    BY <1>1, <2>2, <2>4 DEF Stream!Lose, Stream!Next, Known, Shown
  <2> QED
    BY <2>1, <2>3, <2>4
<1>7. CASE Park(p)
  <2>1. painted' = painted /\ kept' = [kept EXCEPT ![p] = painted[p]]
    BY <1>7 DEF Park
  <2>2. \/ anchor' = anchor
        \/ anchor' = IF Poisoned(p) THEN [anchor EXCEPT ![p] = NoAnchor] ELSE anchor
    BY <1>7 DEF Park
  <2>3. Known' \in {Known, Known \ {p}}
    BY <1>4, <2>2, AnchorOrNot
  <2> QED
    BY <1>5, <2>1, <2>3
<1>8. CASE Reload(p)
  <2>1. anchor' = [anchor EXCEPT ![p] = saved'[p]] /\ painted' = [painted EXCEPT ![p] = kept'[p]]
    BY <1>8 DEF Reload
  <2>2. \A r \in Panes : r # p => anchor'[r] = anchor[r]
    BY <1>2, <2>1
  <2>3. CASE UNCHANGED <<saved, kept>>
    <3>1. Known' \in {Known \cup {p}, Known \ {p}}
      BY <1>1, <2>2, KnownAt
    <3>2. Shown' = [Shown EXCEPT ![p] = kept[p]]
      BY <1>1, <1>2, <2>1, <2>3, ShownAt
    <3> QED
      BY <1>1, <2>3, <3>1, <3>2 DEF Stream!Restore, Stream!Next, Known, Shown
  <2>4. ASSUME NEW a \in {anchor[p], NoAnchor}, saved' = [saved EXCEPT ![p] = a],
               kept' = [kept EXCEPT ![p] = painted[p]]
        PROVE  [Stream!Next]_(Stream!vars)
    <3>1. anchor'[p] = a
      BY <1>2, <2>1, <2>4
    <3>2. painted' = painted
      BY <1>2, <2>1, <2>4
    <3> QED
      BY <1>4, <1>5, <2>2, <2>4, <3>1, <3>2
  <2> QED
    BY <1>8, <2>3, <2>4 DEF Reload, Persistable
<1> QED
  BY <1>6, <1>7, <1>8

(* A phone that dials, or takes a position, with chunks left to parse.     *)
LEMMA MuddleRefines ==
  ASSUME IInv, NEW p \in Panes \ muddled, Dial(p) \/ ReadSynced(p), queued[p] # <<>>
  PROVE  [Stream!Next]_(Stream!vars)
<1>1. p \in Phones
  BY DEF IInv, PaneInv, Screen
<1>2. UNCHANGED <<epoch, out, first, lastResize, kept>> /\ muddled' = muddled \cup {p}
  BY DEF Dial, ReadSynced, Positions, stream, pty
<1>3. \A r \in Panes : r # p => anchor'[r] = anchor[r] /\ painted'[r] = painted[r]
  BY DEF Dial, ReadSynced, screen, IInv, Typed, PaneTyped
<1>4. Known' = Known \ {p}
  BY <1>2, <1>3 DEF Known
<1>5. Shown' = [Shown EXCEPT ![p] = Blank]
  BY <1>2, <1>3 DEF Shown
<1>6. Stream!Blank = Blank /\ UNCHANGED Stream!stream
  BY <1>2 DEF Stream!Blank, Blank, Stream!stream
<1> QED
  BY <1>1, <1>2, <1>4, <1>5, <1>6 DEF Stream!Muddle, Stream!Next, Known, Shown

(* Nothing is said of what it does from then on.                           *)
LEMMA MuddledStutters ==
  ASSUME IInv, NEW p \in muddled, PaneNext(p)
  PROVE  [Stream!Next]_(Stream!vars)
<1>1. p \in Phones /\ p \in Panes
  BY OutputAssumption DEF IInv, Typed, PaneTyped
<1>2. ~Park(p) /\ ~Reload(p) /\ ~Unpark(p) /\ ~Poisoned(p)
  BY <1>1 DEF Park, Reload, Unpark, Poisoned
<1>3. muddled \cup {p} = muddled
  OBVIOUS
<1>4. UNCHANGED <<epoch, out, first, lastResize, kept, muddled>>
  <2>1. CASE (Dial(p) \/ ReadAttached(p)) \/ (ReadPreamble(p) \/ ReadSynced(p))
    BY <1>3, <2>1 DEF Dial, ReadAttached, ReadPreamble, ReadSynced, Positions, stream, pty
  <2>2. CASE (ReadBytes(p) \/ Paint(p)) \/ (Lose(p) \/ Toggle(p)) \/ Fit(p)
    BY <2>2 DEF ReadBytes, Paint, Lose, Toggle, Fit, stream, pty
  <2> QED
    BY <1>2, <2>1, <2>2 DEF PaneNext
<1>5. \A r \in Panes : r # p => anchor'[r] = anchor[r] /\ painted'[r] = painted[r]
  <2>1. anchor \in [Panes -> Position] /\ painted \in [Panes -> Run]
    BY DEF IInv, Typed, PaneTyped
  <2>2. CASE (Dial(p) \/ ReadAttached(p)) \/ (ReadPreamble(p) \/ ReadSynced(p))
    BY <2>1, <2>2 DEF Dial, ReadAttached, ReadPreamble, ReadSynced, screen
  <2>3. CASE ReadBytes(p) \/ (Toggle(p) \/ Fit(p))
    BY <1>1, <2>3 DEF ReadBytes, Toggle, Fit, screen
  <2>4. CASE Paint(p)
    BY <2>1, <2>4 DEF Paint, Counted, Onto
  <2>5. CASE Lose(p)
    BY <1>2, <2>5 DEF Lose
  <2> QED
    BY <1>2, <2>2, <2>3, <2>4, <2>5 DEF PaneNext
<1>6. UNCHANGED <<Known, Shown>>
  BY <1>4, <1>5 DEF Known, Shown
<1> QED
  BY <1>4, <1>6, Stutters

LEMMA PaneRefines ==
  ASSUME IInv, NEW p \in Panes \ muddled, PaneNext(p)
  PROVE  [Stream!Next]_(Stream!vars)
<1>1. CASE (ReadAttached(p) \/ ReadPreamble(p)) \/ Unpark(p) \/ (Toggle(p) \/ Fit(p))
  <2>1. UNCHANGED <<stream, pty, anchor, painted, kept, muddled>>
    BY <1>1 DEF ReadAttached, ReadPreamble, Unpark, Toggle, Fit, screen
  <2> QED
    BY <2>1, SameScreens, Stutters DEF stream, pty
<1>2. CASE Dial(p) /\ queued[p] = <<>>
  <2>1. UNCHANGED <<stream, pty, anchor, painted, kept, muddled>>
    BY <1>2 DEF Dial, Positions, screen
  <2> QED
    BY <2>1, SameScreens, Stutters DEF stream, pty
<1> QED
  BY <1>1, <1>2, MuddleRefines, SyncedRefines, BytesRefine, PaintRefines, LeavingRefines
  DEF PaneNext

(* What the panes show is, at any time, a run of a session's stream        *)
(* without a gap or a repeat; a pane leaves its run for another position   *)
(* only when it does not know where it is, shows another session, or       *)
(* missed what is retained no more or was laid out for another size.  Only *)
(* a phone, and only by dialling or taking a position with chunks left to  *)
(* parse, loses its way (Muddle); a desktop pane never does.               *)
THEOREM OutputImplementsStream == Spec => ImplementsStream
<1>1. IInv /\ [Next]_vars => [Stream!Next]_(Stream!vars)
  <2> SUFFICES ASSUME IInv, [Next]_vars
               PROVE  [Stream!Next]_(Stream!vars)
    OBVIOUS
  <2>1. CASE UNCHANGED vars
    BY <2>1, SameScreens, Stutters DEF vars, stream, pty, pane, screen
  <2>2. CASE HostNext
    BY <2>2, HostRefines
  <2>3. ASSUME NEW p \in Panes, PaneNext(p)
        PROVE  [Stream!Next]_(Stream!vars)
    BY <2>3, PaneRefines, MuddledStutters
  <2> QED
    BY <2>1, <2>2, <2>3 DEF Next
<1> QED
  BY <1>1, StreamStarts, Invariance, PTL DEF Spec, ImplementsStream, Stream!Spec
=============================================================================
