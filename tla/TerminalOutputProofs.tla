------------------------- MODULE TerminalOutputProofs -------------------------
(***************************************************************************)
(* What a pane shows is a run of its session's stream, for any set of      *)
(* panes, any sizes and ring, and any budget.  Nothing is said of what a   *)
(* phone shows once it has dialled, or taken a position, with chunks it    *)
(* had yet to parse (`muddled`): its page counts these on top of it.       *)
(*                                                                         *)
(* The invariant follows a byte from the host to the screen.  Each message *)
(* under way fits onto the one before it, and the first onto what the pane *)
(* holds (Orderly); what the host believes of a socket is where these end  *)
(* (InStep); a re-anchor under way has a reason that only grows (Gone).    *)
(***************************************************************************)
EXTENDS TerminalOutput, SequenceTheorems, WellFoundedInduction, TLAPS

Frame ==
  {m \in Step : /\ m.from <= m.upto
                /\ m.type \in {"synced", "bytes"} => m.epoch # 0
                /\ m.type = "synced" => m.from = m.upto}
Chunk == {q \in [chunk : Frame, counts : BOOLEAN] : q.chunk.type = "bytes"}

HostTyped ==
  /\ epochs \in Nat /\ epoch \in 0..epochs /\ out \in Nat /\ first \in 0..out
  /\ lastResize \in -1..out /\ layout \in Seq(Nat) /\ Len(layout) = out
  /\ size \in Nat \ {0} /\ kernel \in Nat \ {0} /\ nudge \in BOOLEAN /\ restoring \in BOOLEAN
  /\ open \subseteq Conns /\ sockets \subseteq Conns /\ owed \subseteq sockets
  /\ req \in [Conns -> [kind : {"idle", "none", "anchor", "new"}, epoch : Nat, seq : Nat]]
  /\ dims \in [Conns -> Boxes \cup {0}] /\ hidden \in [Conns -> {"no", "step", "diverged"}]
  /\ outbox \in [Conns -> Seq(Reports)]
PaneTyped ==
  /\ conn \in [Panes -> 0..2] /\ ready \in [Panes -> BOOLEAN]
  /\ counting \in [Panes -> BOOLEAN] /\ fresh \in [Panes -> BOOLEAN]
  /\ anchor \in [Panes -> Position] /\ saved \in [Panes -> Position]
  /\ painted \in [Panes -> Run] /\ kept \in [Panes -> Run]
  /\ content \in [Panes -> BOOLEAN] /\ visible \in [Panes -> BOOLEAN] /\ box \in [Panes -> Boxes]
  /\ inbox \in [Panes -> Seq(Frame)] /\ queued \in [Panes -> Seq(Chunk)]
  /\ muddled \subseteq Phones
Typed == HostTyped /\ PaneTyped

(* The host: a session has its sockets, and these their requests answered. *)
HostInv ==
  /\ epoch = 0 => sockets = {}
  /\ \A c \in sockets : req[c] = NoRequest
  /\ SmallestVisible
  /\ NudgeIsUndone
  /\ \A i \in 1..out : i > lastResize => layout[i] \in {0, size}

Ahead == {"attached", "preamble"}
Numbered == {"synced", "bytes"}
EndOf(run) == run.start + Len(run.bytes)

(* The position after what the pane has read, parsed or not.               *)
Tip(p) ==
  IF queued[p] = <<>> THEN EndOf(painted[p]) ELSE queued[p][Len(queued[p])].chunk.upto

(* What was missed can no longer be sent.                                  *)
Gone(e, n) == e # epoch \/ n < first \/ n <= lastResize

(* A position that is known is the end of the run.                         *)
Marks(a, run) ==
  a # NoAnchor => a.epoch # 0 /\ a.epoch = run.epoch /\ a.seq = EndOf(run)
Within(e, n) == e <= epochs /\ (epoch # 0 /\ e = epoch => n <= out)

Screen(p) ==
  /\ Marks(anchor[p], painted[p]) /\ Marks(saved[p], kept[p])
  /\ Within(painted[p].epoch, Tip(p)) /\ Within(painted[p].epoch, EndOf(painted[p]))
  /\ Within(kept[p].epoch, EndOf(kept[p]))
  /\ counting[p] => anchor[p] # NoAnchor
  /\ queued[p] # <<>> => p \in Phones /\ anchor[p] # NoAnchor
  /\ conn[p] = 0 => inbox[p] = <<>> /\ ~counting[p]

Queue(p) ==
  \A i \in 1..Len(queued[p]) :
    LET m == queued[p][i].chunk
    IN  /\ queued[p][i].counts
        /\ m.epoch = painted[p].epoch /\ Within(m.epoch, m.upto)
        /\ m.from = IF i = 1 THEN EndOf(painted[p]) ELSE queued[p][i - 1].chunk.upto

(* The pane has read nothing of this connection that moves it.             *)
Still(p) == ~counting[p] /\ queued[p] = <<>>
OnlyAhead(p, i) == \A j \in 1..(i - 1) : inbox[p][j].type \in Ahead

Preface(p, i) ==
  inbox[p][i].type \in Ahead =>
    Still(p) /\ OnlyAhead(p, i) /\ (inbox[p][i].type = "attached" => i = 1)
Follow(p, i) ==
  inbox[p][i].type = "bytes" =>
    IF i = 1 THEN /\ counting[p] /\ inbox[p][i].epoch = painted[p].epoch
                  /\ inbox[p][i].from = Tip(p)
    ELSE /\ inbox[p][i - 1].type \in Numbered /\ inbox[p][i - 1].epoch = inbox[p][i].epoch
         /\ inbox[p][i - 1].upto = inbox[p][i].from
Resume(p, i) ==
  inbox[p][i].type = "synced" /\ inbox[p][i].mode = "exact" =>
    /\ Still(p) /\ OnlyAhead(p, i)
    /\ anchor[p] = [epoch |-> inbox[p][i].epoch, seq |-> inbox[p][i].from]
Moved(p, i) ==
  inbox[p][i].type = "synced" /\ inbox[p][i].mode # "exact" =>
    IF i # 1 /\ inbox[p][i - 1].type \in Numbered
    THEN Gone(inbox[p][i - 1].epoch, inbox[p][i - 1].upto)
    ELSE anchor[p] = NoAnchor \/ Gone(painted[p].epoch, Tip(p))

OrderlyAt(p, i) ==
  /\ Within(inbox[p][i].epoch, inbox[p][i].upto)
  /\ Preface(p, i) /\ Follow(p, i) /\ Resume(p, i) /\ Moved(p, i)
Orderly(p) == \A i \in 1..Len(inbox[p]) : OrderlyAt(p, i)

(* Where the pane will be once it has read everything under way.           *)
LastOf(p) == inbox[p][Len(inbox[p])]
Sure(p) == IF inbox[p] = <<>> THEN counting[p] ELSE LastOf(p).type \in Numbered
FarEpoch(p) == IF inbox[p] = <<>> THEN painted[p].epoch ELSE LastOf(p).epoch
FarEnd(p) == IF inbox[p] = <<>> THEN Tip(p) ELSE LastOf(p).upto
Own(p) == <<p, conn[p]>>
InStep(p) ==
  Own(p) \in sockets =>
    /\ Sure(p) /\ FarEpoch(p) = epoch
    /\ IF hidden[Own(p)] = "diverged" THEN FarEnd(p) <= lastResize ELSE FarEnd(p) = out
Asked(p) ==
  conn[p] # 0 /\ req[Own(p)] # NoRequest =>
    /\ inbox[p] = <<>> /\ Still(p)
    /\ IF req[Own(p)].kind = "anchor"
       THEN /\ anchor[p] # NoAnchor
            /\ anchor[p] = [epoch |-> req[Own(p)].epoch, seq |-> req[Own(p)].seq]
       ELSE anchor[p] = NoAnchor

PaneInv(p) == Screen(p) /\ Queue(p) /\ Orderly(p) /\ InStep(p) /\ Asked(p)

IInv == Typed /\ HostInv /\ \A p \in Panes \ muddled : PaneInv(p)

-----------------------------------------------------------------------------
(* Sequences, and the smallest of a set of sizes.                          *)

LEMMA TailFacts ==
  ASSUME NEW S, NEW s \in Seq(S), s # <<>>
  PROVE  /\ Head(s) \in S /\ Head(s) = s[1] /\ Tail(s) \in Seq(S)
         /\ Len(s) \in Nat \ {0} /\ Len(Tail(s)) = Len(s) - 1
         /\ \A i \in 1..(Len(s) - 1) : Tail(s)[i] = s[i + 1]
  BY HeadTailProperties

LEMMA AppendFacts ==
  ASSUME NEW S, NEW s \in Seq(S), NEW e \in S
  PROVE  /\ Append(s, e) \in Seq(S) /\ Len(s) \in Nat
         /\ Len(Append(s, e)) = Len(s) + 1 /\ Append(s, e) # <<>>
         /\ \A i \in 1..Len(s) : Append(s, e)[i] = s[i]
         /\ Append(s, e)[Len(s) + 1] = e
  BY AppendProperties

LEMMA WiderSeq ==
  ASSUME NEW S, NEW T, S \subseteq T
  PROVE  Seq(S) \subseteq Seq(T)
  OBVIOUS

LEMMA ConcatFacts ==
  ASSUME NEW S, NEW s \in Seq(S), NEW t \in Seq(S)
  PROVE  /\ s \o t \in Seq(S) /\ Len(s \o t) = Len(s) + Len(t)
         /\ \A i \in 1..(Len(s) + Len(t)) :
              (s \o t)[i] = IF i <= Len(s) THEN s[i] ELSE t[i - Len(s)]
  BY ConcatProperties

LEMMA MinFacts ==
  ASSUME NEW S, S \subseteq Nat, S # {}
  PROVE  Min(S) \in S /\ \A y \in S : Min(S) <= y
<1> DEFINE R == {ss \in Nat \X Nat : ss[1] < ss[2]}
<1>1. OpToRel(<, Nat) = R
  BY DEF OpToRel
<1>2. IsWellFoundedOn(R, Nat)
  BY <1>1, NatLessThanWellFounded
<1>3. \E x \in S : \A y \in S : <<y, x>> \notin R
  BY <1>2, WFMin
<1>4. PICK x \in S : \A y \in S : <<y, x>> \notin R
  BY <1>3
<1>5. ASSUME NEW y \in S
      PROVE  x <= y
  <2>1. x \in Nat /\ y \in Nat
    OBVIOUS
  <2>2. <<y, x>> \in Nat \X Nat /\ <<y, x>>[1] = y /\ <<y, x>>[2] = x
    BY <2>1
  <2>3. ~(y < x)
    BY <1>4, <2>2
  <2> QED
    BY <2>1, <2>3
<1> QED
  BY <1>5 DEF Min

LEMMA MaxOfTwo ==
  ASSUME NEW a \in Int, NEW b \in Int
  PROVE  Max({a, b}) = IF a >= b THEN a ELSE b
<1>1. \E x \in {a, b} : \A y \in {a, b} : x >= y
  OBVIOUS
<1>2. /\ Max({a, b}) \in {a, b}
      /\ \A y \in {a, b} : Max({a, b}) >= y
  BY <1>1 DEF Max
<1> QED
  BY <1>2

-----------------------------------------------------------------------------
(* Sizes.                                                                  *)

Hiding == {"no", "step", "diverged"}
Seen(d, h) == {c \in Conns : d[c] # 0 /\ h[c] = "no"}

LEMMA EffectiveFacts ==
  ASSUME NEW d \in [Conns -> Boxes \cup {0}], NEW h
  PROVE  /\ EffectiveDims(d, h) \in Boxes \cup {0}
         /\ EffectiveDims(d, h) = 0 <=> Seen(d, h) = {}
<1> DEFINE boxes == {d[c] : c \in Seen(d, h)}
<1>1. boxes \subseteq Boxes /\ boxes \subseteq Nat /\ 0 \notin boxes
  BY OutputAssumption DEF Seen
<1>2. EffectiveDims(d, h) = IF boxes = {} THEN 0 ELSE Min(boxes)
  BY DEF EffectiveDims, Seen
<1>3. boxes = {} <=> Seen(d, h) = {}
  OBVIOUS
<1>4. boxes # {} => Min(boxes) \in boxes
  BY <1>1, MinFacts
<1> QED
  BY <1>1, <1>2, <1>3, <1>4

LEMMA SameSeen ==
  ASSUME NEW d, NEW h, NEW e, NEW g,
         \A c \in Conns : d[c] # 0 /\ h[c] = "no" <=> e[c] # 0 /\ g[c] = "no",
         \A c \in Conns : h[c] = "no" /\ d[c] # 0 => d[c] = e[c]
  PROVE  EffectiveDims(d, h) = EffectiveDims(e, g)
<1>1. {c \in Conns : d[c] # 0 /\ h[c] = "no"} = {c \in Conns : e[c] # 0 /\ g[c] = "no"}
  OBVIOUS
<1>2. {d[c] : c \in {k \in Conns : d[k] # 0 /\ h[k] = "no"}}
      = {e[c] : c \in {k \in Conns : e[k] # 0 /\ g[k] = "no"}}
  BY <1>1
<1> QED
  BY <1>2 DEF EffectiveDims

(* What a resize, or the decision not to, leaves behind.                   *)
Resized(d, h) ==
  /\ dims' = d /\ hidden' \in [Conns -> Hiding]
  /\ size' \in Nat \ {0} /\ kernel' \in Nat \ {0} /\ restoring' \in BOOLEAN
  /\ lastResize' \in {lastResize, out'}
  /\ size' # size => lastResize' = out'
  /\ epoch # 0 => kernel' = size' \/ restoring'
  /\ \A c \in Conns :
       /\ hidden'[c] = "no" <=> h[c] = "no"
       /\ hidden'[c] # "diverged" => h[c] # "diverged"
       /\ hidden'[c] = "diverged" /\ h[c] # "diverged" => lastResize' = out'
       /\ lastResize' = lastResize \/ hidden'[c] # "step"

LEMMA ApplyFacts ==
  ASSUME Typed, HostInv, NEW next \in Boxes \cup {0}, NEW d, NEW h \in [Conns -> Hiding],
         NEW force \in BOOLEAN, Apply(next, d, h, force)
  PROVE  Resized(d, h) /\ size' = (IF next = 0 THEN size ELSE next)
<1>1. /\ size \in Nat \ {0} /\ kernel \in Nat \ {0} /\ restoring \in BOOLEAN
      /\ next \in Nat
      /\ epoch # 0 => kernel = size \/ restoring
  BY OutputAssumption DEF Typed, HostTyped, PaneTyped, HostInv, NudgeIsUndone
<1>2. dims' = d
  BY DEF Apply
<1>3. CASE next = 0 \/ next = size
  <2>1. hidden' = h /\ lastResize' = lastResize
    BY <1>3, Zenon DEF Apply
  <2>2. CASE Applied(next, force)
    <3>1. size' = next /\ kernel' = next /\ restoring' = FALSE
      BY <2>2, Zenon DEF Apply
    <3> QED
      BY <1>1, <1>2, <1>3, <2>1, <2>2, <3>1 DEF Resized, Hiding, Applied
  <2>3. CASE ~Applied(next, force)
    <3>1. size' = size /\ kernel' = kernel /\ restoring' = restoring
      BY <2>3, Zenon DEF Apply
    <3> QED
      BY <1>1, <1>2, <1>3, <2>1, <3>1 DEF Resized, Hiding
  <2> QED
    BY <2>2, <2>3
<1>4. CASE next # 0 /\ next # size
  <2>1. Applied(next, force)
    BY <1>4 DEF Applied
  <2>2. size' = next /\ kernel' = next /\ restoring' = FALSE
    BY <2>1, Zenon DEF Apply
  <2>3. /\ lastResize' = out'
        /\ hidden' = [c \in Conns |-> IF h[c] = "step" THEN "diverged" ELSE h[c]]
    BY <1>4, Zenon DEF Apply
  <2>4. hidden' \in [Conns -> Hiding]
    BY <2>3 DEF Hiding
  <2>5. ASSUME NEW c \in Conns
        PROVE  /\ hidden'[c] = "no" <=> h[c] = "no"
               /\ hidden'[c] # "diverged" => h[c] # "diverged"
               /\ hidden'[c] # "step"
    BY <2>3 DEF Hiding
  <2>6. kernel' = size' /\ size' \in Nat \ {0} /\ lastResize' = out'
    BY <1>1, <1>4, <2>2, <2>3
  <2>7. restoring' \in BOOLEAN
    BY <2>2, Zenon
  <2>8. Resized(d, h)
    BY <1>2, <2>4, <2>5, <2>6, <2>7 DEF Resized
  <2> QED
    BY <1>4, <2>2, <2>8
<1> QED
  BY <1>3, <1>4

LEMMA StillFits ==
  ASSUME NEW d, NEW h, Resized(d, h), EffectiveDims(d, h) \in {0, size'}
  PROVE  EffectiveDims(dims', hidden') \in {0, size'}
<1>1. dims' = d /\ \A c \in Conns : hidden'[c] = "no" <=> h[c] = "no"
  BY DEF Resized
<1>2. EffectiveDims(dims', hidden') = EffectiveDims(d, h)
  BY <1>1, SameSeen
<1> QED
  BY <1>2

Without(f, gone, none) == [c \in Conns |-> IF c \in gone THEN none ELSE f[c]]

LEMMA DetachFacts ==
  ASSUME Typed, HostInv, NEW gone \in SUBSET Conns, Detach(gone)
  PROVE  /\ sockets' = sockets \ gone
         /\ Resized(Without(dims, gone, 0), Without(hidden, gone, "no"))
         /\ SmallestVisible'
<1> DEFINE d == Without(dims, gone, 0)
           h == Without(hidden, gone, "no")
           held == {c \in gone : dims[c] # 0 /\ hidden[c] = "no"}
           left == EffectiveDims(d, h)
           last == IF held = {} THEN {0}
                   ELSE IF left = 0 /\ Cardinality(held) > 1 THEN {dims[c] : c \in held}
                   ELSE {left}
<1>1. /\ dims \in [Conns -> Boxes \cup {0}] /\ hidden \in [Conns -> Hiding]
      /\ size \in Nat \ {0}
      /\ sockets \subseteq Conns
  BY DEF Typed, HostTyped, PaneTyped, Hiding
<1>2. d \in [Conns -> Boxes \cup {0}] /\ h \in [Conns -> Hiding]
  BY <1>1 DEF Without, Hiding
<1>3. sockets' = sockets \ gone
  BY DEF Detach
<1>4. PICK next \in last : Apply(next, d, h, FALSE)
  BY DEF Detach, Without
<1>5. next \in Boxes \cup {0}
  BY <1>1, <1>2, EffectiveFacts
<1>6. Resized(d, h) /\ size' = IF next = 0 THEN size ELSE next
  BY <1>2, <1>4, <1>5, ApplyFacts
<1>7. left \in {0, size'}
  <2>1. CASE held = {}
    <3>1. left = EffectiveDims(dims, hidden)
      <4>1. \A c \in Conns : /\ d[c] # 0 /\ h[c] = "no" <=> dims[c] # 0 /\ hidden[c] = "no"
                             /\ h[c] = "no" /\ d[c] # 0 => d[c] = dims[c]
        BY <1>1, <2>1 DEF Without
      <4> QED
        BY <4>1, SameSeen
    <3>2. size' = size
      BY <1>6, <2>1
    <3> QED
      BY <3>1, <3>2 DEF HostInv, SmallestVisible
  <2>2. CASE held # {} /\ left # 0
    <3>1. next = left
      BY <2>2
    <3> QED
      BY <1>6, <2>2, <3>1
  <2> QED
    BY <2>1, <2>2
<1>8. EffectiveDims(dims', hidden') \in {0, size'}
  BY <1>6, <1>7, StillFits
<1>9. ASSUME NEW c \in Conns, dims'[c] # 0 \/ hidden'[c] # "no"
      PROVE  c \in sockets'
  <2>1. d[c] # 0 \/ h[c] # "no"
    BY <1>6, <1>9 DEF Resized
  <2>2. c \notin gone /\ (dims[c] # 0 \/ hidden[c] # "no")
    BY <2>1 DEF Without
  <2> QED
    BY <1>3, <2>2 DEF HostInv, SmallestVisible
<1> QED
  BY <1>3, <1>6, <1>8, <1>9 DEF SmallestVisible

-----------------------------------------------------------------------------
(* What the host does to its stream only gives a pane more reasons to      *)
(* jump.                                                                   *)

NearAt(p) ==
  /\ conn'[p] = conn[p] /\ counting'[p] = counting[p]
  /\ anchor'[p] = anchor[p] /\ queued'[p] = queued[p] /\ painted'[p] = painted[p]
  /\ saved'[p] = saved[p] /\ kept'[p] = kept[p]
SameAt(p) == NearAt(p) /\ inbox'[p] = inbox[p]

Grown ==
  /\ epochs' \in Nat /\ epochs' >= epochs
  /\ \/ epoch' = epoch /\ out' >= out /\ first' >= first /\ lastResize' >= lastResize
     \/ epoch' = 0
     \/ epoch' > epochs
  /\ epoch' \in Nat /\ out' \in Nat /\ first' \in Nat /\ lastResize' \in Int

LEMMA GoneGrows ==
  ASSUME Typed, Grown, NEW e \in Nat \ {0}, NEW n \in Nat, e <= epochs, Gone(e, n)
  PROVE  Gone(e, n)'
  BY DEF Typed, HostTyped, PaneTyped, Grown, Gone

LEMMA WithinGrows ==
  ASSUME Typed, Grown, NEW e \in Nat, NEW n \in Nat, Within(e, n)
  PROVE  Within(e, n)'
  BY DEF Typed, HostTyped, PaneTyped, Grown, Within

LEMMA FrameFacts ==
  ASSUME NEW m \in Frame
  PROVE  /\ m.type \in Ahead \cup Numbered /\ m.mode \in {"none", "exact", "tail", "reanchor"}
         /\ m.epoch \in Nat /\ m.from \in Nat /\ m.upto \in Nat /\ m.from <= m.upto
         /\ m.type \in Numbered => m.epoch # 0
         /\ m.type = "synced" => m.from = m.upto
  BY DEF Frame, Step, Ahead, Numbered

LEMMA RunFacts ==
  ASSUME NEW r \in Run
  PROVE  /\ r.epoch \in Nat /\ r.start \in Nat /\ r.bytes \in Seq(Nat)
         /\ Len(r.bytes) \in Nat /\ EndOf(r) \in Nat
<1>1. r.epoch \in Nat /\ r.start \in Nat /\ r.bytes \in Seq(Nat)
  BY DEF Run
<1>2. Len(r.bytes) \in Nat
  BY <1>1, LenProperties
<1> QED
  BY <1>1, <1>2 DEF EndOf

LEMMA PaneTypes ==
  ASSUME Typed, NEW p \in Panes
  PROVE  /\ anchor[p] \in Position /\ saved[p] \in Position
         /\ painted[p] \in Run /\ kept[p] \in Run
         /\ counting[p] \in BOOLEAN /\ content[p] \in BOOLEAN /\ conn[p] \in 0..2
         /\ inbox[p] \in Seq(Frame) /\ Len(inbox[p]) \in Nat
         /\ \A i \in 1..Len(inbox[p]) : inbox[p][i] \in Frame
         /\ queued[p] \in Seq(Chunk) /\ Len(queued[p]) \in Nat
         /\ \A i \in 1..Len(queued[p]) : queued[p][i] \in Chunk /\ queued[p][i].chunk \in Frame
         /\ Tip(p) \in Nat
<1>1. /\ anchor[p] \in Position /\ saved[p] \in Position
      /\ painted[p] \in Run /\ kept[p] \in Run
      /\ counting[p] \in BOOLEAN /\ content[p] \in BOOLEAN /\ conn[p] \in 0..2
      /\ inbox[p] \in Seq(Frame) /\ queued[p] \in Seq(Chunk)
  BY DEF Typed, HostTyped, PaneTyped
<1>2. Len(inbox[p]) \in Nat /\ \A i \in 1..Len(inbox[p]) : inbox[p][i] \in Frame
  BY <1>1, LenProperties, ElementOfSeq
<1>3. Len(queued[p]) \in Nat /\ \A i \in 1..Len(queued[p]) : queued[p][i] \in Chunk
  BY <1>1, LenProperties, ElementOfSeq
<1>4. \A q \in Chunk : q.chunk \in Frame
  BY DEF Chunk
<1>5. Tip(p) \in Nat
  <2>1. CASE queued[p] = <<>>
    BY <1>1, <2>1, RunFacts DEF Tip
  <2>2. CASE queued[p] # <<>>
    <3>1. Len(queued[p]) \in 1..Len(queued[p])
      BY <1>1, <1>3, <2>2, TailFacts
    <3>2. queued[p][Len(queued[p])].chunk \in Frame
      BY <1>3, <1>4, <3>1
    <3> QED
      BY <2>2, <3>2, FrameFacts DEF Tip
  <2> QED
    BY <2>1, <2>2
<1> QED
  BY <1>1, <1>2, <1>3, <1>4, <1>5

LEMMA TipSame ==
  ASSUME NEW p, NearAt(p)
  PROVE  Tip(p)' = Tip(p)
  BY DEF NearAt, Tip

LEMMA ScreenGrows ==
  ASSUME Typed, Grown, NEW p \in Panes, NearAt(p), Screen(p), Queue(p),
         conn[p] = 0 => inbox'[p] = <<>>
  PROVE  Screen(p)' /\ Queue(p)'
<1>1. Tip(p)' = Tip(p)
  BY TipSame
<1>2. /\ painted[p].epoch \in Nat /\ EndOf(painted[p]) \in Nat /\ Tip(p) \in Nat
      /\ kept[p].epoch \in Nat /\ EndOf(kept[p]) \in Nat
  BY PaneTypes, RunFacts
<1>3. /\ Within(painted[p].epoch, Tip(p))'
      /\ Within(painted[p].epoch, EndOf(painted[p]))'
      /\ Within(kept[p].epoch, EndOf(kept[p]))'
  <2>1. /\ Within(painted[p].epoch, Tip(p)) /\ Within(painted[p].epoch, EndOf(painted[p]))
        /\ Within(kept[p].epoch, EndOf(kept[p]))
    BY DEF Screen
  <2> QED
    BY <1>1, <1>2, <2>1, WithinGrows DEF NearAt, Within
<1>4. Screen(p)'
  BY <1>1, <1>3 DEF Screen, NearAt, Marks, EndOf, NoAnchor
<1>5. ASSUME NEW i \in 1..Len(queued[p])
      PROVE  Within(queued[p][i].chunk.epoch, queued[p][i].chunk.upto)'
  <2>1. queued[p][i].chunk.epoch \in Nat /\ queued[p][i].chunk.upto \in Nat
    BY PaneTypes, FrameFacts
  <2>2. Within(queued[p][i].chunk.epoch, queued[p][i].chunk.upto)
    BY DEF Queue
  <2> QED
    BY <2>1, <2>2, WithinGrows DEF NearAt, Within
<1>6. Queue(p)'
  BY <1>5 DEF Queue, NearAt, EndOf
<1> QED
  BY <1>4, <1>6

(* What is under way stays in order, whatever comes after it.              *)
LEMMA OrderlyGrows ==
  ASSUME Typed, Grown, NEW p \in Panes, NearAt(p), Screen(p), Orderly(p),
         NEW i \in 1..Len(inbox[p]), \A j \in 1..i : inbox'[p][j] = inbox[p][j]
  PROVE  OrderlyAt(p, i)'
<1>1. /\ inbox'[p][i] = inbox[p][i]
      /\ i # 1 => i - 1 \in 1..Len(inbox[p]) /\ inbox'[p][i - 1] = inbox[p][i - 1]
  BY PaneTypes
<1>2. /\ Within(inbox[p][i].epoch, inbox[p][i].upto)
      /\ Preface(p, i) /\ Follow(p, i) /\ Resume(p, i) /\ Moved(p, i)
  BY DEF Orderly, OrderlyAt
<1>3. Tip(p)' = Tip(p)
  BY TipSame
<1>4. Within(inbox[p][i].epoch, inbox[p][i].upto)'
  <2>1. inbox[p][i].epoch \in Nat /\ inbox[p][i].upto \in Nat
    BY PaneTypes, FrameFacts
  <2> QED
    BY <1>1, <1>2, <2>1, WithinGrows DEF Within
<1>5. OnlyAhead(p, i) => OnlyAhead(p, i)'
  BY DEF OnlyAhead
<1>6. Preface(p, i)'
  BY <1>1, <1>2, <1>5 DEF NearAt, Preface, Still
<1>7. Follow(p, i)'
  BY <1>1, <1>2, <1>3 DEF NearAt, Follow
<1>8. Resume(p, i)'
  BY <1>1, <1>2, <1>5 DEF NearAt, Resume, Still
<1>9. Moved(p, i)'
  <2> SUFFICES ASSUME inbox[p][i].type = "synced", inbox[p][i].mode # "exact"
               PROVE  IF i # 1 /\ inbox[p][i - 1].type \in Numbered
                      THEN Gone(inbox[p][i - 1].epoch, inbox[p][i - 1].upto)'
                      ELSE anchor[p] = NoAnchor \/ Gone(painted[p].epoch, Tip(p))'
    BY <1>1, <1>3 DEF NearAt, Moved, Gone
  <2>1. CASE i # 1 /\ inbox[p][i - 1].type \in Numbered
    <3>1. i - 1 \in 1..Len(inbox[p]) /\ inbox[p][i - 1] \in Frame
      BY <2>1, PaneTypes
    <3>2. inbox[p][i - 1].epoch \in Nat \ {0} /\ inbox[p][i - 1].upto \in Nat
      BY <2>1, <3>1, FrameFacts
    <3>3. inbox[p][i - 1].epoch <= epochs
      BY <3>1 DEF Orderly, OrderlyAt, Within
    <3>4. Gone(inbox[p][i - 1].epoch, inbox[p][i - 1].upto)
      BY <1>2, <2>1 DEF Moved
    <3>5. Gone(inbox[p][i - 1].epoch, inbox[p][i - 1].upto)'
      BY <1>1, <2>1, <3>2, <3>3, <3>4, GoneGrows DEF Gone
    <3> QED
      BY <2>1, <3>5
  <2>2. CASE ~(i # 1 /\ inbox[p][i - 1].type \in Numbered) /\ anchor[p] # NoAnchor
    <3>1. Gone(painted[p].epoch, Tip(p))
      BY <1>2, <2>2 DEF Moved
    <3>2. painted[p].epoch \in Nat \ {0} /\ painted[p].epoch <= epochs /\ Tip(p) \in Nat
      BY <2>2, PaneTypes, RunFacts DEF Screen, Marks, Within
    <3>3. Gone(painted[p].epoch, Tip(p))'
      BY <1>3, <3>1, <3>2, GoneGrows DEF Gone, NearAt
    <3> QED
      BY <2>2, <3>3
  <2>3. CASE ~(i # 1 /\ inbox[p][i - 1].type \in Numbered) /\ anchor[p] = NoAnchor
    BY <2>3
  <2> QED
    BY <2>1, <2>2, <2>3
<1> QED
  BY <1>4, <1>6, <1>7, <1>8, <1>9 DEF OrderlyAt

(* A pane that nothing reaches.                                            *)
LEMMA PaneStays ==
  ASSUME Typed, Grown, NEW p \in Panes, SameAt(p), PaneInv(p), InStep(p)',
         conn[p] # 0 => req'[Own(p)] \in {req[Own(p)], NoRequest}
  PROVE  PaneInv(p)'
<1>1. Screen(p)' /\ Queue(p)'
  BY ScreenGrows DEF PaneInv, SameAt, Screen
<1>2. Orderly(p)'
  BY OrderlyGrows DEF PaneInv, SameAt, Orderly
<1>3. Asked(p)'
  BY DEF PaneInv, Asked, SameAt, NearAt, Own, Still
<1> QED
  BY <1>1, <1>2, <1>3 DEF PaneInv

LEMMA FarSame ==
  ASSUME NEW p, SameAt(p)
  PROVE  /\ Own(p)' = Own(p) /\ Sure(p)' = Sure(p)
         /\ FarEpoch(p)' = FarEpoch(p) /\ FarEnd(p)' = FarEnd(p)
  BY DEF SameAt, NearAt, Own, Sure, FarEpoch, FarEnd, LastOf, Tip

LEMMA FarTypes ==
  ASSUME Typed, NEW p \in Panes
  PROVE  FarEnd(p) \in Nat
<1>1. CASE inbox[p] = <<>>
  BY <1>1, PaneTypes DEF FarEnd
<1>2. CASE inbox[p] # <<>>
  <2>1. inbox[p] \in Seq(Frame)
    BY PaneTypes
  <2>2. Len(inbox[p]) \in 1..Len(inbox[p])
    BY <1>2, <2>1, TailFacts
  <2> QED
    BY <1>2, <2>2, PaneTypes, FrameFacts DEF FarEnd, LastOf
<1> QED
  BY <1>1, <1>2

LEMMA InStepStays ==
  ASSUME Typed, NEW p \in Panes, SameAt(p), InStep(p),
         Own(p) \in sockets' =>
           /\ Own(p) \in sockets /\ epoch' = epoch /\ out' = out
           /\ lastResize' \in {lastResize, out}
           /\ hidden'[Own(p)] = "diverged" /\ hidden[Own(p)] # "diverged" => lastResize' = out
           /\ hidden'[Own(p)] # "diverged" => hidden[Own(p)] # "diverged"
  PROVE  InStep(p)'
<1>1. /\ Own(p)' = Own(p) /\ Sure(p)' = Sure(p)
      /\ FarEpoch(p)' = FarEpoch(p) /\ FarEnd(p)' = FarEnd(p)
  BY FarSame
<1>2. out \in Nat /\ lastResize \in Int /\ lastResize <= out
  BY DEF Typed, HostTyped, PaneTyped
<1> SUFFICES ASSUME Own(p) \in sockets'
             PROVE  /\ Sure(p) /\ FarEpoch(p) = epoch'
                    /\ IF hidden'[Own(p)] = "diverged"
                       THEN FarEnd(p) <= lastResize' ELSE FarEnd(p) = out'
  BY <1>1 DEF InStep
<1>3. /\ Sure(p) /\ FarEpoch(p) = epoch
      /\ IF hidden[Own(p)] = "diverged" THEN FarEnd(p) <= lastResize ELSE FarEnd(p) = out
  BY DEF InStep
<1> QED
  BY <1>2, <1>3, FarTypes

-----------------------------------------------------------------------------
(* A step of the host that changes the size, or might have.                *)

LEMMA PaneUnderResize ==
  ASSUME Typed, NEW p \in Panes, PaneInv(p), NEW d, NEW h, Resized(d, h),
         UNCHANGED <<stream, pane>>, inbox'[p] = inbox[p], sockets' \subseteq sockets,
         Own(p) \in sockets' => (h[Own(p)] = "diverged" <=> hidden[Own(p)] = "diverged"),
         \A c \in Conns : req'[c] \in {req[c], NoRequest}
  PROVE  PaneInv(p)'
<1>1. SameAt(p) /\ Own(p) = <<p, conn[p]>>
  BY DEF pane, link, screen, SameAt, NearAt, Own
<1>2. Grown
  BY DEF Typed, HostTyped, stream, Resized, Grown
<1>3. InStep(p)'
  <2>1. Own(p) \in sockets' => Own(p) \in Conns
    BY DEF Typed, HostTyped
  <2> QED
    BY <1>1, <2>1, InStepStays DEF Resized, PaneInv, stream
<1>4. conn[p] # 0 => Own(p) \in Conns
  BY <1>1, PaneTypes DEF Conns
<1> QED
  BY <1>1, <1>2, <1>3, <1>4, PaneStays

LEMMA HostUnderResize ==
  ASSUME Typed, HostInv, UNCHANGED stream, NEW d, NEW h, Resized(d, h),
         SmallestVisible', sockets' \subseteq sockets,
         \A c \in Conns : req'[c] \in {req[c], NoRequest}
  PROVE  HostInv'
<1>1. epoch' = 0 => sockets' = {}
  BY DEF HostInv, stream
<1>2. \A c \in sockets' : req'[c] = NoRequest
  BY DEF HostInv, Typed, HostTyped
<1>3. NudgeIsUndone'
  BY DEF NudgeIsUndone, Resized, stream
<1>4. ASSUME NEW i \in 1..out', i > lastResize'
      PROVE  layout'[i] \in {0, size'}
  <2>1. /\ out' = out /\ layout' = layout /\ out \in Nat /\ lastResize \in Int
    BY DEF stream, Typed, HostTyped
  <2>2. lastResize' = lastResize /\ size' = size
    BY <1>4, <2>1 DEF Resized
  <2> QED
    BY <1>4, <2>1, <2>2 DEF HostInv
<1> QED
  BY <1>1, <1>2, <1>3, <1>4 DEF HostInv

LEMMA TypedUnderResize ==
  ASSUME Typed, UNCHANGED <<stream, pane>>, NEW d \in [Conns -> Boxes \cup {0}], NEW h,
         Resized(d, h), inbox' \in [Panes -> Seq(Frame)], nudge' \in BOOLEAN,
         open' \subseteq open, sockets' \subseteq sockets, owed' \subseteq sockets',
         req' \in [Conns -> [kind : {"idle", "none", "anchor", "new"}, epoch : Nat, seq : Nat]],
         outbox' \in [Conns -> Seq(Reports)]
  PROVE  Typed'
<1>1. HostTyped'
  <2>1. /\ epochs' \in Nat /\ epoch' \in 0..epochs' /\ out' \in Nat /\ first' \in 0..out'
        /\ layout' \in Seq(Nat) /\ Len(layout') = out'
    BY DEF Typed, HostTyped, stream
  <2>2. lastResize' \in -1..out'
    BY DEF Typed, HostTyped, stream, Resized
  <2>3. size' \in Nat \ {0} /\ kernel' \in Nat \ {0} /\ restoring' \in BOOLEAN
    BY DEF Resized
  <2>4. open' \subseteq Conns /\ sockets' \subseteq Conns
    BY DEF Typed, HostTyped
  <2>5. dims' \in [Conns -> Boxes \cup {0}] /\ hidden' \in [Conns -> {"no", "step", "diverged"}]
    BY DEF Resized, Hiding
  <2> QED
    BY <2>1, <2>2, <2>3, <2>4, <2>5 DEF HostTyped
<1>2. PaneTyped'
  BY DEF Typed, PaneTyped, pane, link, screen
<1> QED
  BY <1>1, <1>2 DEF Typed

LEMMA HeardTypes ==
  ASSUME Typed, NEW c \in Conns, Heard(c)
  PROVE  outbox' \in [Conns -> Seq(Reports)] /\ Head(outbox[c]).box \in Boxes \cup {0}
<1>1. outbox[c] \in Seq(Reports) /\ outbox[c] # <<>>
  BY DEF Typed, HostTyped, Heard
<1>2. Head(outbox[c]) \in Reports /\ Tail(outbox[c]) \in Seq(Reports)
  BY <1>1, TailFacts
<1> QED
  BY <1>2 DEF Typed, HostTyped, Heard, Reports

(* The three messages of a client, and what they have in common.           *)
LEMMA Handled ==
  ASSUME IInv, NEW c \in sockets, Heard(c), UNCHANGED <<stream, open, req, sockets, pane>>,
         NEW d \in [Conns -> Boxes \cup {0}], NEW h \in [Conns -> Hiding], Resized(d, h),
         \A k \in Conns : k # c => d[k] = dims[k] /\ h[k] = hidden[k],
         EffectiveDims(d, h) \in {0, size'}, nudge' \in BOOLEAN, owed' \subseteq sockets,
         inbox' \in [Panes -> Seq(Frame)],
         \A p \in Panes \ muddled :
            \/ inbox'[p] = inbox[p]
               /\ (Own(p) = c => (h[c] = "diverged" <=> hidden[c] = "diverged"))
            \/ PaneInv(p)'
  PROVE  IInv'
<1>1. Typed /\ HostInv /\ c \in Conns
  BY DEF IInv, Typed, HostTyped
<1>2. SmallestVisible'
  <2>1. EffectiveDims(dims', hidden') \in {0, size'}
    BY StillFits
  <2>2. ASSUME NEW k \in Conns, dims'[k] # 0 \/ hidden'[k] # "no"
        PROVE  k \in sockets
    <3>1. d[k] # 0 \/ h[k] # "no"
      BY <2>2 DEF Resized
    <3>2. CASE k # c
      BY <1>1, <3>1, <3>2 DEF HostInv, SmallestVisible
    <3> QED
      BY <3>2
  <2> QED
    BY <2>1, <2>2 DEF SmallestVisible
<1>3. HostInv'
  BY <1>1, <1>2, HostUnderResize
<1>4. Typed'
  <2>1. req' \in [Conns -> [kind : {"idle", "none", "anchor", "new"}, epoch : Nat, seq : Nat]]
    BY <1>1 DEF Typed, HostTyped
  <2> QED
    BY <1>1, <2>1, HeardTypes, TypedUnderResize
<1>5. ASSUME NEW p \in Panes \ muddled
      PROVE  PaneInv(p)'
  <2>1. CASE inbox'[p] = inbox[p] /\ (Own(p) = c => (h[c] = "diverged" <=> hidden[c] = "diverged"))
    <3>1. Own(p) \in sockets => (h[Own(p)] = "diverged" <=> hidden[Own(p)] = "diverged")
      BY <1>1, <2>1 DEF Typed, HostTyped
    <3> QED
      BY <1>1, <2>1, <3>1, PaneUnderResize DEF IInv
  <2> QED
    BY <2>1
<1> QED
  BY <1>3, <1>4, <1>5 DEF IInv, pane

LEMMA RepaintsFacts ==
  ASSUME NEW left, Repaints(left)
  PROVE  owed' \in {{}, left}
  BY DEF Repaints

LEMMA ApplyAll ==
  ASSUME Typed, HostInv, NEW d \in [Conns -> Boxes \cup {0}], NEW h \in [Conns -> Hiding],
         NEW force \in BOOLEAN, Apply(EffectiveDims(d, h), d, h, force)
  PROVE  Resized(d, h) /\ EffectiveDims(d, h) \in {0, size'}
  BY EffectiveFacts, ApplyFacts

LEMMA HideStep ==
  ASSUME IInv, NEW c \in Conns, HandleHide(c)
  PROVE  IInv'
<1> DEFINE h == [hidden EXCEPT ![c] = IF @ = "no" THEN "step" ELSE @]
<1>1. Typed /\ HostInv
  BY DEF IInv
<1>2. dims \in [Conns -> Boxes \cup {0}] /\ hidden \in [Conns -> Hiding]
  BY <1>1 DEF Typed, HostTyped, Hiding
<1>3. h \in [Conns -> Hiding] /\ (h[c] = "diverged" <=> hidden[c] = "diverged")
  BY <1>2 DEF Hiding
<1>4. \A k \in Conns : k # c => dims[k] = dims[k] /\ h[k] = hidden[k]
  BY <1>2
<1>5. Apply(EffectiveDims(dims, h), dims, h, FALSE)
  BY DEF HandleHide
<1>6. Resized(dims, h) /\ EffectiveDims(dims, h) \in {0, size'}
  BY <1>1, <1>2, <1>3, <1>5, ApplyAll
<1>7. /\ c \in sockets /\ Heard(c) /\ Repaints(owed)
      /\ UNCHANGED <<stream, nudge, open, req, sockets, inbox, pane>>
  BY DEF HandleHide
<1>8. /\ nudge' \in BOOLEAN /\ owed' \subseteq sockets /\ inbox' \in [Panes -> Seq(Frame)]
  BY <1>1, <1>7, RepaintsFacts DEF Typed, HostTyped, PaneTyped
<1> HIDE DEF h
<1> QED
  BY <1>2, <1>3, <1>4, <1>6, <1>7, <1>8, Handled

LEMMA NudgeFacts ==
  ASSUME Typed, Nudge(size)
  PROVE  kernel' \in Nat \ {0} /\ restoring' = TRUE
  BY DEF Typed, HostTyped, Nudge, Toggled, MinRows

LEMMA NudgeResized ==
  ASSUME Typed, Nudge(size), NEW d, NEW h \in [Conns -> Hiding],
         dims' = d, hidden' = h, UNCHANGED <<size, lastResize>>
  PROVE  Resized(d, h)
<1>1. kernel' \in Nat \ {0} /\ restoring' \in BOOLEAN /\ (kernel' = size' \/ restoring')
  BY NudgeFacts, Zenon
<1>2. size' \in Nat \ {0} /\ size' = size
  BY DEF Typed, HostTyped
<1> QED
  BY <1>1, <1>2 DEF Resized

LEMMA ResizeStep ==
  ASSUME IInv, NEW c \in Conns, HandleResize(c)
  PROVE  IInv'
<1> DEFINE d == [dims EXCEPT ![c] = Head(outbox[c]).box]
           next == EffectiveDims(d, hidden)
<1>1. Typed /\ HostInv
  BY DEF IInv
<1>2. /\ c \in sockets /\ Heard(c) /\ nudge' = FALSE
      /\ UNCHANGED <<stream, open, req, sockets, inbox, pane>>
  BY DEF HandleResize
<1>3. hidden \in [Conns -> Hiding]
  BY <1>1 DEF Typed, HostTyped, Hiding
<1>4. Head(outbox[c]).box \in Boxes \cup {0}
  BY <1>1, <1>2, HeardTypes
<1>5. d \in [Conns -> Boxes \cup {0}] /\ \A k \in Conns : k # c => d[k] = dims[k]
  BY <1>1, <1>4 DEF Typed, HostTyped
<1>6. Resized(d, hidden) /\ next \in {0, size'} /\ owed' \in {{}, owed}
  <2>1. CASE NudgeDue(next)
    <3>1. Nudge(size) /\ dims' = d /\ UNCHANGED <<size, lastResize, hidden>>
      BY <2>1 DEF HandleResize
    <3>2. owed' \in {{}, owed}
      BY <2>1, RepaintsFacts DEF HandleResize
    <3>3. Resized(d, hidden)
      BY <1>1, <1>3, <3>1, NudgeResized
    <3> QED
      BY <2>1, <3>1, <3>2, <3>3 DEF NudgeDue
  <2>2. CASE ~NudgeDue(next)
    <3>1. Apply(next, d, hidden, TRUE) /\ Repaints(owed)
      BY <2>2 DEF HandleResize
    <3> QED
      BY <1>1, <1>3, <1>5, <3>1, ApplyAll, RepaintsFacts
  <2> QED
    BY <2>1, <2>2
<1>7. nudge' \in BOOLEAN /\ owed' \subseteq sockets
  BY <1>1, <1>2, <1>6 DEF Typed, HostTyped
<1>8. inbox' \in [Panes -> Seq(Frame)]
  BY <1>1, <1>2 DEF Typed, PaneTyped
<1> HIDE DEF d
<1> QED
  BY <1>2, <1>3, <1>5, <1>6, <1>7, <1>8, Handled

(* A nudge and the end of one: the size stays what it was.                 *)
LEMMA TimerStep ==
  ASSUME IInv, NudgeFires \/ Restore
  PROVE  IInv'
<1>1. Typed /\ HostInv /\ hidden \in [Conns -> Hiding]
  BY DEF IInv, Typed, HostTyped, Hiding
<1>2. Resized(dims, hidden)
  <2>1. CASE NudgeFires
    BY <1>1, <2>1, NudgeResized DEF NudgeFires, host
  <2>2. CASE Restore
    <3>1. kernel' = size' /\ size' = size /\ size \in Nat \ {0} /\ restoring' \in BOOLEAN
      BY <1>1, <2>2 DEF Restore, Typed, HostTyped
    <3> QED
      BY <1>1, <2>2, <3>1 DEF Restore, host, Resized
  <2> QED
    BY <2>1, <2>2
<1>3. UNCHANGED <<stream, size, host, wire, pane>> /\ owed' \in {{}, owed} /\ nudge' \in BOOLEAN
  BY <1>1, RepaintsFacts DEF NudgeFires, Restore, Typed, HostTyped
<1>4. SmallestVisible'
  <2>1. EffectiveDims(dims', hidden') = EffectiveDims(dims, hidden)
    BY <1>3 DEF host
  <2> QED
    BY <1>1, <1>3, <2>1 DEF HostInv, SmallestVisible, host
<1>5. HostInv'
  BY <1>1, <1>2, <1>3, <1>4, HostUnderResize DEF host
<1>6. /\ open' = open /\ sockets' = sockets /\ req' = req /\ inbox' = inbox /\ outbox' = outbox
  BY <1>3 DEF host, wire
<1>7. Typed'
  <2>1. /\ dims \in [Conns -> Boxes \cup {0}] /\ owed' \subseteq sockets'
        /\ req' \in [Conns -> [kind : {"idle", "none", "anchor", "new"}, epoch : Nat, seq : Nat]]
        /\ outbox' \in [Conns -> Seq(Reports)] /\ inbox' \in [Panes -> Seq(Frame)]
    BY <1>1, <1>3, <1>6 DEF Typed, HostTyped, PaneTyped
  <2> QED
    BY <1>1, <1>2, <1>3, <1>6, <2>1, TypedUnderResize
<1>8. \A p \in Panes \ muddled : PaneInv(p)'
  BY <1>1, <1>2, <1>3, <1>6, PaneUnderResize DEF IInv
<1> QED
  BY <1>3, <1>5, <1>7, <1>8 DEF IInv, pane

-----------------------------------------------------------------------------
(* Sockets that go.                                                        *)

LEMMA Departed ==
  ASSUME IInv, NEW gone \in SUBSET Conns, Detach(gone), UNCHANGED <<stream, nudge, inbox, pane>>,
         open' \subseteq open, owed' \subseteq owed \ gone,
         req' \in [Conns -> [kind : {"idle", "none", "anchor", "new"}, epoch : Nat, seq : Nat]],
         \A c \in Conns : req'[c] \in {req[c], NoRequest},
         outbox' \in [Conns -> Seq(Reports)]
  PROVE  IInv'
<1> DEFINE d == Without(dims, gone, 0)
           h == Without(hidden, gone, "no")
<1>1. Typed /\ HostInv
  BY DEF IInv
<1>2. sockets' = sockets \ gone /\ Resized(d, h) /\ SmallestVisible'
  BY <1>1, DetachFacts
<1>3. d \in [Conns -> Boxes \cup {0}]
  BY <1>1 DEF Without, Typed, HostTyped
<1>4. \A c \in Conns \ gone : h[c] = hidden[c]
  BY DEF Without
<1>5. /\ nudge' \in BOOLEAN /\ owed' \subseteq sockets' /\ inbox' \in [Panes -> Seq(Frame)]
      /\ sockets \subseteq Conns
  BY <1>1, <1>2 DEF Typed, HostTyped, PaneTyped
<1> HIDE DEF d, h
<1>6. HostInv'
  BY <1>1, <1>2, HostUnderResize
<1>7. Typed'
  BY <1>1, <1>2, <1>3, <1>5, TypedUnderResize
<1>8. ASSUME NEW p \in Panes \ muddled
      PROVE  PaneInv(p)'
  <2>1. Own(p) \in sockets' => (h[Own(p)] = "diverged" <=> hidden[Own(p)] = "diverged")
    BY <1>2, <1>4, <1>5
  <2> QED
    BY <1>1, <1>2, <2>1, PaneUnderResize DEF IInv
<1> QED
  BY <1>6, <1>7, <1>8 DEF IInv, pane

LEMMA SweepStep ==
  ASSUME IInv, NEW c \in Conns, SweepDrop(c)
  PROVE  IInv'
<1>1. /\ Detach({c}) /\ open' = open \ {c} /\ Repaints(owed \ {c})
      /\ UNCHANGED <<stream, nudge, req, wire, pane>>
  BY DEF SweepDrop
<1>2. owed' \subseteq owed \ {c}
  BY <1>1, RepaintsFacts
<1>3. /\ req' = req /\ outbox' = outbox /\ inbox' = inbox
      /\ req \in [Conns -> [kind : {"idle", "none", "anchor", "new"}, epoch : Nat, seq : Nat]]
      /\ outbox \in [Conns -> Seq(Reports)]
  BY <1>1 DEF wire, IInv, Typed, HostTyped
<1> QED
  BY <1>1, <1>2, <1>3, Departed

LEMMA CloseStep ==
  ASSUME IInv, NEW c \in Conns, CloseEvent(c)
  PROVE  IInv'
<1>1. /\ Detach({c}) /\ open' = open \ {c} /\ Repaints(owed \ {c})
      /\ UNCHANGED <<stream, nudge, inbox, pane>>
      /\ req' = [req EXCEPT ![c] = NoRequest] /\ outbox' = [outbox EXCEPT ![c] = <<>>]
  BY DEF CloseEvent
<1>2. owed' \subseteq owed \ {c}
  BY <1>1, RepaintsFacts
<1>3. /\ req \in [Conns -> [kind : {"idle", "none", "anchor", "new"}, epoch : Nat, seq : Nat]]
      /\ outbox \in [Conns -> Seq(Reports)] /\ <<>> \in Seq(Reports)
      /\ NoRequest \in [kind : {"idle", "none", "anchor", "new"}, epoch : Nat, seq : Nat]
  BY DEF IInv, Typed, HostTyped, NoRequest
<1>4. /\ req' \in [Conns -> [kind : {"idle", "none", "anchor", "new"}, epoch : Nat, seq : Nat]]
      /\ outbox' \in [Conns -> Seq(Reports)]
      /\ \A k \in Conns : req'[k] \in {req[k], NoRequest}
  BY <1>1, <1>3
<1> QED
  BY <1>1, <1>2, <1>4, Departed

-----------------------------------------------------------------------------
(* Steps that leave the session and its size alone.                        *)

LEMMA HostInvStays ==
  ASSUME HostInv, UNCHANGED <<stream, pty, sockets, dims, hidden>>,
         \A c \in sockets : req'[c] = NoRequest
  PROVE  HostInv'
<1>1. SmallestVisible'
  <2>1. EffectiveDims(dims', hidden') = EffectiveDims(dims, hidden)
    OBVIOUS
  <2> QED
    BY <2>1 DEF HostInv, SmallestVisible, pty
<1>2. NudgeIsUndone'
  BY DEF HostInv, NudgeIsUndone, stream, pty
<1> QED
  BY <1>1, <1>2 DEF HostInv, stream, pty

LEMMA HostTypedStays ==
  ASSUME Typed, UNCHANGED <<stream, pty, sockets, dims, hidden, owed>>, open' \subseteq Conns,
         req' \in [Conns -> [kind : {"idle", "none", "anchor", "new"}, epoch : Nat, seq : Nat]],
         outbox' \in [Conns -> Seq(Reports)]
  PROVE  HostTyped'
  BY DEF Typed, HostTyped, stream, pty

LEMMA PaneSame ==
  ASSUME Typed, NEW p \in Panes, SameAt(p), PaneInv(p), UNCHANGED <<stream, pty, hidden>>,
         Own(p) \in sockets' => Own(p) \in sockets,
         conn[p] # 0 => req'[Own(p)] \in {req[Own(p)], NoRequest}
  PROVE  PaneInv(p)'
<1>1. Grown
  BY DEF Typed, HostTyped, stream, pty, Grown
<1>2. InStep(p)'
  BY InStepStays DEF PaneInv, stream, pty
<1> QED
  BY <1>1, <1>2, PaneStays

LEMMA PeerStep ==
  ASSUME IInv, (UNCHANGED vars) \/ (\E c \in Conns : PeerCloses(c) \/ Ignore(c))
  PROVE  IInv'
<1>1. Typed /\ HostInv
  BY DEF IInv
<1>2. /\ UNCHANGED <<stream, pty, req, sockets, dims, hidden, inbox, pane, owed>>
      /\ open' \subseteq open
  <2>1. CASE UNCHANGED vars
    BY <2>1 DEF vars, host, wire
  <2>2. CASE \E c \in Conns : PeerCloses(c) \/ Ignore(c)
    BY <2>2 DEF PeerCloses, Ignore, host, wire
  <2> QED
    BY <2>1, <2>2
<1>3. outbox' \in [Conns -> Seq(Reports)]
  <2>1. ASSUME NEW c \in Conns, Heard(c)
        PROVE  outbox' \in [Conns -> Seq(Reports)]
    BY <1>1, <2>1, HeardTypes
  <2>2. CASE outbox' = outbox
    BY <1>1, <2>2 DEF Typed, HostTyped
  <2> QED
    BY <2>1, <2>2 DEF PeerCloses, Ignore, wire, vars
<1>4. HostInv'
  BY <1>1, <1>2, HostInvStays DEF HostInv
<1>5. HostTyped'
  BY <1>1, <1>2, <1>3, HostTypedStays DEF Typed, HostTyped
<1>6. PaneTyped'
  BY <1>1, <1>2 DEF Typed, PaneTyped, pane, link, screen
<1>7. ASSUME NEW p \in Panes \ muddled
      PROVE  PaneInv(p)'
  <2>1. SameAt(p)
    BY <1>2 DEF SameAt, NearAt, pane, link, screen
  <2> QED
    BY <1>1, <1>2, <2>1, PaneSame DEF IInv
<1> QED
  BY <1>2, <1>4, <1>5, <1>6, <1>7 DEF IInv, Typed, pane

LEMMA NoneSeen ==
  ASSUME NEW d \in [Conns -> Boxes \cup {0}], NEW h, \A c \in Conns : d[c] = 0
  PROVE  EffectiveDims(d, h) = 0
  BY EffectiveFacts DEF Seen

(* A session begins or ends: no socket is attached.                        *)
LEMMA SessionStep ==
  ASSUME IInv, Adopt \/ DaemonDisconnect
  PROVE  IInv'
<1>1. Typed /\ HostInv
  BY DEF IInv
<1>2. /\ sockets' = {} /\ dims' \in [Conns -> Boxes \cup {0}] /\ \A c \in Conns : dims'[c] = 0
      /\ hidden' \in [Conns -> Hiding] /\ \A c \in Conns : hidden'[c] = "no"
  <2>1. CASE Adopt
    <3>1. epoch = 0 /\ UNCHANGED <<sockets, dims, hidden>>
      BY <2>1 DEF Adopt, host
    <3> QED
      BY <1>1, <3>1 DEF HostInv, SmallestVisible, Typed, HostTyped, Hiding
  <2>2. CASE DaemonDisconnect
    BY <2>2 DEF DaemonDisconnect, Hiding
  <2> QED
    BY <2>1, <2>2
<1>3. /\ Grown /\ epoch' \in 0..epochs' /\ first' \in 0..out' /\ lastResize' \in -1..out'
      /\ layout' \in Seq(Nat) /\ Len(layout') = out' /\ \A i \in 1..out' : layout'[i] = 0
      /\ size' \in Nat \ {0} /\ kernel' \in Nat \ {0}
      /\ nudge' \in BOOLEAN /\ restoring' \in BOOLEAN
      /\ epoch' # 0 => kernel' = size'
  <2>1. CASE Adopt
    <3>1. PICK n \in 0..1 : out' = n /\ layout' = [i \in 1..n |-> 0]
      BY <2>1 DEF Adopt
    <3>2. layout' \in Seq(Nat) /\ Len(layout') = n /\ \A i \in 1..n : layout'[i] = 0
      BY <3>1
    <3>3. epochs' = epochs + 1 /\ epoch' = epochs + 1 /\ first' = 0 /\ lastResize' = -1
      BY <2>1 DEF Adopt
    <3>4. Grown /\ epoch' \in 0..epochs' /\ first' \in 0..out' /\ lastResize' \in -1..out'
      BY <1>1, <3>1, <3>3 DEF Grown, Typed, HostTyped
    <3>5. /\ size' \in Nat \ {0} /\ kernel' \in Nat \ {0} /\ kernel' = size'
      BY <1>1, <2>1 DEF Adopt, Typed, HostTyped
    <3>6. nudge' \in BOOLEAN /\ restoring' \in BOOLEAN
      BY <1>1, <2>1 DEF Adopt, Typed, HostTyped
    <3> QED
      BY <3>1, <3>2, <3>4, <3>5, <3>6
  <2>2. CASE DaemonDisconnect
    <3>1. /\ epoch' = 0 /\ out' = 0 /\ first' = 0 /\ layout' = <<>> /\ lastResize' = -1
          /\ nudge' = FALSE /\ restoring' = FALSE
          /\ UNCHANGED <<epochs, size, kernel>>
      BY <2>2 DEF DaemonDisconnect
    <3>2. layout' \in Seq(Nat) /\ Len(layout') = 0
      BY <3>1
    <3>3. Grown /\ epoch' \in 0..epochs' /\ first' \in 0..out' /\ lastResize' \in -1..out'
      BY <1>1, <3>1 DEF Grown, Typed, HostTyped
    <3>4. size' \in Nat \ {0} /\ kernel' \in Nat \ {0}
      BY <1>1, <3>1 DEF Typed, HostTyped
    <3>5. nudge' \in BOOLEAN /\ restoring' \in BOOLEAN
      BY <3>1, Zenon
    <3>6. out' = 0 /\ \A i \in 1..out' : layout'[i] = 0
      BY <3>1
    <3>7. epoch' = 0
      BY <3>1
    <3> QED
      BY <3>2, <3>3, <3>4, <3>5, <3>6, <3>7
  <2> QED
    BY <2>1, <2>2
<1>4. /\ open' \subseteq Conns /\ owed' = {} /\ UNCHANGED <<req, wire, pane>>
  BY <1>1 DEF Adopt, DaemonDisconnect, HostInv, Typed, HostTyped, host
<1>5. HostInv'
  <2>1. EffectiveDims(dims', hidden') = 0
    BY <1>2, NoneSeen
  <2>2. SmallestVisible'
    BY <1>2, <2>1 DEF SmallestVisible
  <2>3. NudgeIsUndone'
    BY <1>3 DEF NudgeIsUndone
  <2> QED
    BY <1>2, <1>3, <2>2, <2>3 DEF HostInv
<1>6. HostTyped'
  <2>1. /\ req' \in [Conns -> [kind : {"idle", "none", "anchor", "new"}, epoch : Nat, seq : Nat]]
        /\ outbox' \in [Conns -> Seq(Reports)]
    BY <1>1, <1>4 DEF Typed, HostTyped, wire
  <2> QED
    BY <1>2, <1>3, <1>4, <2>1 DEF HostTyped, Grown, Hiding
<1>7. PaneTyped'
  BY <1>1, <1>4 DEF Typed, PaneTyped, pane, link, screen, wire
<1>8. ASSUME NEW p \in Panes \ muddled
      PROVE  PaneInv(p)'
  <2>1. SameAt(p)
    BY <1>4 DEF SameAt, NearAt, pane, link, screen, wire
  <2>2. InStep(p)'
    BY <1>2 DEF InStep
  <2> QED
    BY <1>1, <1>3, <1>4, <2>1, <2>2, PaneStays DEF IInv
<1> QED
  BY <1>4, <1>5, <1>6, <1>7, <1>8 DEF IInv, Typed, pane

-----------------------------------------------------------------------------
(* One more message for a pane that will have read everything before it.   *)

LEMMA Joined ==
  ASSUME Typed, Grown, NEW p \in Panes, NearAt(p), PaneInv(p), conn[p] # 0,
         NEW m \in Frame, inbox'[p] = Append(inbox[p], m), req'[Own(p)] = NoRequest,
         m.epoch <= epochs', epoch' # 0 /\ m.epoch = epoch' => m.upto <= out',
         Sure(p),
         \/ m.type = "bytes" /\ m.epoch = FarEpoch(p) /\ m.from = FarEnd(p)
         \/ /\ m.type = "synced" /\ m.mode # "exact"
            /\ FarEpoch(p) # epoch' \/ FarEnd(p) < first' \/ FarEnd(p) <= lastResize',
         Own(p) \in sockets' =>
           /\ m.epoch = epoch'
           /\ IF hidden'[Own(p)] = "diverged" THEN m.upto <= lastResize' ELSE m.upto = out'
  PROVE  PaneInv(p)'
<1>1. PICK n \in Nat :
        /\ n = Len(inbox[p]) + 1
        /\ inbox[p] \in Seq(Frame) /\ Len(inbox[p]) \in Nat
        /\ Len(inbox'[p]) = n /\ inbox'[p] # <<>> /\ inbox'[p][n] = m
        /\ \A i \in 1..Len(inbox[p]) : inbox'[p][i] = inbox[p][i]
  BY PaneTypes, AppendFacts
<1>2. m.type \in Numbered
  BY DEF Numbered
<1>3. /\ n # 1 => inbox[p] # <<>> /\ inbox'[p][n - 1] = LastOf(p)
      /\ n = 1 => inbox[p] = <<>>
  <2>1. CASE inbox[p] = <<>>
    BY <1>1, <2>1
  <2>2. CASE inbox[p] # <<>>
    BY <1>1, <2>2, TailFacts DEF LastOf
  <2> QED
    BY <2>1, <2>2
<1>4. Tip(p)' = Tip(p)
  BY TipSame
<1>5. Follow(p, n)'
  BY <1>1, <1>2, <1>3, <1>4 DEF Follow, Sure, FarEpoch, FarEnd, NearAt
<1>6. Moved(p, n)'
  BY <1>1, <1>2, <1>3, <1>4 DEF Moved, Sure, FarEpoch, FarEnd, NearAt, Gone
<1>7. Preface(p, n)' /\ Resume(p, n)'
  BY <1>1 DEF Preface, Resume, Ahead
<1>8. Within(inbox[p][n].epoch, inbox[p][n].upto)'
  BY <1>1 DEF Within
<1>9. Orderly(p)'
  <2>1. OrderlyAt(p, n)'
    BY <1>5, <1>6, <1>7, <1>8 DEF OrderlyAt
  <2>2. ASSUME NEW i \in 1..Len(inbox[p])
        PROVE  OrderlyAt(p, i)'
    <3>1. \A j \in 1..i : inbox'[p][j] = inbox[p][j]
      BY <1>1
    <3> QED
      BY <3>1, OrderlyGrows DEF PaneInv
  <2>3. \A i \in 1..Len(inbox'[p]) : i = n \/ i \in 1..Len(inbox[p])
    BY <1>1
  <2> QED
    BY <2>1, <2>2, <2>3 DEF Orderly
<1>10. Screen(p)' /\ Queue(p)'
  BY ScreenGrows DEF PaneInv
<1>11. Own(p)' = Own(p)
  BY DEF Own, NearAt
<1>12. InStep(p)'
  <2>1. LastOf(p)' = m
    BY <1>1 DEF LastOf
  <2> QED
    BY <1>1, <1>2, <1>11, <2>1 DEF InStep, Sure, FarEpoch, FarEnd
<1>13. Asked(p)'
  BY <1>11 DEF Asked
<1> QED
  BY <1>9, <1>10, <1>12, <1>13 DEF PaneInv

LEMMA ConnParts ==
  ASSUME NEW c \in Conns
  PROVE  c[1] \in Panes /\ c[2] \in {1, 2} /\ c = <<c[1], c[2]>>
  BY DEF Conns

LEMMA SentFacts ==
  ASSUME Typed, NEW c \in Conns, NEW messages \in Seq(Frame), inbox' = Sent(c, messages)
  PROVE  /\ inbox' \in [Panes -> Seq(Frame)]
         /\ \A p \in Panes :
              \/ Own(p) = c /\ inbox'[p] = inbox[p] \o messages
              \/ Own(p) # c /\ inbox'[p] = inbox[p]
<1>1. c[1] \in Panes /\ c = <<c[1], c[2]>>
  BY ConnParts
<1>2. inbox \in [Panes -> Seq(Frame)]
  BY DEF Typed, PaneTyped
<1>3. inbox[c[1]] \o messages \in Seq(Frame)
  BY <1>1, <1>2, ConcatFacts
<1>4. CASE Current(c)
  <2>1. inbox' = [inbox EXCEPT ![c[1]] = inbox[c[1]] \o messages]
    BY <1>4 DEF Sent
  <2>2. Own(c[1]) = c /\ \A p \in Panes : p # c[1] => Own(p) # c
    BY <1>1, <1>4 DEF Own, Current
  <2> QED
    BY <1>1, <1>2, <1>3, <2>1, <2>2
<1>5. CASE ~Current(c)
  <2>1. inbox' = inbox
    BY <1>5 DEF Sent
  <2>2. \A p \in Panes : Own(p) # c
    BY <1>1, <1>5 DEF Own, Current
  <2> QED
    BY <1>2, <2>1, <2>2
<1> QED
  BY <1>4, <1>5

LEMMA ShowStep ==
  ASSUME IInv, NEW c \in Conns, HandleShow(c)
  PROVE  IInv'
<1> DEFINE h == [hidden EXCEPT ![c] = "no"]
           next == EffectiveDims(dims, h)
           m == Synced("reanchor", out)
<1>1. Typed /\ HostInv
  BY DEF IInv
<1>2. dims \in [Conns -> Boxes \cup {0}] /\ hidden \in [Conns -> Hiding] /\ out \in Nat
  BY <1>1 DEF Typed, HostTyped, Hiding
<1>3. h \in [Conns -> Hiding] /\ h[c] = "no" /\ \A k \in Conns : k # c => h[k] = hidden[k]
  BY <1>2 DEF Hiding
<1>4. /\ c \in sockets /\ Heard(c) /\ epoch # 0
      /\ UNCHANGED <<stream, nudge, open, req, sockets, pane>>
      /\ IF hidden[c] = "diverged" THEN inbox' = Sent(c, <<m>>) ELSE UNCHANGED inbox
      /\ IF hidden[c] = "diverged" /\ next \in {0, size}
         THEN Nudge(size) /\ dims' = dims /\ hidden' = h /\ UNCHANGED <<size, lastResize>>
         ELSE Apply(next, dims, h, FALSE)
      /\ Repaints(owed \cup IF hidden[c] = "diverged" THEN {c} ELSE {})
  BY DEF HandleShow
<1>5. Resized(dims, h) /\ next \in {0, size'}
  <2>1. CASE hidden[c] = "diverged" /\ next \in {0, size}
    <3>1. Nudge(size) /\ dims' = dims /\ hidden' = h /\ UNCHANGED <<size, lastResize>>
      BY <1>4, <2>1
    <3> QED
      BY <1>1, <1>3, <2>1, <3>1, NudgeResized
  <2>2. CASE ~(hidden[c] = "diverged" /\ next \in {0, size})
    <3>1. Apply(next, dims, h, FALSE)
      BY <1>4, <2>2
    <3> QED
      BY <1>1, <1>2, <1>3, <3>1, ApplyAll
  <2> QED
    BY <2>1, <2>2
<1>6. nudge' \in BOOLEAN /\ owed' \subseteq sockets
  <2>1. nudge' \in BOOLEAN /\ owed \subseteq sockets
    BY <1>1, <1>4 DEF Typed, HostTyped
  <2>2. owed \cup (IF hidden[c] = "diverged" THEN {c} ELSE {}) \subseteq sockets
    BY <1>4, <2>1
  <2> QED
    BY <1>4, <2>1, <2>2, RepaintsFacts
<1>7. m \in Frame /\ <<m>> \in Seq(Frame) /\ \A s \in Seq(Frame) : s \o <<m>> = Append(s, m)
  <2>1. m \in Step
    BY <1>1 DEF Synced, Step, Typed, HostTyped
  <2>2. m \in Frame
    BY <1>2, <1>4, <2>1 DEF Frame, Synced
  <2> QED
    BY <2>2
<1>8. inbox' \in [Panes -> Seq(Frame)]
  BY <1>1, <1>4, <1>7, SentFacts DEF Typed, PaneTyped
<1>9. ASSUME NEW p \in Panes \ muddled, Own(p) = c, hidden[c] = "diverged"
      PROVE  PaneInv(p)'
  <2>1. inbox'[p] = Append(inbox[p], m)
    <3>1. inbox'[p] = inbox[p] \o <<m>>
      BY <1>1, <1>4, <1>7, <1>9, SentFacts
    <3> QED
      BY <1>1, <1>7, <3>1 DEF Typed, PaneTyped
  <2>2. Grown /\ NearAt(p)
    <3>1. NearAt(p)
      BY <1>4 DEF NearAt, pane, link, screen
    <3>2. Grown
      BY <1>1, <1>4, <1>5 DEF Grown, Typed, HostTyped, stream, Resized
    <3> QED
      BY <3>1, <3>2
  <2>3. Sure(p) /\ FarEpoch(p) = epoch /\ FarEnd(p) <= lastResize
    BY <1>4, <1>9 DEF IInv, PaneInv, InStep
  <2>4. FarEnd(p) <= lastResize'
    BY <1>1, <1>4, <1>5, <2>3, FarTypes DEF Resized, Typed, HostTyped, stream
  <2>5. hidden'[c] = "no"
    BY <1>3, <1>5 DEF Resized
  <2>6. conn[p] # 0 /\ req'[Own(p)] = NoRequest
    BY <1>1, <1>4, <1>9 DEF Own, Conns, HostInv
  <2>7. m.type = "synced" /\ m.mode # "exact" /\ m.epoch = epoch /\ m.upto = out
    BY DEF Synced
  <2>8. /\ epoch' = epoch /\ out' = out /\ epochs' = epochs /\ epoch <= epochs
    BY <1>1, <1>4 DEF stream, Typed, HostTyped
  <2> HIDE DEF m, h
  <2> QED
    BY <1>1, <1>2, <1>7, <1>9, <2>1, <2>2, <2>3, <2>4, <2>5, <2>6, <2>7, <2>8, Joined DEF IInv
<1>10. ASSUME NEW p \in Panes \ muddled
       PROVE  \/ /\ inbox'[p] = inbox[p]
                 /\ Own(p) = c => (h[c] = "diverged" <=> hidden[c] = "diverged")
              \/ PaneInv(p)'
  <2>1. CASE hidden[c] = "diverged" /\ Own(p) = c
    BY <1>9, <2>1
  <2>2. CASE hidden[c] = "diverged" /\ Own(p) # c
    BY <1>1, <1>4, <1>7, <2>2, SentFacts
  <2>3. CASE hidden[c] # "diverged"
    BY <1>3, <1>4, <2>3
  <2> QED
    BY <2>1, <2>2, <2>3
<1> HIDE DEF h, m
<1> QED
  BY <1>2, <1>3, <1>4, <1>5, <1>6, <1>8, <1>10, Handled

-----------------------------------------------------------------------------
(* A byte of output.                                                       *)

LEMMA BytesFacts ==
  ASSUME Typed, epoch # 0, NEW from \in Nat, NEW upto \in Nat, from <= upto
  PROVE  /\ Bytes(from, upto) \in Frame
         /\ Bytes(from, upto).type = "bytes" /\ Bytes(from, upto).epoch = epoch
         /\ Bytes(from, upto).from = from /\ Bytes(from, upto).upto = upto
<1>1. Bytes(from, upto) \in Step
  BY DEF Bytes, Step, Typed, HostTyped
<1> QED
  BY <1>1 DEF Bytes, Frame

LEMMA OutputStep ==
  ASSUME IInv, Output
  PROVE  IInv'
<1>1. Typed /\ HostInv
  BY DEF IInv
<1>2. /\ epoch # 0 /\ out' = out + 1 /\ layout' = Append(layout, size)
      /\ first' = Max({first, out' - RingCap})
      /\ UNCHANGED <<epoch, epochs, nudge, req, outbox, pane>>
  BY DEF Output
<1>3. PICK stuck \in SUBSET {c \in sockets \cap open : hidden[c] # "diverged"} :
        LET gone == (sockets \ open) \cup stuck
            step == {c \in sockets \ gone : hidden[c] = "step"}
            live == {c \in sockets \ gone : hidden[c] = "no"}
        IN  /\ Detach(gone)
            /\ open' = open \ gone
            /\ \E late \in SUBSET step :
                 /\ lastResize' = lastResize => late = {}
                 /\ inbox' = [p \in Panes |-> IF <<p, conn[p]>> \in live \cup (step \ late)
                                              THEN Append(inbox[p], Bytes(out, out'))
                                              ELSE inbox[p]]
            /\ Repaints(owed \ gone)
  BY Zenon DEF Output
<1> DEFINE gone == (sockets \ open) \cup stuck
           step == {c \in sockets \ gone : hidden[c] = "step"}
           live == {c \in sockets \ gone : hidden[c] = "no"}
           d == Without(dims, gone, 0)
           h == Without(hidden, gone, "no")
           m == Bytes(out, out')
<1>4. Detach(gone) /\ open' = open \ gone /\ owed' \in {{}, owed \ gone}
  BY <1>3, RepaintsFacts
<1>5. PICK late \in SUBSET step :
        /\ lastResize' = lastResize => late = {}
        /\ inbox' = [p \in Panes |-> IF <<p, conn[p]>> \in live \cup (step \ late)
                                     THEN Append(inbox[p], m) ELSE inbox[p]]
  BY <1>3
<1>6. /\ epoch \in 0..epochs /\ epochs \in Nat /\ out \in Nat /\ first \in 0..out
      /\ lastResize \in -1..out /\ layout \in Seq(Nat) /\ Len(layout) = out
      /\ size \in Nat \ {0} /\ sockets \subseteq Conns /\ open \subseteq Conns
      /\ owed \subseteq sockets
      /\ dims \in [Conns -> Boxes \cup {0}] /\ hidden \in [Conns -> Hiding]
      /\ req \in [Conns -> [kind : {"idle", "none", "anchor", "new"}, epoch : Nat, seq : Nat]]
      /\ outbox \in [Conns -> Seq(Reports)] /\ RingCap \in Nat \ {0}
  BY <1>1, OutputAssumption DEF Typed, HostTyped, Hiding
<1>7. gone \in SUBSET Conns
  BY <1>6
<1>8. sockets' = sockets \ gone /\ Resized(d, h) /\ SmallestVisible'
  BY <1>1, <1>4, <1>7, DetachFacts
<1>9. \A c \in Conns \ gone : h[c] = hidden[c]
  BY DEF Without
<1>10. d \in [Conns -> Boxes \cup {0}]
  BY <1>6 DEF Without
<1>11. m \in Frame /\ m.type = "bytes" /\ m.epoch = epoch /\ m.from = out /\ m.upto = out'
  BY <1>1, <1>2, <1>6, BytesFacts
<1>12. /\ first' \in first..out' /\ lastResize' \in {lastResize, out'} /\ Grown
  <2>1. first' = IF first >= out' - RingCap THEN first ELSE out' - RingCap
    BY <1>2, <1>6, MaxOfTwo
  <2>2. lastResize' \in {lastResize, out'}
    BY <1>8 DEF Resized
  <2> QED
    BY <1>2, <1>6, <2>1, <2>2 DEF Grown
<1> HIDE DEF gone, step, live, d, h, m
<1>13. HostInv'
  <2>1. epoch' # 0 /\ \A c \in sockets' : req'[c] = NoRequest
    BY <1>1, <1>2, <1>8 DEF HostInv
  <2>2. NudgeIsUndone'
    BY <1>2, <1>8 DEF Resized, NudgeIsUndone
  <2>3. ASSUME NEW i \in 1..out', i > lastResize'
        PROVE  layout'[i] \in {0, size'}
    <3>1. lastResize' = lastResize /\ size' = size /\ out' = out + 1
      BY <1>2, <1>6, <1>8, <1>12, <2>3 DEF Resized
    <3>2. CASE i = out + 1
      BY <1>2, <1>6, <3>1, <3>2, AppendFacts
    <3>3. CASE i # out + 1
      <4>1. i \in 1..out /\ i > lastResize
        BY <1>6, <2>3, <3>1, <3>3
      <4>2. layout'[i] = layout[i]
        BY <1>2, <1>6, <4>1, AppendFacts
      <4> QED
        BY <1>1, <3>1, <4>1, <4>2 DEF HostInv
    <3> QED
      BY <3>2, <3>3
  <2> QED
    BY <1>8, <2>1, <2>2, <2>3 DEF HostInv
<1>14. HostTyped'
  <2>1. /\ epochs' \in Nat /\ epoch' \in 0..epochs' /\ out' \in Nat /\ first' \in 0..out'
        /\ lastResize' \in -1..out'
    BY <1>2, <1>6, <1>12
  <2>2. layout' \in Seq(Nat) /\ Len(layout') = out'
    <3>1. size \in Nat /\ layout \in Seq(Nat)
      BY <1>6
    <3>2. Append(layout, size) \in Seq(Nat) /\ Len(Append(layout, size)) = Len(layout) + 1
      BY <3>1, AppendFacts
    <3> QED
      BY <1>2, <1>6, <3>2
  <2>3. size' \in Nat \ {0} /\ kernel' \in Nat \ {0}
    BY <1>8 DEF Resized
  <2>4. restoring' \in BOOLEAN
    BY <1>8 DEF Resized
  <2>5. nudge' \in BOOLEAN
    BY <1>1, <1>2 DEF Typed, HostTyped
  <2>6. open' \subseteq Conns /\ sockets' \subseteq Conns /\ owed' \subseteq sockets'
    BY <1>4, <1>6, <1>8
  <2>7. dims' \in [Conns -> Boxes \cup {0}] /\ hidden' \in [Conns -> {"no", "step", "diverged"}]
    BY <1>8, <1>10 DEF Resized, Hiding
  <2> QED
    BY <1>2, <1>6, <2>1, <2>2, <2>3, <2>4, <2>5, <2>6, <2>7 DEF HostTyped
<1>15. PaneTyped'
  <2>1. inbox \in [Panes -> Seq(Frame)]
    BY <1>1 DEF Typed, PaneTyped
  <2>2. \A p \in Panes : inbox[p] \in Seq(Frame) /\ Append(inbox[p], m) \in Seq(Frame)
    BY <1>11, <2>1, AppendFacts
  <2>3. inbox' \in [Panes -> Seq(Frame)]
    BY <1>5, <2>2
  <2> QED
    BY <1>1, <1>2, <2>3 DEF Typed, PaneTyped, pane, link, screen
<1>16. ASSUME NEW p \in Panes \ muddled
       PROVE  PaneInv(p)'
  <2>1. NearAt(p) /\ PaneInv(p)
    BY <1>2 DEF IInv, NearAt, pane, link, screen
  <2>2. Own(p) = <<p, conn[p]>>
    BY DEF Own
  <2>3. CASE Own(p) \in live \cup (step \ late)
    <3>1. inbox'[p] = Append(inbox[p], m)
      BY <1>5, <2>2, <2>3
    <3>2. Own(p) \in sockets /\ hidden[Own(p)] # "diverged"
      BY <2>3 DEF live, step
    <3>3. Sure(p) /\ FarEpoch(p) = epoch /\ FarEnd(p) = out
      BY <2>1, <3>2 DEF PaneInv, InStep
    <3>4. conn[p] # 0 /\ req'[Own(p)] = NoRequest
      BY <1>1, <1>2, <1>6, <2>2, <3>2 DEF Conns, HostInv
    <3>5. hidden'[Own(p)] = "diverged" => lastResize' = out'
      <4>1. Own(p) \in Conns \ gone
        BY <1>6, <2>3, <3>2 DEF live, step
      <4> QED
        BY <1>8, <1>9, <3>2, <4>1 DEF Resized
    <3>6. /\ m.epoch <= epochs' /\ (epoch' # 0 /\ m.epoch = epoch' => m.upto <= out')
          /\ m.epoch = FarEpoch(p) /\ m.from = FarEnd(p) /\ m.epoch = epoch'
          /\ IF hidden'[Own(p)] = "diverged" THEN m.upto <= lastResize' ELSE m.upto = out'
      BY <1>2, <1>6, <1>11, <3>3, <3>5
    <3> QED
      BY <1>1, <1>11, <1>12, <2>1, <3>1, <3>3, <3>4, <3>6, Joined
  <2>4. CASE Own(p) \notin live \cup (step \ late)
    <3>1. SameAt(p)
      BY <1>5, <2>1, <2>2, <2>4 DEF SameAt
    <3>2. InStep(p)'
      <4> SUFFICES ASSUME Own(p) \in sockets'
                   PROVE  /\ Sure(p) /\ FarEpoch(p) = epoch'
                          /\ hidden'[Own(p)] = "diverged" /\ FarEnd(p) <= lastResize'
        BY <3>1, FarSame DEF InStep
      <4>1. Own(p) \in Conns \ gone /\ Own(p) \in sockets
        BY <1>6, <1>8
      <4>2. Own(p) \in late \/ hidden[Own(p)] = "diverged"
        BY <1>6, <2>4, <4>1 DEF live, step, Hiding
      <4>3. Sure(p) /\ FarEpoch(p) = epoch
        BY <2>1, <4>1 DEF PaneInv, InStep
      <4>4. CASE hidden[Own(p)] = "diverged"
        <5>1. hidden'[Own(p)] = "diverged"
          BY <1>8, <1>9, <4>1, <4>4 DEF Resized
        <5>2. FarEnd(p) <= lastResize /\ FarEnd(p) \in Nat
          BY <1>1, <2>1, <4>1, <4>4, FarTypes DEF PaneInv, InStep
        <5>3. lastResize <= lastResize'
          BY <1>2, <1>6, <1>12
        <5> QED
          BY <1>2, <1>6, <1>12, <4>3, <5>1, <5>2, <5>3
      <4>5. CASE Own(p) \in late
        <5>1. lastResize' # lastResize /\ hidden[Own(p)] = "step"
          BY <1>5, <4>5 DEF step
        <5>2. hidden'[Own(p)] = "diverged"
          BY <1>8, <1>9, <4>1, <5>1 DEF Resized, Hiding
        <5>3. FarEnd(p) = out
          BY <2>1, <4>1, <5>1 DEF PaneInv, InStep
        <5> QED
          BY <1>2, <1>6, <1>12, <4>3, <5>1, <5>2, <5>3
      <4> QED
        BY <4>2, <4>4, <4>5
    <3>3. \A c \in Conns : req'[c] \in {req[c], NoRequest}
      BY <1>2
    <3>4. conn[p] # 0 => Own(p) \in Conns
      BY <1>1, <2>2, PaneTypes DEF Conns
    <3> QED
      BY <1>1, <1>12, <2>1, <3>1, <3>2, <3>3, <3>4, PaneStays
  <2> QED
    BY <2>3, <2>4
<1> QED
  BY <1>2, <1>13, <1>14, <1>15, <1>16 DEF IInv, Typed, pane

-----------------------------------------------------------------------------
(* What a client is greeted with: the preface, a position, and what there  *)
(* is from there on.                                                       *)

Greets(messages, k, mode, n) ==
  /\ messages \in Seq(Frame) /\ Len(messages) \in {k, k + 1}
  /\ \A i \in 1..(k - 1) :
       messages[i].type \in Ahead /\ messages[i].epoch = 0 /\ messages[i].upto = 0
       /\ (messages[i].type = "attached" => i = 1)
  /\ messages[k] = Synced(mode, n)
  /\ IF Len(messages) = k THEN n = out ELSE n < out /\ messages[k + 1] = Bytes(n, out)

LEMMA PlainFacts ==
  ASSUME NEW type \in Ahead
  PROVE  /\ Plain(type) \in Frame /\ Plain(type).type = type
         /\ Plain(type).epoch = 0 /\ Plain(type).upto = 0
  BY DEF Plain, Frame, Step, Ahead

LEMMA SyncedFacts ==
  ASSUME Typed, epoch # 0, NEW mode \in {"exact", "tail", "reanchor"}, NEW n \in Nat
  PROVE  /\ Synced(mode, n) \in Frame
         /\ Synced(mode, n).type = "synced" /\ Synced(mode, n).mode = mode
         /\ Synced(mode, n).epoch = epoch
         /\ Synced(mode, n).from = n /\ Synced(mode, n).upto = n
<1>1. Synced(mode, n) \in Step
  BY DEF Synced, Step, Typed, HostTyped
<1> QED
  BY <1>1 DEF Synced, Frame

LEMMA AnswerFacts ==
  ASSUME Typed, epoch # 0,
         NEW r \in [kind : {"idle", "none", "anchor", "new"}, epoch : Nat, seq : Nat]
  PROVE  \E mode \in {"exact", "tail", "reanchor"} : \E n \in 0..out :
           /\ Answer(r) = <<Synced(mode, n)>> \o CatchUp(n)
           /\ IF Exact(r) THEN mode = "exact" /\ n = r.seq ELSE mode # "exact"
<1>1. out \in Nat /\ first \in 0..out /\ r.seq \in Nat
  BY DEF Typed, HostTyped
<1>2. CASE Exact(r)
  BY <1>1, <1>2 DEF Answer, Exact
<1>3. CASE ~Exact(r) /\ r.kind = "new"
  BY <1>1, <1>3 DEF Answer
<1>4. CASE ~Exact(r) /\ r.kind # "new"
  <2>1. CatchUp(out) = <<>>
    BY <1>1 DEF CatchUp
  <2>2. <<Synced("reanchor", out)>> \o <<>> = <<Synced("reanchor", out)>>
    OBVIOUS
  <2>3. Answer(r) = <<Synced("reanchor", out)>> \o CatchUp(out)
    BY <1>4, <2>1, <2>2 DEF Answer
  <2> QED
    BY <1>1, <1>4, <2>3
<1> QED
  BY <1>2, <1>3, <1>4

LEMMA GreetingFacts ==
  ASSUME Typed, epoch # 0, NEW preamble \in {<<>>, <<Plain("preamble")>>},
         NEW mode \in {"exact", "tail", "reanchor"}, NEW n \in 0..out
  PROVE  \E k \in {2, 3} :
            Greets(<<Plain("attached")>> \o preamble \o (<<Synced(mode, n)>> \o CatchUp(n)),
                   k, mode, n)
<1> DEFINE a == Plain("attached")
           b == Plain("preamble")
           s == Synced(mode, n)
           rest == Bytes(n, out)
<1>1. out \in Nat /\ n \in Nat /\ n <= out
  BY DEF Typed, HostTyped
<1>2. a \in Frame /\ b \in Frame /\ s \in Frame /\ rest \in Frame
  BY <1>1, PlainFacts, SyncedFacts, BytesFacts DEF Ahead
<1>3. /\ a.type = "attached" /\ a.epoch = 0 /\ a.upto = 0
      /\ b.type = "preamble" /\ b.epoch = 0 /\ b.upto = 0
  BY PlainFacts DEF Ahead
<1>4. CatchUp(n) = IF n < out THEN <<rest>> ELSE <<>>
  BY DEF CatchUp
<1>5. s = Synced(mode, n) /\ rest = Bytes(n, out) /\ preamble \in {<<>>, <<b>>}
  OBVIOUS
<1> HIDE DEF a, b, s, rest
<1>6. \A e \in Frame : <<e>> \in Seq(Frame) /\ Len(<<e>>) = 1 /\ <<e>>[1] = e
  OBVIOUS
<1>7. <<>> \in Seq(Frame) /\ Len(<<>>) = 0
  OBVIOUS
<1> DEFINE cu == CatchUp(n)
           t == <<a>> \o preamble
           u == <<s>> \o cu
           w == t \o u
<1>8. preamble \in Seq(Frame) /\ Len(preamble) \in {0, 1} /\ (Len(preamble) = 1 => preamble[1] = b)
  <2>1. CASE preamble = <<>>
    <3>1. preamble \in Seq(Frame)
      BY <2>1
    <3>2. Len(preamble) = 0
      BY <2>1
    <3> QED
      BY <3>1, <3>2
  <2>2. CASE preamble = <<b>>
    <3>1. <<b>> \in Seq(Frame) /\ Len(<<b>>) = 1 /\ <<b>>[1] = b
      BY <1>2
    <3> QED
      BY <2>2, <3>1
  <2> QED
    BY <1>5, <2>1, <2>2
<1>9. /\ cu \in Seq(Frame)
      /\ IF n < out THEN Len(cu) = 1 /\ cu[1] = rest ELSE Len(cu) = 0
  BY <1>2, <1>4, <1>6, <1>7
<1>10. /\ t \in Seq(Frame) /\ Len(t) = 1 + Len(preamble)
       /\ \A i \in 1..(1 + Len(preamble)) : t[i] = IF i <= 1 THEN <<a>>[i] ELSE preamble[i - 1]
  BY <1>2, <1>8, <1>6, ConcatFacts
<1> HIDE DEF cu
<1>11. /\ u \in Seq(Frame) /\ Len(u) = 1 + Len(cu)
       /\ \A i \in 1..(1 + Len(cu)) : u[i] = IF i <= 1 THEN <<s>>[i] ELSE cu[i - 1]
  BY <1>2, <1>9, <1>6, ConcatFacts
<1> HIDE DEF t, u
<1>12. /\ w \in Seq(Frame) /\ Len(w) = Len(t) + Len(u)
       /\ \A i \in 1..(Len(t) + Len(u)) : w[i] = IF i <= Len(t) THEN t[i] ELSE u[i - Len(t)]
  BY <1>10, <1>11, ConcatFacts
<1> HIDE DEF w
<1>13. Len(t) \in {1, 2} /\ t[1] = a /\ (Len(t) = 2 => t[2] = b)
  BY <1>2, <1>8, <1>6, <1>10
<1>14. u[1] = s /\ IF n < out THEN Len(u) = 2 /\ u[2] = rest ELSE Len(u) = 1
  BY <1>2, <1>9, <1>6, <1>11
<1>15. Greets(w, Len(t) + 1, mode, n)
  <2>1. ASSUME NEW i \in 1..Len(t)
        PROVE  w[i] \in {a, b} /\ (w[i] = a => i = 1)
    BY <1>3, <1>12, <1>13, <1>14
  <2>2. w[Len(t) + 1] = s
    BY <1>12, <1>13, <1>14
  <2>3. IF n < out THEN Len(w) = Len(t) + 2 /\ w[Len(t) + 2] = rest ELSE Len(w) = Len(t) + 1
    BY <1>12, <1>13, <1>14
  <2> QED
    BY <1>1, <1>3, <1>5, <1>12, <1>13, <2>1, <2>2, <2>3 DEF Greets, Ahead
<1> QED
  BY <1>13, <1>15 DEF a, s, w, t, u, cu

LEMMA Greeted ==
  ASSUME IInv, Grown, NEW c \in Conns, NEW p \in Panes \ muddled, Own(p) = c, NearAt(p), epoch # 0,
         req[c] # NoRequest, req'[c] = NoRequest, hidden'[c] = "no",
         UNCHANGED <<stream, lastResize>>,
         NEW messages, NEW k \in {2, 3}, NEW mode \in {"exact", "tail", "reanchor"},
         NEW n \in 0..out, Greets(messages, k, mode, n), inbox'[p] = messages,
         IF Exact(req[c]) THEN mode = "exact" /\ n = req[c].seq ELSE mode # "exact"
  PROVE  PaneInv(p)'
<1>1. Typed /\ PaneInv(p) /\ epoch' = epoch /\ out' = out /\ epochs' = epochs /\ first' = first
  BY DEF IInv, stream
<1>2. /\ out \in Nat /\ n \in Nat /\ n <= out
      /\ epochs \in Nat /\ epoch \in Nat /\ epoch <= epochs
  BY <1>1 DEF Typed, HostTyped
<1>3. conn[p] # 0 /\ inbox[p] = <<>> /\ Still(p)
  BY <1>1 DEF Own, Conns, PaneInv, Asked
<1>4. /\ messages[k].type = "synced" /\ messages[k].mode = mode /\ messages[k].epoch = epoch
      /\ messages[k].from = n /\ messages[k].upto = n
  BY <1>1, <1>2, SyncedFacts DEF Greets
<1>5. Len(messages) # k => /\ messages[k + 1].type = "bytes" /\ messages[k + 1].epoch = epoch
                           /\ messages[k + 1].from = n /\ messages[k + 1].upto = out
  BY <1>1, <1>2, BytesFacts DEF Greets
<1>6. \A i \in 1..(k - 1) :
        messages[i].type \in Ahead /\ messages[i].epoch = 0 /\ messages[i].upto = 0
        /\ (messages[i].type = "attached" => i = 1)
  BY DEF Greets
<1>7. Len(messages) \in {k, k + 1} /\ (Len(messages) = k => n = out)
  BY DEF Greets
<1>8. Still(p)' /\ Tip(p)' = Tip(p) /\ Own(p)' = c
  BY <1>3, TipSame DEF Still, NearAt, Own
<1>9. Screen(p)' /\ Queue(p)'
  BY <1>1, <1>3, ScreenGrows DEF PaneInv
<1>10. Orderly(p)'
  <2>1. ASSUME NEW i \in 1..(k - 1)
        PROVE  OrderlyAt(p, i)'
    <3>1. messages[i].type \notin Numbered
      BY <1>6 DEF Ahead, Numbered
    <3>2. \A j \in 1..(i - 1) : j \in 1..(k - 1)
      OBVIOUS
    <3>3. Preface(p, i)'
      BY <1>6, <1>8, <3>2 DEF Preface, OnlyAhead
    <3>4. Follow(p, i)' /\ Resume(p, i)' /\ Moved(p, i)'
      BY <3>1 DEF Follow, Resume, Moved, Numbered
    <3>5. Within(inbox[p][i].epoch, inbox[p][i].upto)'
      <4>1. inbox'[p][i].epoch = 0 /\ inbox'[p][i].upto = 0
        BY <1>6
      <4> QED
        BY <1>1, <1>2, <4>1 DEF Within
    <3> QED
      BY <3>3, <3>4, <3>5 DEF OrderlyAt
  <2>2. OrderlyAt(p, k)'
    <3>1. messages[k - 1].type \notin Numbered
      BY <1>6 DEF Ahead, Numbered
    <3>2. Preface(p, k)' /\ Follow(p, k)'
      BY <1>4 DEF Preface, Follow, Ahead
    <3>3. Resume(p, k)'
      <4> SUFFICES ASSUME mode = "exact"
                   PROVE  /\ Still(p)' /\ OnlyAhead(p, k)'
                          /\ anchor'[p] = [epoch |-> epoch, seq |-> n]
        BY <1>4 DEF Resume
      <4>1. Exact(req[c]) /\ n = req[c].seq
        OBVIOUS
      <4>2. req[c].kind = "anchor" /\ req[c].epoch = epoch
        BY <4>1 DEF Exact
      <4>3. anchor[p] = [epoch |-> req[c].epoch, seq |-> req[c].seq]
        BY <1>1, <1>3, <4>2 DEF PaneInv, Asked
      <4> QED
        BY <1>6, <1>8, <4>1, <4>2, <4>3 DEF OnlyAhead, NearAt
    <3>4. Moved(p, k)'
      <4> SUFFICES ASSUME mode # "exact", anchor[p] # NoAnchor
                   PROVE  Gone(painted[p].epoch, Tip(p))
        BY <1>1, <1>4, <1>8, <3>1 DEF Moved, NearAt, Gone
      <4>1. ~Exact(req[c])
        OBVIOUS
      <4>2. /\ req[c].kind = "anchor" /\ anchor[p] = [epoch |-> req[c].epoch, seq |-> req[c].seq]
        BY <1>1, <1>3 DEF PaneInv, Asked
      <4>3. painted[p].epoch = req[c].epoch /\ Tip(p) = req[c].seq
        BY <1>1, <1>3, <4>2 DEF PaneInv, Screen, Marks, Tip, Still
      <4>4. painted[p].epoch = epoch => Tip(p) <= out
        BY <1>1 DEF PaneInv, Screen, Within
      <4>5. Tip(p) \in Nat /\ first \in Nat /\ lastResize \in Int
        BY <1>1, PaneTypes DEF Typed, HostTyped
      <4> QED
        BY <1>2, <4>1, <4>2, <4>3, <4>4, <4>5 DEF Exact, Gone
    <3>5. Within(inbox[p][k].epoch, inbox[p][k].upto)'
      BY <1>1, <1>2, <1>4 DEF Within
    <3> QED
      BY <3>2, <3>3, <3>4, <3>5 DEF OrderlyAt
  <2>3. Len(messages) # k => OrderlyAt(p, k + 1)'
    <3> SUFFICES ASSUME Len(messages) # k
                 PROVE  OrderlyAt(p, k + 1)'
      OBVIOUS
    <3>1. /\ inbox'[p][k + 1].type = "bytes" /\ inbox'[p][k + 1].epoch = epoch
          /\ inbox'[p][k + 1].from = n /\ inbox'[p][k + 1].upto = out
      BY <1>5
    <3>2. k + 1 # 1 /\ (k + 1) - 1 = k
      OBVIOUS
    <3>3. Follow(p, k + 1)'
      BY <1>4, <3>1, <3>2 DEF Follow, Numbered
    <3>4. Preface(p, k + 1)' /\ Resume(p, k + 1)' /\ Moved(p, k + 1)'
      BY <3>1 DEF Preface, Resume, Moved, Ahead
    <3>5. Within(inbox[p][k + 1].epoch, inbox[p][k + 1].upto)'
      BY <1>1, <1>2, <3>1 DEF Within
    <3> QED
      BY <3>3, <3>4, <3>5 DEF OrderlyAt
  <2>4. \A i \in 1..Len(messages) : i \in 1..(k - 1) \/ i = k \/ (i = k + 1 /\ Len(messages) # k)
    BY <1>7
  <2> QED
    BY <2>1, <2>2, <2>3, <2>4 DEF Orderly
<1>11. InStep(p)'
  <2>1. Len(messages) # 0 /\ messages # <<>>
    BY <1>7
  <2>2. /\ messages[Len(messages)].type \in Numbered /\ messages[Len(messages)].epoch = epoch
        /\ messages[Len(messages)].upto = out
    BY <1>4, <1>5, <1>7 DEF Numbered
  <2>3. Sure(p)' /\ FarEpoch(p)' = epoch /\ FarEnd(p)' = out
    BY <2>1, <2>2 DEF Sure, FarEpoch, FarEnd, LastOf
  <2> QED
    BY <1>1, <1>8, <2>3 DEF InStep
<1>12. Asked(p)'
  BY <1>8 DEF Asked
<1> QED
  BY <1>9, <1>10, <1>11, <1>12 DEF PaneInv

LEMMA AttachStep ==
  ASSUME IInv, NEW c \in Conns, Attach(c)
  PROVE  IInv'
<1>1. Typed /\ HostInv
  BY DEF IInv
<1>2. /\ epoch # 0 /\ req[c] # NoRequest /\ sockets' = sockets \cup {c}
      /\ req' = [req EXCEPT ![c] = NoRequest]
      /\ UNCHANGED <<stream, size, kernel, restoring, lastResize, open, dims, hidden, outbox, pane>>
  BY DEF Attach
<1>3. PICK preamble \in {<<>>, <<Plain("preamble")>>} :
        inbox' = Sent(c, <<Plain("attached")>> \o preamble \o Answer(req[c]))
  BY DEF Attach
<1>4. req[c] \in [kind : {"idle", "none", "anchor", "new"}, epoch : Nat, seq : Nat]
  BY <1>1 DEF Typed, HostTyped
<1>5. PICK mode \in {"exact", "tail", "reanchor"}, n \in 0..out :
        /\ Answer(req[c]) = <<Synced(mode, n)>> \o CatchUp(n)
        /\ IF Exact(req[c]) THEN mode = "exact" /\ n = req[c].seq ELSE mode # "exact"
  BY <1>1, <1>2, <1>4, AnswerFacts
<1> DEFINE messages == <<Plain("attached")>> \o preamble \o (<<Synced(mode, n)>> \o CatchUp(n))
<1>6. PICK k \in {2, 3} : Greets(messages, k, mode, n)
  BY <1>1, <1>2, GreetingFacts
<1>7. inbox' = Sent(c, messages) /\ messages \in Seq(Frame)
  BY <1>3, <1>5, <1>6 DEF Greets
<1> HIDE DEF messages
<1>8. /\ inbox' \in [Panes -> Seq(Frame)]
      /\ \A p \in Panes : \/ Own(p) = c /\ inbox'[p] = inbox[p] \o messages
                          \/ Own(p) # c /\ inbox'[p] = inbox[p]
  BY <1>1, <1>7, SentFacts
<1>9. /\ c \notin sockets /\ hidden'[c] = "no" /\ req'[c] = NoRequest
      /\ \A k2 \in Conns : k2 # c => req'[k2] = req[k2]
  BY <1>1, <1>2 DEF HostInv, SmallestVisible, Typed, HostTyped
<1>10. Grown
  BY <1>1, <1>2 DEF Grown, Typed, HostTyped, stream
<1>11. HostInv'
  <2>1. epoch' # 0
    BY <1>2 DEF stream
  <2>2. \A k2 \in sockets' : req'[k2] = NoRequest
    BY <1>1, <1>2, <1>9 DEF HostInv, Typed, HostTyped
  <2>3. SmallestVisible'
    <3>1. EffectiveDims(dims', hidden') = EffectiveDims(dims, hidden)
      BY <1>2
    <3> QED
      BY <1>1, <1>2, <3>1 DEF HostInv, SmallestVisible
  <2>4. NudgeIsUndone'
    BY <1>1, <1>2 DEF HostInv, NudgeIsUndone, stream
  <2> QED
    BY <1>1, <1>2, <2>1, <2>2, <2>3, <2>4 DEF HostInv, stream
<1>12. HostTyped'
  <2>1. nudge' \in BOOLEAN
    BY <1>1, Zenon DEF Typed, HostTyped, Attach
  <2>2. owed' \in {owed, owed \cup {c}}
    BY Zenon DEF Attach
  <2>3. req' \in [Conns -> [kind : {"idle", "none", "anchor", "new"}, epoch : Nat, seq : Nat]]
    BY <1>1, <1>2 DEF Typed, HostTyped, NoRequest
  <2>4. sockets' \subseteq Conns /\ owed' \subseteq sockets'
    BY <1>1, <1>2, <2>2 DEF Typed, HostTyped
  <2> QED
    BY <1>1, <1>2, <2>1, <2>3, <2>4 DEF Typed, HostTyped, stream
<1>13. PaneTyped'
  BY <1>1, <1>2, <1>8 DEF Typed, PaneTyped, pane, link, screen
<1>14. ASSUME NEW p \in Panes \ muddled
       PROVE  PaneInv(p)'
  <2>1. NearAt(p) /\ PaneInv(p)
    BY <1>2 DEF IInv, NearAt, pane, link, screen
  <2>2. conn[p] # 0 => Own(p) \in Conns
    BY <1>1, PaneTypes DEF Conns, Own
  <2>3. CASE Own(p) = c
    <3>1. inbox[p] = <<>>
      BY <1>2, <2>1, <2>3 DEF PaneInv, Asked, Own, Conns
    <3>2. inbox'[p] = messages
      BY <1>7, <1>8, <2>3, <3>1
    <3>3. UNCHANGED <<stream, lastResize>> /\ epoch # 0 /\ req[c] # NoRequest
      BY <1>2
    <3>4. req'[c] = NoRequest /\ hidden'[c] = "no"
      BY <1>9
    <3>5. IF Exact(req[c]) THEN mode = "exact" /\ n = req[c].seq ELSE mode # "exact"
      BY <1>5
    <3> QED
      BY <1>6, <1>10, <2>1, <2>3, <3>2, <3>3, <3>4, <3>5, Greeted
  <2>4. CASE Own(p) # c
    <3>1. SameAt(p)
      BY <1>8, <2>1, <2>4 DEF SameAt
    <3>2. InStep(p)'
      BY <1>1, <1>2, <2>1, <2>4, <3>1, InStepStays DEF PaneInv, stream
    <3> QED
      BY <1>1, <1>9, <1>10, <2>1, <2>2, <2>4, <3>1, <3>2, PaneStays
  <2> QED
    BY <2>3, <2>4
<1> QED
  BY <1>2, <1>11, <1>12, <1>13, <1>14 DEF IInv, Typed, pane

-----------------------------------------------------------------------------
(* A pane reads the next message.                                          *)

LEMMA ShiftFacts ==
  ASSUME Typed, NEW p \in Panes, inbox[p] # <<>>, inbox'[p] = Tail(inbox[p])
  PROVE  /\ Len(inbox[p]) \in Nat \ {0} /\ Len(inbox'[p]) = Len(inbox[p]) - 1
         /\ inbox'[p] \in Seq(Frame) /\ inbox[p][1] = Head(inbox[p]) /\ inbox[p][1] \in Frame
         /\ \A i \in 1..Len(inbox'[p]) :
              /\ inbox'[p][i] = inbox[p][i + 1] /\ i + 1 \in 1..Len(inbox[p])
              /\ i # 1 => inbox'[p][i - 1] = inbox[p][i]
         /\ inbox'[p] = <<>> <=> Len(inbox[p]) = 1
         /\ inbox'[p] # <<>> => LastOf(p)' = LastOf(p)
<1>1. inbox[p] \in Seq(Frame)
  BY PaneTypes
<1>2. /\ Len(inbox[p]) \in Nat \ {0} /\ Len(inbox'[p]) = Len(inbox[p]) - 1
      /\ inbox'[p] \in Seq(Frame) /\ inbox[p][1] = Head(inbox[p]) /\ inbox[p][1] \in Frame
      /\ \A i \in 1..(Len(inbox[p]) - 1) : inbox'[p][i] = inbox[p][i + 1]
  BY <1>1, TailFacts
<1>3. \A i \in 1..Len(inbox'[p]) :
        /\ inbox'[p][i] = inbox[p][i + 1] /\ i + 1 \in 1..Len(inbox[p])
        /\ i # 1 => inbox'[p][i - 1] = inbox[p][i]
  <2> SUFFICES ASSUME NEW i \in 1..Len(inbox'[p])
               PROVE  /\ inbox'[p][i] = inbox[p][i + 1] /\ i + 1 \in 1..Len(inbox[p])
                      /\ i # 1 => inbox'[p][i - 1] = inbox[p][i]
    OBVIOUS
  <2>1. inbox'[p][i] = inbox[p][i + 1] /\ i + 1 \in 1..Len(inbox[p])
    BY <1>2
  <2>2. ASSUME i # 1
        PROVE  inbox'[p][i - 1] = inbox[p][i]
    <3>1. i - 1 \in 1..(Len(inbox[p]) - 1) /\ (i - 1) + 1 = i
      BY <1>2, <2>2
    <3> QED
      BY <1>2, <3>1
  <2> QED
    BY <2>1, <2>2
<1>4. inbox'[p] = <<>> <=> Len(inbox[p]) = 1
  <2>1. inbox'[p] = <<>> <=> Len(inbox'[p]) = 0
    BY <1>2, EmptySeq
  <2> QED
    BY <1>2, <2>1
<1>5. inbox'[p] # <<>> => LastOf(p)' = LastOf(p)
  <2> SUFFICES ASSUME inbox'[p] # <<>>
               PROVE  inbox'[p][Len(inbox'[p])] = inbox[p][Len(inbox[p])]
    BY DEF LastOf
  <2>1. Len(inbox'[p]) \in 1..Len(inbox'[p]) /\ Len(inbox'[p]) + 1 = Len(inbox[p])
    BY <1>2, <1>4
  <2> QED
    BY <1>3, <2>1
<1> QED
  BY <1>2, <1>3, <1>4, <1>5

LEMMA Skipped ==
  ASSUME Typed, NEW p \in Panes, PaneInv(p), NearAt(p),
         UNCHANGED <<stream, pty, req, sockets, hidden>>,
         inbox[p] # <<>>, Head(inbox[p]).type \in Ahead, inbox'[p] = Tail(inbox[p])
  PROVE  PaneInv(p)'
<1>1. /\ epoch' = epoch /\ epochs' = epochs /\ out' = out /\ first' = first
      /\ lastResize' = lastResize /\ Grown
  BY DEF Typed, HostTyped, stream, pty, Grown
<1>2. Tip(p)' = Tip(p) /\ Own(p)' = Own(p)
  BY TipSame DEF NearAt, Own
<1>3. conn[p] # 0
  BY DEF PaneInv, Screen
<1>4. inbox[p][1].type \in Ahead /\ inbox[p][1].type \notin Numbered
  BY ShiftFacts DEF Ahead, Numbered
<1>5. Screen(p)' /\ Queue(p)'
  BY <1>1, <1>3, ScreenGrows DEF PaneInv
<1>6. ASSUME NEW i \in 1..Len(inbox'[p])
      PROVE  OrderlyAt(p, i)'
  <2>1. /\ inbox'[p][i] = inbox[p][i + 1] /\ i + 1 \in 1..Len(inbox[p])
        /\ i # 1 => inbox'[p][i - 1] = inbox[p][i]
    BY ShiftFacts
  <2>2. /\ Within(inbox[p][i + 1].epoch, inbox[p][i + 1].upto)
        /\ Preface(p, i + 1) /\ Follow(p, i + 1) /\ Resume(p, i + 1) /\ Moved(p, i + 1)
    BY <2>1 DEF PaneInv, Orderly, OrderlyAt
  <2>3. i \in Nat /\ i + 1 # 1 /\ (i + 1) - 1 = i
    OBVIOUS
  <2>4. OnlyAhead(p, i + 1) => OnlyAhead(p, i)'
    <3> SUFFICES ASSUME OnlyAhead(p, i + 1), NEW j \in 1..(i - 1)
                 PROVE  inbox'[p][j].type \in Ahead
      BY DEF OnlyAhead
    <3>1. j \in 1..Len(inbox'[p]) /\ j + 1 \in 1..((i + 1) - 1)
      BY ShiftFacts
    <3>2. inbox'[p][j] = inbox[p][j + 1]
      BY <3>1, ShiftFacts
    <3> QED
      BY <3>1, <3>2 DEF OnlyAhead
  <2>5. Preface(p, i)'
    BY <2>1, <2>2, <2>3, <2>4 DEF Preface, Still, NearAt
  <2>6. Follow(p, i)'
    BY <1>4, <2>1, <2>2, <2>3 DEF Follow
  <2>7. Resume(p, i)'
    BY <2>1, <2>2, <2>4 DEF Resume, Still, NearAt
  <2>8. Moved(p, i)'
    BY <1>1, <1>2, <1>4, <2>1, <2>2, <2>3 DEF Moved, NearAt, Gone
  <2>9. Within(inbox[p][i].epoch, inbox[p][i].upto)'
    BY <1>1, <2>1, <2>2 DEF Within
  <2> QED
    BY <2>5, <2>6, <2>7, <2>8, <2>9 DEF OrderlyAt
<1>7. InStep(p)'
  <2> SUFFICES ASSUME Own(p) \in sockets
               PROVE  InStep(p)'
    BY <1>2 DEF InStep
  <2>1. Sure(p)
    BY DEF PaneInv, InStep
  <2>2. inbox'[p] # <<>>
    <3>1. LastOf(p).type \in Numbered
      BY <2>1 DEF Sure
    <3> QED
      BY <1>4, <3>1, ShiftFacts DEF LastOf
  <2>3. LastOf(p)' = LastOf(p)
    BY <2>2, ShiftFacts
  <2> QED
    BY <1>1, <1>2, <2>2, <2>3 DEF PaneInv, InStep, Sure, FarEpoch, FarEnd
<1>8. Asked(p)'
  BY <1>2, <1>3 DEF PaneInv, Asked
<1> QED
  BY <1>5, <1>6, <1>7, <1>8 DEF PaneInv, Orderly

LEMMA Consumed ==
  ASSUME Typed, NEW p \in Panes, PaneInv(p), UNCHANGED <<stream, pty, req, sockets, hidden>>,
         inbox[p] # <<>>, NEW m, m = Head(inbox[p]), m.type \in Numbered,
         inbox'[p] = Tail(inbox[p]),
         conn'[p] = conn[p], counting'[p] = TRUE, painted'[p].epoch = m.epoch, Tip(p)' = m.upto
  PROVE  Orderly(p)' /\ InStep(p)' /\ Asked(p)'
<1>1. /\ epoch' = epoch /\ epochs' = epochs /\ out' = out /\ first' = first
      /\ lastResize' = lastResize
  BY DEF stream, pty
<1>2. Own(p)' = Own(p)
  BY DEF Own
<1>3. conn[p] # 0
  BY DEF PaneInv, Screen
<1>4. inbox[p][1] = m /\ m.type \notin Ahead
  BY ShiftFacts DEF Ahead, Numbered
<1>5. ASSUME NEW j \in 1..Len(inbox[p])
      PROVE  inbox[p][j].type \in Numbered /\ (j # 1 => ~OnlyAhead(p, j))
  <2>1. j # 1 => ~OnlyAhead(p, j)
    <3> SUFFICES ASSUME j # 1
                 PROVE  ~OnlyAhead(p, j)
      OBVIOUS
    <3>1. 1 \in 1..(j - 1)
      OBVIOUS
    <3> QED
      BY <1>4, <3>1 DEF OnlyAhead
  <2>2. inbox[p][j] \in Frame
    BY PaneTypes
  <2>3. Preface(p, j)
    BY DEF PaneInv, Orderly, OrderlyAt
  <2> QED
    BY <1>4, <2>1, <2>2, <2>3, FrameFacts DEF Preface
<1>6. ASSUME NEW i \in 1..Len(inbox'[p])
      PROVE  OrderlyAt(p, i)'
  <2>1. /\ inbox'[p][i] = inbox[p][i + 1] /\ i + 1 \in 1..Len(inbox[p])
        /\ i # 1 => inbox'[p][i - 1] = inbox[p][i]
    BY ShiftFacts
  <2>2. /\ Within(inbox[p][i + 1].epoch, inbox[p][i + 1].upto)
        /\ Follow(p, i + 1) /\ Resume(p, i + 1) /\ Moved(p, i + 1)
    BY <2>1 DEF PaneInv, Orderly, OrderlyAt
  <2>3. i \in Nat /\ i + 1 # 1 /\ (i + 1) - 1 = i /\ i \in 1..Len(inbox[p])
    BY ShiftFacts
  <2>4. inbox[p][i + 1].type \in Numbered /\ ~OnlyAhead(p, i + 1) /\ inbox[p][i].type \in Numbered
    BY <1>5, <2>1, <2>3
  <2>5. Preface(p, i)'
    BY <2>1, <2>4 DEF Preface, Ahead, Numbered
  <2>6. Follow(p, i)'
    BY <1>4, <2>1, <2>2, <2>3, <2>4 DEF Follow
  <2>7. Resume(p, i)'
    BY <2>1, <2>2, <2>4 DEF Resume
  <2>8. Moved(p, i)'
    BY <1>1, <1>4, <2>1, <2>2, <2>3, <2>4 DEF Moved, Gone
  <2>9. Within(inbox[p][i].epoch, inbox[p][i].upto)'
    BY <1>1, <2>1, <2>2 DEF Within
  <2> QED
    BY <2>5, <2>6, <2>7, <2>8, <2>9 DEF OrderlyAt
<1>7. InStep(p)'
  <2> SUFFICES ASSUME Own(p) \in sockets
               PROVE  InStep(p)'
    BY <1>2 DEF InStep
  <2>1. CASE inbox'[p] = <<>>
    <3>1. LastOf(p) = m
      BY <1>4, <2>1, ShiftFacts DEF LastOf
    <3> QED
      BY <1>1, <1>2, <2>1, <3>1 DEF PaneInv, InStep, Sure, FarEpoch, FarEnd
  <2>2. CASE inbox'[p] # <<>>
    <3>1. LastOf(p)' = LastOf(p)
      BY <2>2, ShiftFacts
    <3> QED
      BY <1>1, <1>2, <2>2, <3>1 DEF PaneInv, InStep, Sure, FarEpoch, FarEnd
  <2> QED
    BY <2>1, <2>2
<1>8. Asked(p)'
  BY <1>2, <1>3 DEF PaneInv, Asked
<1> QED
  BY <1>6, <1>7, <1>8 DEF Orderly

-----------------------------------------------------------------------------
(* The steps of a pane.                                                    *)

LEMMA PaneStep ==
  ASSUME IInv, NEW p \in Panes, UNCHANGED <<stream, pty, sockets, dims, hidden, owed>>,
         open' \subseteq Conns, outbox' \in [Conns -> Seq(Reports)],
         req' \in [Conns -> [kind : {"idle", "none", "anchor", "new"}, epoch : Nat, seq : Nat]],
         \A c \in Conns : req'[c] = req[c] \/ (c[1] = p /\ c \notin sockets),
         \A r \in Panes : r # p => SameAt(r),
         PaneTyped', muddled' \in {muddled, muddled \cup {p}},
         p \notin muddled' => PaneInv(p)'
  PROVE  IInv'
<1>1. Typed /\ HostInv
  BY DEF IInv
<1>2. HostInv'
  <2>1. \A c \in sockets : req'[c] = NoRequest
    BY <1>1 DEF HostInv, Typed, HostTyped
  <2> QED
    BY <1>1, <2>1, HostInvStays
<1>3. HostTyped'
  BY <1>1, HostTypedStays
<1>4. ASSUME NEW r \in Panes \ muddled, r # p
      PROVE  PaneInv(r)'
  <2>1. conn[r] # 0 => Own(r) \in Conns /\ Own(r)[1] = r
    BY <1>1, PaneTypes DEF Own, Conns
  <2> QED
    BY <1>1, <1>4, <2>1, PaneSame DEF IInv, pty
<1> QED
  BY <1>1, <1>2, <1>3, <1>4 DEF IInv, Typed

LEMMA HostRests ==
  ASSUME Typed, UNCHANGED host
  PROVE  /\ open' \subseteq Conns /\ req' = req /\ UNCHANGED <<sockets, dims, hidden>>
         /\ req' \in [Conns -> [kind : {"idle", "none", "anchor", "new"}, epoch : Nat, seq : Nat]]
         /\ \A c \in Conns : req'[c] = req[c]
  BY DEF Typed, HostTyped, host

LEMMA SaidFacts ==
  ASSUME Typed, NEW p \in Panes, NEW messages \in Seq(Reports)
  PROVE  [outbox EXCEPT ![<<p, conn[p]>>] = @ \o messages] \in [Conns -> Seq(Reports)]
<1>1. outbox \in [Conns -> Seq(Reports)]
  BY DEF Typed, HostTyped
<1>2. \A c \in Conns : outbox[c] \o messages \in Seq(Reports)
  BY <1>1, ConcatFacts
<1> QED
  BY <1>1, <1>2

LEMMA SaysFacts ==
  ASSUME Typed, NEW p \in Panes, NEW messages \in Seq(Reports), Says(p, messages)
  PROVE  outbox' \in [Conns -> Seq(Reports)]
<1>1. outbox \in [Conns -> Seq(Reports)]
  BY DEF Typed, HostTyped
<1> QED
  BY <1>1, SaidFacts DEF Says

LEMMA ReportFacts ==
  ASSUME NEW type \in {"hide", "show", "resize"}, NEW b \in Boxes \cup {0}
  PROVE  Report(type, b) \in Reports /\ <<Report(type, b)>> \in Seq(Reports)
  BY DEF Report, Reports

(* A pane that moves: its screen and its connection stay.                  *)
LEMMA MoveStep ==
  ASSUME IInv, NEW p \in Panes, Unpark(p) \/ Toggle(p) \/ Fit(p)
  PROVE  IInv'
<1>1. Typed
  BY DEF IInv
<1>2. UNCHANGED <<stream, pty, host, inbox, link, screen, saved, kept, muddled, owed>>
  BY DEF Unpark, Toggle, Fit, wire
<1>3. /\ visible' \in [Panes -> BOOLEAN] /\ box' \in [Panes -> Boxes]
      /\ outbox' \in [Conns -> Seq(Reports)]
  <2>1. /\ visible \in [Panes -> BOOLEAN] /\ box \in [Panes -> Boxes]
        /\ outbox \in [Conns -> Seq(Reports)]
    BY <1>1 DEF Typed, HostTyped, PaneTyped
  <2>2. CASE Unpark(p)
    <3>1. visible' = [visible EXCEPT ![p] = TRUE] /\ box' = box
      BY <2>2 DEF Unpark
    <3>2. /\ Says(p, <<Report("show", 0), Report("resize", box[p])>>)
          /\ box[p] \in Boxes
      BY <2>1, <2>2 DEF Unpark
    <3>3. <<Report("show", 0), Report("resize", box[p])>> \in Seq(Reports)
      BY <3>2, ReportFacts
    <3>4. outbox' \in [Conns -> Seq(Reports)]
      BY <1>1, <3>2, <3>3, SaysFacts
    <3> QED
      BY <2>1, <3>1, <3>4
  <2>3. CASE Toggle(p)
    <3>1. visible' = [visible EXCEPT ![p] = ~visible[p]] /\ box' = box
      BY <2>3 DEF Toggle
    <3>2. PICK type \in {"hide", "show"} : Says(p, <<Report(type, 0)>>)
      BY <2>3 DEF Toggle
    <3>3. outbox' \in [Conns -> Seq(Reports)]
      BY <1>1, <3>2, ReportFacts, SaysFacts
    <3>4. visible' \in [Panes -> BOOLEAN]
      BY <2>1, <3>1, Zenon
    <3> QED
      BY <2>1, <3>1, <3>3, <3>4
  <2>4. CASE Fit(p)
    <3>1. PICK b \in Boxes : box' = [box EXCEPT ![p] = b] /\ Says(p, <<Report("resize", b)>>)
      BY <2>4 DEF Fit
    <3>2. outbox' \in [Conns -> Seq(Reports)]
      BY <1>1, <3>1, ReportFacts, SaysFacts
    <3> QED
      BY <2>1, <2>4, <3>1, <3>2 DEF Fit
  <2> QED
    BY <2>2, <2>3, <2>4
<1>4. \A r \in Panes : SameAt(r)
  BY <1>2 DEF SameAt, NearAt, link, screen
<1>5. PaneTyped'
  BY <1>1, <1>2, <1>3 DEF Typed, PaneTyped, link, screen
<1>6. /\ open' \subseteq Conns /\ req' = req /\ UNCHANGED <<sockets, dims, hidden>>
      /\ req' \in [Conns -> [kind : {"idle", "none", "anchor", "new"}, epoch : Nat, seq : Nat]]
  BY <1>1, <1>2, HostRests
<1>7. p \notin muddled' => PaneInv(p)'
  <2> SUFFICES ASSUME p \notin muddled
               PROVE  PaneInv(p)'
    BY <1>2
  <2>1. PaneInv(p)
    BY DEF IInv
  <2> QED
    BY <1>1, <1>2, <1>4, <1>6, <2>1, PaneSame
<1>8. UNCHANGED <<stream, pty, sockets, dims, hidden, owed>>
  BY <1>2, <1>6
<1>9. \A c \in Conns : req'[c] = req[c] \/ (c[1] = p /\ c \notin sockets)
  BY <1>6
<1>10. outbox' \in [Conns -> Seq(Reports)] /\ open' \subseteq Conns
  BY <1>3, <1>6
<1>11. \A r \in Panes : r # p => SameAt(r)
  BY <1>4
<1> QED
  BY <1>2, <1>5, <1>6, <1>7, <1>8, <1>9, <1>10, <1>11, PaneStep

(* A pane that dials, or takes a position, with chunks still queued is a   *)
(* phone, and is muddled from then on.                                     *)
LEMMA PositionFacts ==
  ASSUME IInv, NEW p \in Panes, Positions(p)
  PROVE  /\ muddled' \in {muddled, muddled \cup {p}} /\ muddled' \subseteq Phones
         /\ p \notin muddled' => p \notin muddled /\ queued[p] = <<>>
<1>1. muddled \subseteq Phones
  BY DEF IInv, Typed, PaneTyped
<1>2. p \notin muddled /\ queued[p] # <<>> => p \in Phones
  BY DEF IInv, PaneInv, Screen
<1> QED
  BY <1>1, <1>2 DEF Positions

LEMMA DialStep ==
  ASSUME IInv, NEW p \in Panes, Dial(p)
  PROVE  IInv'
<1>1. Typed
  BY DEF IInv
<1>2. /\ conn[p] = 0 /\ Positions(p)
      /\ UNCHANGED <<stream, pty, sockets, dims, hidden, inbox, ready, counting, fresh, screen,
                     visible, box, saved, kept, owed>>
  BY DEF Dial
<1>3. PICK c \in Conns, i \in {1, 2} :
        /\ c = <<p, i>> /\ Idle(c) /\ conn' = [conn EXCEPT ![p] = i] /\ open' = open \cup {c}
        /\ req' = [req EXCEPT ![c] = Request(p)] /\ outbox' = [outbox EXCEPT ![c] = <<>>]
  <2>1. PICK i \in {1, 2} :
          /\ Idle(<<p, i>>) /\ conn' = [conn EXCEPT ![p] = i] /\ open' = open \cup {<<p, i>>}
          /\ req' = [req EXCEPT ![<<p, i>>] = Request(p)]
          /\ outbox' = [outbox EXCEPT ![<<p, i>>] = <<>>]
    BY DEF Dial
  <2>2. <<p, i>> \in Conns
    BY DEF Conns
  <2> QED
    BY <2>1, <2>2
<1>4. /\ conn \in [Panes -> 0..2] /\ open \subseteq Conns /\ anchor[p] \in Position
      /\ req \in [Conns -> [kind : {"idle", "none", "anchor", "new"}, epoch : Nat, seq : Nat]]
      /\ outbox \in [Conns -> Seq(Reports)]
  BY <1>1 DEF Typed, HostTyped, PaneTyped
<1>5. c[1] = p /\ c \notin sockets
  BY <1>3 DEF Idle
<1>6. /\ Request(p) \in [kind : {"idle", "none", "anchor", "new"}, epoch : Nat, seq : Nat]
      /\ IF anchor[p] = NoAnchor THEN Request(p).kind # "anchor"
         ELSE /\ Request(p).kind = "anchor"
              /\ Request(p).epoch = anchor[p].epoch /\ Request(p).seq = anchor[p].seq
  BY <1>4 DEF Request, Position
<1>7. /\ req' \in [Conns -> [kind : {"idle", "none", "anchor", "new"}, epoch : Nat, seq : Nat]]
      /\ open' \subseteq Conns /\ outbox' \in [Conns -> Seq(Reports)] /\ conn' \in [Panes -> 0..2]
      /\ conn'[p] = i /\ req'[c] = Request(p)
  <2>1. outbox' \in [Conns -> Seq(Reports)]
    BY <1>3, <1>4
  <2>2. open' \subseteq Conns
    BY <1>3, <1>4
  <2>3. conn' \in [Panes -> 0..2] /\ conn'[p] = i
    BY <1>3, <1>4
  <2>4. req'[c] = Request(p)
    BY <1>3, <1>4
  <2>5. req' \in [Conns -> [kind : {"idle", "none", "anchor", "new"}, epoch : Nat, seq : Nat]]
    BY <1>3, <1>4, <1>6
  <2> QED
    BY <2>1, <2>2, <2>3, <2>4, <2>5
<1>8. \A k \in Conns : req'[k] = req[k] \/ (k[1] = p /\ k \notin sockets)
  BY <1>3, <1>4, <1>5
<1>9. \A r \in Panes : r # p => SameAt(r)
  BY <1>2, <1>3, <1>4 DEF SameAt, NearAt, screen
<1>10. /\ muddled' \in {muddled, muddled \cup {p}} /\ muddled' \subseteq Phones
       /\ p \notin muddled' => p \notin muddled /\ queued[p] = <<>>
  BY <1>2, PositionFacts
<1>11. PaneTyped'
  BY <1>1, <1>2, <1>7, <1>10 DEF Typed, PaneTyped, screen
<1>12. ASSUME p \notin muddled'
       PROVE  PaneInv(p)'
  <2>1. PaneInv(p) /\ queued[p] = <<>>
    BY <1>12, <1>10 DEF IInv
  <2>2. inbox'[p] = <<>> /\ ~counting[p]
    BY <1>2, <2>1 DEF PaneInv, Screen
  <2>3. Own(p)' = c
    BY <1>3, <1>7 DEF Own
  <2>4. Screen(p)' /\ Queue(p)'
    BY <1>2, <2>2, <2>1
    DEF PaneInv, Screen, Queue, Tip, Within, Marks, EndOf, stream, screen, NoAnchor
  <2>5. Orderly(p)'
    BY <2>2 DEF Orderly
  <2>6. InStep(p)'
    BY <1>2, <1>5, <2>3 DEF InStep
  <2>7. Asked(p)'
    <3>1. anchor[p] = [epoch |-> anchor[p].epoch, seq |-> anchor[p].seq]
      BY <1>4 DEF Position
    <3> QED
      BY <1>2, <1>6, <1>7, <2>2, <2>3, <2>1, <3>1 DEF Asked, Still, screen
  <2> QED
    BY <2>4, <2>5, <2>6, <2>7 DEF PaneInv
<1> QED
  BY <1>2, <1>7, <1>8, <1>9, <1>11, <1>12, <1>10, PaneStep

(* The message that was read is off the wire.                              *)
LEMMA ReadFacts ==
  ASSUME IInv, NEW p \in Panes, NEW type \in Ahead \cup Numbered, Reads(p, type)
  PROVE  /\ inbox[p] # <<>> /\ Head(inbox[p]).type = type /\ Head(inbox[p]) \in Frame
         /\ inbox'[p] = Tail(inbox[p]) /\ \A r \in Panes : r # p => inbox'[r] = inbox[r]
         /\ inbox' \in [Panes -> Seq(Frame)]
<1>1. inbox \in [Panes -> Seq(Frame)] /\ inbox[p] \in Seq(Frame) /\ inbox[p] # <<>>
  BY DEF IInv, Typed, PaneTyped, Reads
<1>2. Head(inbox[p]) \in Frame /\ Tail(inbox[p]) \in Seq(Frame)
  BY <1>1, TailFacts
<1> QED
  BY <1>1, <1>2 DEF Reads

LEMMA NumberedFacts ==
  ASSUME IInv, NEW p \in Panes \ muddled, NEW type, Reads(p, type)
  PROVE  conn[p] # 0 /\ OrderlyAt(p, 1) /\ inbox[p][1] = Head(inbox[p])
<1>1. inbox[p] \in Seq(Frame) /\ inbox[p] # <<>>
  BY DEF IInv, Typed, PaneTyped, Reads
<1>2. 1 \in 1..Len(inbox[p]) /\ inbox[p][1] = Head(inbox[p])
  BY <1>1, TailFacts
<1> QED
  BY <1>1, <1>2 DEF IInv, PaneInv, Screen, Orderly

LEMMA PrefaceStep ==
  ASSUME IInv, NEW p \in Panes \ muddled, ReadAttached(p) \/ ReadPreamble(p)
  PROVE  IInv'
<1>1. Typed /\ PaneInv(p)
  BY DEF IInv
<1>2. PICK type \in Ahead : Reads(p, type)
  BY DEF ReadAttached, ReadPreamble, Ahead
<1>3. /\ inbox[p] # <<>> /\ Head(inbox[p]).type = type /\ inbox'[p] = Tail(inbox[p])
      /\ \A r \in Panes : r # p => inbox'[r] = inbox[r]
      /\ inbox' \in [Panes -> Seq(Frame)] /\ conn[p] # 0
      /\ OrderlyAt(p, 1) /\ inbox[p][1] = Head(inbox[p])
  BY <1>2, ReadFacts, NumberedFacts
<1>4. ~counting[p]
  BY <1>3 DEF OrderlyAt, Preface, Still
<1>5. UNCHANGED <<stream, pty, host, conn, anchor, queued, painted, visible, box, saved, kept,
                  muddled, owed>>
  BY DEF ReadAttached, ReadPreamble, screen
<1>6. /\ ready' \in [Panes -> BOOLEAN] /\ counting' \in [Panes -> BOOLEAN]
      /\ fresh' \in [Panes -> BOOLEAN] /\ content' \in [Panes -> BOOLEAN]
      /\ counting'[p] = FALSE /\ \A r \in Panes : r # p => counting'[r] = counting[r]
  <2>1. /\ ready \in [Panes -> BOOLEAN] /\ counting \in [Panes -> BOOLEAN]
        /\ fresh \in [Panes -> BOOLEAN] /\ content \in [Panes -> BOOLEAN]
    BY <1>1 DEF Typed, PaneTyped
  <2>2. CASE ReadAttached(p)
    <3>1. /\ ready' = [ready EXCEPT ![p] = TRUE] /\ counting' = [counting EXCEPT ![p] = FALSE]
          /\ fresh' = [fresh EXCEPT ![p] = FALSE] /\ content' = content
      BY <2>2 DEF ReadAttached, screen
    <3> QED
      BY <2>1, <3>1
  <2>3. CASE ReadPreamble(p)
    <3>1. /\ ready' = ready /\ counting' = counting
          /\ fresh' = [fresh EXCEPT ![p] = TRUE] /\ content' = [content EXCEPT ![p] = TRUE]
      BY <2>3 DEF ReadPreamble
    <3>2. counting[p] = FALSE
      BY <1>4, <2>1
    <3> QED
      BY <2>1, <3>1, <3>2
  <2> QED
    BY <2>2, <2>3
<1>7. counting'[p] = counting[p]
  BY <1>1, <1>4, <1>6, PaneTypes
<1>8. NearAt(p) /\ \A r \in Panes : r # p => SameAt(r)
  BY <1>3, <1>5, <1>6, <1>7 DEF NearAt, SameAt
<1>9. PaneTyped'
  BY <1>1, <1>3, <1>5, <1>6 DEF Typed, PaneTyped
<1>10. /\ open' \subseteq Conns /\ req' = req /\ UNCHANGED <<sockets, dims, hidden>>
       /\ req' \in [Conns -> [kind : {"idle", "none", "anchor", "new"}, epoch : Nat, seq : Nat]]
       /\ \A c \in Conns : req'[c] = req[c]
  BY <1>1, <1>5, HostRests
<1>11. PaneInv(p)'
  <2>1. Head(inbox[p]).type \in Ahead
    BY <1>3
  <2>2. UNCHANGED <<stream, pty, req, sockets, hidden>>
    BY <1>5, <1>10
  <2> QED
    BY <1>1, <1>3, <1>8, <2>1, <2>2, Skipped
<1>12. outbox' \in [Conns -> Seq(Reports)]
  <2>1. CASE ReadAttached(p)
    <3>1. ShownAs(p) \in Reports
      <4>1. \E type2 \in {"hide", "show"} : ShownAs(p) = Report(type2, 0)
        BY DEF ShownAs
      <4> QED
        BY <4>1, ReportFacts
    <3>2. Report("resize", box[p]) \in Reports
      BY <1>1, ReportFacts DEF Typed, PaneTyped
    <3>3. <<ShownAs(p), Report("resize", box[p])>> \in Seq(Reports)
      BY <3>1, <3>2
    <3> QED
      BY <1>1, <2>1, <3>3, SaidFacts DEF ReadAttached
  <2>2. CASE ReadPreamble(p)
    BY <1>1, <2>2 DEF ReadPreamble, Typed, HostTyped
  <2> QED
    BY <2>1, <2>2
<1>13. UNCHANGED <<stream, pty, sockets, dims, hidden, owed>>
  BY <1>5, <1>10
<1> QED
  BY <1>5, <1>8, <1>9, <1>10, <1>11, <1>12, <1>13, PaneStep

LEMMA SyncedStep ==
  ASSUME IInv, NEW p \in Panes, ReadSynced(p)
  PROVE  IInv'
<1> DEFINE m == Head(inbox[p])
           restart == [epoch |-> m.epoch, start |-> m.from, bytes |-> <<>>]
<1>1. Typed
  BY DEF IInv
<1>2. Reads(p, "synced") /\ "synced" \in Ahead \cup Numbered
  BY DEF ReadSynced, Numbered
<1>3. /\ inbox[p] # <<>> /\ m.type = "synced" /\ m \in Frame /\ inbox'[p] = Tail(inbox[p])
      /\ \A r \in Panes : r # p => inbox'[r] = inbox[r]
      /\ inbox' \in [Panes -> Seq(Frame)]
  BY <1>2, ReadFacts
<1>4. /\ Positions(p)
      /\ anchor' = [anchor EXCEPT ![p] = [epoch |-> m.epoch, seq |-> m.from]]
      /\ painted' = IF m.mode = "exact" THEN painted ELSE [painted EXCEPT ![p] = restart]
      /\ counting' = [counting EXCEPT ![p] = TRUE]
      /\ UNCHANGED <<stream, pty, host, outbox, conn, ready, fresh, content, queued,
                     visible, box, saved, kept, owed>>
  BY DEF ReadSynced, Arrived
<1>5. /\ m.epoch \in Nat /\ m.epoch # 0 /\ m.from \in Nat /\ m.from = m.upto
  BY <1>3, FrameFacts DEF Numbered
<1>6. restart \in Run /\ restart.epoch = m.epoch /\ EndOf(restart) = m.from
  BY <1>5 DEF Run, EndOf
<1>7. [epoch |-> m.epoch, seq |-> m.from] \in Position
  BY <1>5 DEF Position
<1> HIDE DEF m, restart
<1>8. /\ anchor' \in [Panes -> Position] /\ painted' \in [Panes -> Run]
      /\ counting' \in [Panes -> BOOLEAN]
      /\ anchor'[p] = [epoch |-> m.epoch, seq |-> m.from] /\ counting'[p] = TRUE
      /\ painted'[p] = IF m.mode = "exact" THEN painted[p] ELSE restart
      /\ \A r \in Panes : r # p => anchor'[r] = anchor[r] /\ painted'[r] = painted[r]
                                   /\ counting'[r] = counting[r]
  <2>1. /\ anchor \in [Panes -> Position] /\ painted \in [Panes -> Run]
        /\ counting \in [Panes -> BOOLEAN]
    BY <1>1 DEF Typed, PaneTyped
  <2>2. /\ anchor' \in [Panes -> Position] /\ anchor'[p] = [epoch |-> m.epoch, seq |-> m.from]
        /\ \A r \in Panes : r # p => anchor'[r] = anchor[r]
    BY <1>4, <1>7, <2>1
  <2>3. /\ painted' \in [Panes -> Run]
        /\ painted'[p] = IF m.mode = "exact" THEN painted[p] ELSE restart
        /\ \A r \in Panes : r # p => painted'[r] = painted[r]
    BY <1>4, <1>6, <2>1
  <2>4. /\ counting' \in [Panes -> BOOLEAN] /\ counting'[p] = TRUE
        /\ \A r \in Panes : r # p => counting'[r] = counting[r]
    BY <1>4, <2>1
  <2> QED
    BY <2>2, <2>3, <2>4
<1>9. /\ muddled' \in {muddled, muddled \cup {p}} /\ muddled' \subseteq Phones
      /\ p \notin muddled' => p \notin muddled /\ queued[p] = <<>>
  BY <1>4, PositionFacts
<1>10. \A r \in Panes : r # p => SameAt(r)
  <2>1. UNCHANGED <<conn, queued, saved, kept>>
    BY <1>4
  <2> QED
    BY <1>3, <1>8, <2>1 DEF SameAt, NearAt
<1>11. PaneTyped'
  <2>1. UNCHANGED <<conn, ready, fresh, content, queued, visible, box, saved, kept>>
    BY <1>4
  <2> QED
    BY <1>1, <1>3, <1>8, <1>9, <2>1 DEF Typed, PaneTyped
<1>12. /\ open' \subseteq Conns /\ req' = req /\ UNCHANGED <<sockets, dims, hidden>>
       /\ req' \in [Conns -> [kind : {"idle", "none", "anchor", "new"}, epoch : Nat, seq : Nat]]
       /\ \A c \in Conns : req'[c] = req[c]
  BY <1>1, <1>4, HostRests
<1>13. ASSUME p \notin muddled'
       PROVE  PaneInv(p)'
  <2>1. PaneInv(p) /\ queued[p] = <<>> /\ conn[p] # 0 /\ OrderlyAt(p, 1) /\ inbox[p][1] = m
    <3>1. p \in Panes \ muddled /\ queued[p] = <<>>
      BY <1>9, <1>13
    <3>2. conn[p] # 0 /\ OrderlyAt(p, 1) /\ inbox[p][1] = m
      BY <1>2, <3>1, NumberedFacts DEF m
    <3> QED
      BY <3>1, <3>2 DEF IInv
  <2>2. painted'[p].epoch = m.epoch /\ EndOf(painted'[p]) = m.from
    <3>1. CASE m.mode = "exact"
      <4>1. anchor[p] = [epoch |-> m.epoch, seq |-> m.from]
        BY <1>3, <3>1, <2>1 DEF OrderlyAt, Resume
      <4>2. anchor[p].epoch = m.epoch /\ anchor[p].seq = m.from /\ anchor[p] # NoAnchor
        BY <1>5, <4>1 DEF NoAnchor
      <4> QED
        BY <1>1, <1>8, <3>1, <4>2, <2>1 DEF PaneInv, Screen, Marks
    <3>2. CASE m.mode # "exact"
      BY <1>6, <1>8, <3>2
    <3> QED
      BY <3>1, <3>2
  <2>3. Tip(p)' = m.upto
    BY <1>4, <1>5, <2>2, <2>1 DEF Tip
  <2>4. Orderly(p)' /\ InStep(p)' /\ Asked(p)'
    <3>1. m.type \in Numbered /\ conn'[p] = conn[p] /\ m = Head(inbox[p])
      BY <1>3, <1>4, <2>1 DEF Numbered, m
    <3>2. UNCHANGED <<stream, pty, req, sockets, hidden>>
      BY <1>4, <1>12
    <3> QED
      BY <1>1, <1>3, <1>8, <2>2, <2>3, <3>1, <3>2, <2>1, Consumed
  <2>5. Queue(p)'
    BY <1>4, <2>1 DEF Queue
  <2>6. Screen(p)'
    <3>1. Within(m.epoch, m.upto) /\ UNCHANGED <<epoch, epochs, out>>
      BY <1>3, <1>4, <2>1 DEF OrderlyAt, stream
    <3>2. Marks(anchor[p], painted[p])'
      BY <1>5, <1>8, <2>2 DEF Marks
    <3>3. Marks(saved[p], kept[p])' /\ Within(kept[p].epoch, EndOf(kept[p]))'
      BY <1>1, <1>4, <3>1, <2>1 DEF PaneInv, Screen, Marks, Within
    <3>4. Within(painted[p].epoch, Tip(p))' /\ Within(painted[p].epoch, EndOf(painted[p]))'
      BY <1>5, <2>2, <2>3, <3>1 DEF Within
    <3>5. anchor'[p] # NoAnchor
      BY <1>5, <1>8 DEF NoAnchor
    <3>6. queued'[p] = <<>> /\ conn'[p] # 0
      BY <1>3, <1>4, <2>1
    <3> QED
      BY <3>2, <3>3, <3>4, <3>5, <3>6 DEF Screen
  <2> QED
    BY <2>4, <2>5, <2>6 DEF PaneInv
<1>14. UNCHANGED <<stream, pty, sockets, dims, hidden, owed>>
  BY <1>4, <1>12
<1>15. outbox' \in [Conns -> Seq(Reports)]
  BY <1>1, <1>4 DEF Typed, HostTyped
<1> QED
  BY <1>9, <1>10, <1>11, <1>12, <1>13, <1>14, <1>15, PaneStep

(* Bytes on a screen: the run goes on, by their number.                    *)
LEMMA WithBytes ==
  ASSUME NEW S, NEW run \in [epoch : Nat, start : Nat, bytes : S], NEW bytes \in S
  PROVE  [run EXCEPT !.bytes = bytes] = [epoch |-> run.epoch, start |-> run.start, bytes |-> bytes]
  OBVIOUS

LEMMA RunGoesOn ==
  ASSUME NEW run \in Run, NEW more \in Seq(Nat)
  PROVE  /\ [run EXCEPT !.bytes = @ \o more] \in Run
         /\ [run EXCEPT !.bytes = @ \o more]
             = [epoch |-> run.epoch, start |-> run.start, bytes |-> run.bytes \o more]
         /\ EndOf([run EXCEPT !.bytes = @ \o more]) = EndOf(run) + Len(more)
<1>1. /\ run.epoch \in Nat /\ run.start \in Nat /\ run.bytes \in Seq(Nat) /\ Len(run.bytes) \in Nat
      /\ run = [epoch |-> run.epoch, start |-> run.start, bytes |-> run.bytes]
  BY RunFacts DEF Run
<1>2. PICK e \in Nat, f \in Nat, b \in Seq(Nat) : run = [epoch |-> e, start |-> f, bytes |-> b]
  BY <1>1
<1>3. b \o more \in Seq(Nat) /\ Len(b \o more) = Len(b) + Len(more)
  BY ConcatFacts
<1>4. PICK c \in Seq(Nat) : c = b \o more /\ Len(c) = Len(b) + Len(more)
  BY <1>3
<1>5. run.epoch = e /\ run.start = f /\ run.bytes = b
  BY <1>2
<1>6. [run EXCEPT !.bytes = c] = [epoch |-> e, start |-> f, bytes |-> c]
  BY <1>5, WithBytes DEF Run
<1>7. [run EXCEPT !.bytes = @ \o more] = [run EXCEPT !.bytes = c]
  BY <1>4, <1>5
<1>8. Len(b) \in Nat /\ Len(more) \in Nat
  BY LenProperties
<1>9. EndOf([epoch |-> e, start |-> f, bytes |-> c]) = (f + Len(b)) + Len(more)
  BY <1>4, <1>8 DEF EndOf
<1>10. EndOf(run) = f + Len(b)
  BY <1>5 DEF EndOf
<1> QED
  BY <1>4, <1>5, <1>6, <1>7, <1>9, <1>10 DEF Run

LEMMA OntoFacts ==
  ASSUME Typed, NEW p \in Panes, NEW m \in Frame, painted' = Onto(p, m)
  PROVE  /\ painted' \in [Panes -> Run] /\ painted'[p].epoch = painted[p].epoch
         /\ painted'[p].start = painted[p].start
         /\ painted'[p].bytes = painted[p].bytes \o [i \in 1..(m.upto - m.from) |-> m.from + i]
         /\ EndOf(painted'[p]) = EndOf(painted[p]) + (m.upto - m.from)
         /\ \A r \in Panes : r # p => painted'[r] = painted[r]
<1>1. painted \in [Panes -> Run] /\ painted[p] \in Run
  BY DEF Typed, PaneTyped
<1>2. m.from \in Nat /\ m.upto \in Nat /\ m.upto - m.from \in Nat
  BY FrameFacts
<1>3. PICK more \in Seq(Nat) :
        more = [i \in 1..(m.upto - m.from) |-> m.from + i] /\ Len(more) = m.upto - m.from
  <2>1. PICK k \in Nat, f \in Nat : k = m.upto - m.from /\ f = m.from
    BY <1>2
  <2>2. [i \in 1..k |-> f + i] \in Seq(Nat) /\ Len([i \in 1..k |-> f + i]) = k
    OBVIOUS
  <2> QED
    BY <2>1, <2>2
<1>4. painted' = [painted EXCEPT ![p] = [painted[p] EXCEPT !.bytes = @ \o more]]
  BY <1>1, <1>3 DEF Onto
<1>5. PICK run \in Run :
        /\ run = [painted[p] EXCEPT !.bytes = @ \o more]
        /\ run = [epoch |-> painted[p].epoch, start |-> painted[p].start,
                  bytes |-> painted[p].bytes \o more]
        /\ EndOf(run) = EndOf(painted[p]) + Len(more)
  BY <1>1, RunGoesOn
<1>6. painted' = [painted EXCEPT ![p] = run]
  BY <1>4, <1>5
<1>7. /\ painted' \in [Panes -> Run] /\ painted'[p] = run
      /\ \A r \in Panes : r # p => painted'[r] = painted[r]
  BY <1>1, <1>6
<1>8. /\ run.epoch = painted[p].epoch /\ run.start = painted[p].start
      /\ run.bytes = painted[p].bytes \o more
  BY <1>5
<1> QED
  BY <1>3, <1>5, <1>7, <1>8

LEMMA CountedFacts ==
  ASSUME Typed, NEW p \in Panes, NEW n \in Nat, NEW counts, anchor' = Counted(p, n, counts)
  PROVE  /\ anchor' \in [Panes -> Position]
         /\ counts => anchor'[p] = [epoch |-> anchor[p].epoch, seq |-> anchor[p].seq + n]
         /\ \A r \in Panes : r # p => anchor'[r] = anchor[r]
<1>1. anchor \in [Panes -> Position] /\ anchor[p] \in Position
  BY DEF Typed, PaneTyped
<1>2. anchor[p].epoch \in Nat /\ anchor[p].seq \in Nat
  BY <1>1 DEF Position
<1>3. counts => anchor' = [anchor EXCEPT ![p] = [anchor[p] EXCEPT !.seq = anchor[p].seq + n]]
  BY <1>1 DEF Counted
<1>4. [anchor[p] EXCEPT !.seq = anchor[p].seq + n]
      = [epoch |-> anchor[p].epoch, seq |-> anchor[p].seq + n]
  BY <1>1 DEF Position
<1>5. [epoch |-> anchor[p].epoch, seq |-> anchor[p].seq + n] \in Position
  BY <1>2 DEF Position
<1>6. ~counts => anchor' = anchor
  BY DEF Counted
<1> QED
  BY <1>1, <1>3, <1>4, <1>5, <1>6

LEMMA BytesStep ==
  ASSUME IInv, NEW p \in Panes \ muddled, ReadBytes(p)
  PROVE  IInv'
<1> DEFINE m == Head(inbox[p])
           n == m.upto - m.from
           q == [chunk |-> m, counts |-> TRUE]
<1>1. Typed /\ PaneInv(p)
  BY DEF IInv
<1>2. Reads(p, "bytes") /\ "bytes" \in Ahead \cup Numbered
  BY DEF ReadBytes, Numbered
<1>3. /\ inbox[p] # <<>> /\ m.type = "bytes" /\ m \in Frame /\ inbox'[p] = Tail(inbox[p])
      /\ \A r \in Panes : r # p => inbox'[r] = inbox[r]
      /\ inbox' \in [Panes -> Seq(Frame)] /\ conn[p] # 0
      /\ OrderlyAt(p, 1) /\ inbox[p][1] = m
  BY <1>2, ReadFacts, NumberedFacts
<1>4. counting[p] = TRUE /\ m.epoch = painted[p].epoch /\ m.from = Tip(p)
  BY <1>1, <1>3, PaneTypes DEF OrderlyAt, Follow
<1>5. /\ IF p \in Phones
         THEN queued' = [queued EXCEPT ![p] = Append(@, q)] /\ UNCHANGED <<anchor, painted>>
         ELSE anchor' = Counted(p, n, TRUE) /\ painted' = Onto(p, m) /\ UNCHANGED queued
      /\ fresh' = [fresh EXCEPT ![p] = TRUE] /\ content' = [content EXCEPT ![p] = TRUE]
      /\ UNCHANGED <<stream, pty, host, outbox, conn, ready, counting, visible, box, saved, kept,
                     muddled, owed>>
  BY <1>4 DEF ReadBytes, Arrived
<1>6. /\ m.epoch \in Nat /\ m.from \in Nat /\ m.upto \in Nat /\ n \in Nat /\ m.from + n = m.upto
  BY <1>3, FrameFacts
<1>7. q \in Chunk /\ q.chunk = m /\ q.counts
  BY <1>3 DEF Chunk
<1> HIDE DEF m, n, q
<1>8. /\ queued' \in [Panes -> Seq(Chunk)] /\ anchor' \in [Panes -> Position]
      /\ painted' \in [Panes -> Run] /\ painted'[p].epoch = m.epoch
      /\ \A r \in Panes : r # p => anchor'[r] = anchor[r] /\ painted'[r] = painted[r]
                                   /\ queued'[r] = queued[r]
      /\ Tip(p)' = m.upto /\ Queue(p)'
      /\ anchor'[p] # NoAnchor /\ Marks(anchor[p], painted[p])'
      /\ EndOf(painted'[p]) \in {EndOf(painted[p]), m.upto}
      /\ queued'[p] # <<>> => p \in Phones
  <2>1. /\ queued \in [Panes -> Seq(Chunk)] /\ queued[p] \in Seq(Chunk) /\ Len(queued[p]) \in Nat
        /\ anchor \in [Panes -> Position] /\ painted \in [Panes -> Run]
    BY <1>1, PaneTypes DEF Typed, PaneTyped
  <2>2. /\ anchor[p] # NoAnchor /\ anchor[p].epoch # 0 /\ anchor[p].epoch = painted[p].epoch
        /\ anchor[p].seq = EndOf(painted[p]) /\ (queued[p] # <<>> => p \in Phones)
    BY <1>1, <1>4 DEF PaneInv, Screen, Marks
  <2>3. CASE p \in Phones
    <3>1. /\ queued' = [queued EXCEPT ![p] = Append(queued[p], q)]
          /\ anchor' = anchor /\ painted' = painted
      BY <1>5, <2>1, <2>3
    <3>2. PICK l \in Nat :
            /\ l = Len(queued[p])
            /\ Append(queued[p], q) \in Seq(Chunk) /\ Len(Append(queued[p], q)) = l + 1
            /\ Append(queued[p], q) # <<>> /\ Append(queued[p], q)[l + 1] = q
            /\ \A i \in 1..l : Append(queued[p], q)[i] = queued[p][i]
      BY <1>7, <2>1, AppendFacts
    <3>3. /\ queued' \in [Panes -> Seq(Chunk)] /\ queued'[p] = Append(queued[p], q)
          /\ \A r \in Panes : r # p => queued'[r] = queued[r]
      BY <2>1, <3>1, <3>2
    <3>4. Tip(p)' = m.upto
      BY <1>7, <3>2, <3>3 DEF Tip
    <3>5. Queue(p)'
      <4> SUFFICES ASSUME NEW i \in 1..(l + 1)
                   PROVE  /\ queued'[p][i].counts
                          /\ queued'[p][i].chunk.epoch = painted[p].epoch
                          /\ Within(queued'[p][i].chunk.epoch, queued'[p][i].chunk.upto)
                          /\ queued'[p][i].chunk.from =
                               IF i = 1 THEN EndOf(painted[p]) ELSE queued'[p][i - 1].chunk.upto
        <5>1. epoch' = epoch /\ epochs' = epochs /\ out' = out
          BY <1>5 DEF stream
        <5> QED
          BY <3>1, <3>2, <3>3, <5>1 DEF Queue, Within
      <4>1. CASE i = l + 1
        <5>1. queued'[p][i].chunk = m /\ queued'[p][i].counts
          BY <1>7, <3>2, <3>3, <4>1
        <5>2. Within(m.epoch, m.upto)
          BY <1>3 DEF OrderlyAt
        <5>3. CASE l = 0
          <6>1. queued[p] = <<>>
            BY <2>1, <3>2, <5>3, EmptySeq
          <6> QED
            BY <1>4, <4>1, <5>1, <5>2, <5>3, <6>1 DEF Tip
        <5>4. CASE l # 0
          <6>1. queued[p] # <<>>
            BY <2>1, <3>2, <5>4, EmptySeq
          <6>2. queued'[p][i - 1] = queued[p][l] /\ i # 1
            BY <3>2, <3>3, <4>1, <5>4
          <6> QED
            BY <1>4, <3>2, <5>1, <5>2, <6>1, <6>2 DEF Tip
        <5> QED
          BY <5>3, <5>4
      <4>2. CASE i # l + 1
        <5>1. /\ i \in 1..l /\ queued'[p][i] = queued[p][i]
              /\ i # 1 => queued'[p][i - 1] = queued[p][i - 1]
          BY <3>2, <3>3, <4>2
        <5> QED
          BY <1>1, <3>2, <5>1 DEF PaneInv, Queue
      <4> QED
        BY <4>1, <4>2
    <3>6. anchor'[p] # NoAnchor /\ Marks(anchor[p], painted[p])'
      BY <2>2, <3>1 DEF Marks
    <3> QED
      BY <1>4, <2>1, <2>3, <3>1, <3>3, <3>4, <3>5, <3>6
  <2>4. CASE p \notin Phones
    <3>1. anchor' = Counted(p, n, TRUE) /\ painted' = Onto(p, m) /\ queued' = queued
      BY <1>5, <2>4
    <3>2. queued'[p] = <<>> /\ queued[p] = <<>>
      BY <2>2, <2>4, <3>1
    <3>3. /\ painted' \in [Panes -> Run] /\ painted'[p].epoch = painted[p].epoch
          /\ EndOf(painted'[p]) = EndOf(painted[p]) + n
          /\ \A r \in Panes : r # p => painted'[r] = painted[r]
      BY <1>1, <1>3, <3>1, OntoFacts DEF n
    <3>4. /\ anchor' \in [Panes -> Position]
          /\ anchor'[p] = [epoch |-> anchor[p].epoch, seq |-> anchor[p].seq + n]
          /\ \A r \in Panes : r # p => anchor'[r] = anchor[r]
      BY <1>1, <1>6, <3>1, CountedFacts
    <3>5. EndOf(painted'[p]) = m.upto
      BY <1>4, <1>6, <3>2, <3>3 DEF Tip
    <3>6. Tip(p)' = m.upto
      BY <3>2, <3>5 DEF Tip
    <3>7. anchor'[p].epoch = anchor[p].epoch /\ anchor'[p].seq = anchor[p].seq + n
      BY <3>4
    <3>8. anchor'[p] # NoAnchor /\ Marks(anchor[p], painted[p])'
      BY <2>2, <3>3, <3>7 DEF Marks, NoAnchor
    <3>9. Queue(p)'
      BY <3>2 DEF Queue
    <3> QED
      BY <1>4, <2>1, <3>1, <3>2, <3>3, <3>4, <3>5, <3>6, <3>8, <3>9
  <2> QED
    BY <2>3, <2>4
<1>9. /\ fresh' \in [Panes -> BOOLEAN] /\ content' \in [Panes -> BOOLEAN]
  BY <1>1, <1>5 DEF Typed, PaneTyped
<1>10. \A r \in Panes : r # p => SameAt(r)
  BY <1>3, <1>5, <1>8 DEF SameAt, NearAt
<1>11. PaneTyped'
  BY <1>1, <1>3, <1>5, <1>8, <1>9 DEF Typed, PaneTyped
<1>12. /\ open' \subseteq Conns /\ req' = req /\ UNCHANGED <<sockets, dims, hidden>>
       /\ req' \in [Conns -> [kind : {"idle", "none", "anchor", "new"}, epoch : Nat, seq : Nat]]
       /\ \A c \in Conns : req'[c] = req[c]
  BY <1>1, <1>5, HostRests
<1>13. PaneInv(p)'
  <2>1. Orderly(p)' /\ InStep(p)' /\ Asked(p)'
    <3>1. m.type \in Numbered /\ conn'[p] = conn[p] /\ m = Head(inbox[p]) /\ counting'[p] = TRUE
      BY <1>3, <1>4, <1>5 DEF Numbered, m
    <3>2. UNCHANGED <<stream, pty, req, sockets, hidden>>
      BY <1>5, <1>12
    <3> QED
      BY <1>1, <1>3, <1>8, <3>1, <3>2, Consumed
  <2>2. Screen(p)'
    <3>1. Within(m.epoch, m.upto) /\ UNCHANGED <<epoch, epochs, out>>
      BY <1>3, <1>5 DEF OrderlyAt, stream
    <3>2. Marks(saved[p], kept[p])' /\ Within(kept[p].epoch, EndOf(kept[p]))'
      BY <1>1, <1>5, <3>1 DEF PaneInv, Screen, Marks, Within
    <3>3. Within(painted[p].epoch, EndOf(painted[p]))
      BY <1>1 DEF PaneInv, Screen
    <3>4. Within(painted[p].epoch, Tip(p))' /\ Within(painted[p].epoch, EndOf(painted[p]))'
      BY <1>4, <1>8, <3>1, <3>3 DEF Within
    <3>5. conn'[p] # 0
      BY <1>3, <1>5
    <3> QED
      BY <1>8, <3>2, <3>4, <3>5 DEF Screen
  <2> QED
    BY <1>8, <2>1, <2>2 DEF PaneInv
<1>14. UNCHANGED <<stream, pty, sockets, dims, hidden, owed>>
  BY <1>5, <1>12
<1>15. outbox' \in [Conns -> Seq(Reports)]
  BY <1>1, <1>5 DEF Typed, HostTyped
<1> QED
  BY <1>5, <1>10, <1>11, <1>12, <1>13, <1>14, <1>15, PaneStep

LEMMA PaintStep ==
  ASSUME IInv, NEW p \in Panes \ muddled, Paint(p)
  PROVE  IInv'
<1> DEFINE m == Head(queued[p]).chunk
           n == m.upto - m.from
<1>1. Typed /\ PaneInv(p)
  BY DEF IInv
<1>2. /\ queued[p] # <<>> /\ queued \in [Panes -> Seq(Chunk)] /\ queued[p] \in Seq(Chunk)
  BY <1>1 DEF Paint, Typed, PaneTyped
<1>3. PICK l \in Nat \ {0} :
        /\ l = Len(queued[p]) /\ Head(queued[p]) = queued[p][1] /\ Head(queued[p]) \in Chunk
        /\ Tail(queued[p]) \in Seq(Chunk) /\ Len(Tail(queued[p])) = l - 1
        /\ \A i \in 1..(l - 1) : Tail(queued[p])[i] = queued[p][i + 1]
  BY <1>2, TailFacts
<1>4. m \in Frame /\ Head(queued[p]).counts = TRUE
  <2>1. 1 \in 1..l
    OBVIOUS
  <2>2. queued[p][1].counts
    BY <1>1, <1>3, <2>1 DEF PaneInv, Queue
  <2> QED
    BY <1>3, <2>2 DEF Chunk
<1>5. /\ queued' = [queued EXCEPT ![p] = Tail(queued[p])]
      /\ anchor' = Counted(p, n, TRUE) /\ painted' = Onto(p, m)
      /\ UNCHANGED <<stream, pty, host, wire, link, content, visible, box, saved, kept,
                     muddled, owed>>
  BY <1>2, <1>4 DEF Paint
<1>6. m.from \in Nat /\ m.upto \in Nat /\ n \in Nat /\ m.from + n = m.upto
  BY <1>4, FrameFacts
<1>7. /\ 1 \in 1..l /\ queued[p][1].chunk = m
      /\ m.epoch = painted[p].epoch /\ Within(m.epoch, m.upto) /\ m.from = EndOf(painted[p])
  <2>1. 1 \in 1..l /\ queued[p][1].chunk = m
    BY <1>3
  <2> QED
    BY <1>1, <1>3, <2>1 DEF PaneInv, Queue
<1>8. /\ p \in Phones /\ anchor[p] # NoAnchor /\ anchor[p].epoch # 0
      /\ anchor[p].epoch = painted[p].epoch /\ anchor[p].seq = EndOf(painted[p])
  BY <1>1, <1>2 DEF PaneInv, Screen, Marks
<1>9. /\ queued' \in [Panes -> Seq(Chunk)] /\ queued'[p] = Tail(queued[p])
      /\ \A r \in Panes : r # p => queued'[r] = queued[r]
  BY <1>2, <1>3, <1>5
<1>10. /\ painted' \in [Panes -> Run] /\ painted'[p].epoch = painted[p].epoch
       /\ EndOf(painted'[p]) = EndOf(painted[p]) + n
       /\ \A r \in Panes : r # p => painted'[r] = painted[r]
  BY <1>1, <1>4, <1>5, OntoFacts
<1>11. /\ anchor' \in [Panes -> Position]
       /\ anchor'[p] = [epoch |-> anchor[p].epoch, seq |-> anchor[p].seq + n]
       /\ \A r \in Panes : r # p => anchor'[r] = anchor[r]
  BY <1>1, <1>5, <1>6, CountedFacts
<1> HIDE DEF m, n
<1>12. EndOf(painted'[p]) = m.upto
  BY <1>6, <1>7, <1>10
<1>13. anchor'[p] # NoAnchor /\ Marks(anchor[p], painted[p])'
  <2>1. anchor'[p].epoch = anchor[p].epoch /\ anchor'[p].seq = anchor[p].seq + n
    BY <1>11
  <2> QED
    BY <1>8, <1>10, <2>1 DEF Marks, NoAnchor
<1>14. Tip(p)' = Tip(p)
  <2>1. CASE l = 1
    <3>1. queued'[p] = <<>>
      BY <1>3, <1>9, <2>1, EmptySeq
    <3> QED
      BY <1>2, <1>3, <1>7, <1>12, <2>1, <3>1 DEF Tip
  <2>2. CASE l # 1
    <3>1. queued'[p] # <<>> /\ Len(queued'[p]) = l - 1 /\ l - 1 \in 1..(l - 1)
      <4>1. l - 1 \in Nat \ {0} /\ Len(queued'[p]) = l - 1 /\ queued'[p] \in Seq(Chunk)
        BY <1>3, <1>9, <2>2
      <4> QED
        BY <4>1, EmptySeq
    <3>2. queued'[p][l - 1] = queued[p][l]
      BY <1>3, <1>9, <3>1
    <3> QED
      BY <1>2, <1>3, <3>1, <3>2 DEF Tip
  <2> QED
    BY <2>1, <2>2
<1>15. /\ UNCHANGED <<epoch, epochs, out, first>>
       /\ inbox' = inbox /\ conn' = conn /\ counting' = counting
  BY <1>5 DEF stream, wire, link
<1>16. Queue(p)'
  <2> SUFFICES ASSUME NEW i \in 1..(l - 1)
               PROVE  /\ queued'[p][i].counts
                      /\ queued'[p][i].chunk.epoch = painted'[p].epoch
                      /\ Within(queued'[p][i].chunk.epoch, queued'[p][i].chunk.upto)
                      /\ queued'[p][i].chunk.from =
                           IF i = 1 THEN EndOf(painted'[p]) ELSE queued'[p][i - 1].chunk.upto
    BY <1>3, <1>9, <1>15 DEF Queue, Within
  <2>1. queued'[p][i] = queued[p][i + 1] /\ i + 1 \in 1..l /\ i + 1 # 1 /\ (i + 1) - 1 = i
    BY <1>3, <1>9
  <2>2. /\ queued[p][i + 1].counts
        /\ queued[p][i + 1].chunk.epoch = painted[p].epoch
        /\ Within(queued[p][i + 1].chunk.epoch, queued[p][i + 1].chunk.upto)
        /\ queued[p][i + 1].chunk.from = queued[p][i].chunk.upto
    BY <1>1, <1>3, <2>1 DEF PaneInv, Queue
  <2>3. ASSUME i # 1
        PROVE  queued'[p][i - 1] = queued[p][i]
    <3>1. i - 1 \in 1..(l - 1) /\ (i - 1) + 1 = i
      BY <2>3
    <3> QED
      BY <1>3, <1>9, <3>1
  <2> QED
    BY <1>7, <1>10, <1>12, <2>1, <2>2, <2>3
<1>17. Orderly(p)' /\ InStep(p)' /\ Asked(p)'
  <2>1. ~Still(p)
    BY <1>2 DEF Still
  <2>2. UNCHANGED <<hidden, sockets, req, lastResize>>
    BY <1>5 DEF host, pty
  <2>3. ASSUME NEW i \in 1..Len(inbox[p])
        PROVE  OrderlyAt(p, i)'
    <3>1. /\ Within(inbox[p][i].epoch, inbox[p][i].upto)
          /\ Preface(p, i) /\ Follow(p, i) /\ Resume(p, i) /\ Moved(p, i)
      BY <1>1 DEF PaneInv, Orderly, OrderlyAt
    <3>2. Within(inbox[p][i].epoch, inbox[p][i].upto)'
      BY <1>15, <3>1 DEF Within
    <3>3. Preface(p, i)'
      BY <1>15, <2>1, <3>1 DEF Preface
    <3>4. Resume(p, i)'
      BY <1>15, <2>1, <3>1 DEF Resume
    <3>5. Follow(p, i)'
      BY <1>10, <1>14, <1>15, <3>1 DEF Follow
    <3>6. Moved(p, i)'
      BY <1>8, <1>10, <1>14, <1>15, <2>2, <3>1 DEF Moved, Gone
    <3> QED
      BY <3>2, <3>3, <3>4, <3>5, <3>6 DEF OrderlyAt
  <2>4. Orderly(p)'
    BY <1>15, <2>3 DEF Orderly
  <2>5. InStep(p)'
    BY <1>1, <1>10, <1>14, <1>15, <2>2 DEF PaneInv, InStep, Own, Sure, FarEpoch, FarEnd, LastOf
  <2>6. Asked(p)'
    BY <1>1, <1>15, <2>1, <2>2 DEF PaneInv, Asked, Own
  <2> QED
    BY <2>4, <2>5, <2>6
<1>18. Screen(p)'
  <2>1. Marks(saved[p], kept[p])' /\ Within(kept[p].epoch, EndOf(kept[p]))'
    BY <1>1, <1>5, <1>15 DEF PaneInv, Screen, Marks, Within
  <2>2. Within(painted[p].epoch, Tip(p))' /\ Within(painted[p].epoch, EndOf(painted[p]))'
    BY <1>1, <1>7, <1>10, <1>12, <1>14, <1>15 DEF PaneInv, Screen, Within
  <2>3. conn'[p] = 0 => inbox'[p] = <<>> /\ ~counting'[p]
    BY <1>1, <1>15 DEF PaneInv, Screen
  <2> QED
    BY <1>8, <1>13, <2>1, <2>2, <2>3 DEF Screen
<1>19. \A r \in Panes : r # p => SameAt(r)
  BY <1>5, <1>9, <1>10, <1>11, <1>15 DEF SameAt, NearAt
<1>20. PaneTyped'
  BY <1>1, <1>5, <1>9, <1>10, <1>11, <1>15 DEF Typed, PaneTyped, link
<1>21. /\ open' \subseteq Conns /\ req' = req /\ UNCHANGED <<sockets, dims, hidden>>
       /\ req' \in [Conns -> [kind : {"idle", "none", "anchor", "new"}, epoch : Nat, seq : Nat]]
       /\ \A c \in Conns : req'[c] = req[c]
  BY <1>1, <1>5, HostRests
<1>22. UNCHANGED <<stream, pty, sockets, dims, hidden, owed>>
  BY <1>5, <1>21
<1>23. outbox' \in [Conns -> Seq(Reports)]
  BY <1>1, <1>5 DEF Typed, HostTyped, wire
<1>24. PaneInv(p)'
  BY <1>16, <1>17, <1>18 DEF PaneInv
<1> QED
  BY <1>5, <1>19, <1>20, <1>21, <1>22, <1>23, <1>24, PaneStep

(* The connection goes, and with it what was under way.                    *)
LEMMA UnlinkStep ==
  ASSUME IInv, NEW p \in Panes \ muddled, Unlink(p),
         UNCHANGED <<stream, pty, host, queued, muddled, owed>>,
         outbox' \in [Conns -> Seq(Reports)],
         anchor' \in [Panes -> Position], painted' \in [Panes -> Run],
         saved' \in [Panes -> Position], kept' \in [Panes -> Run],
         content' \in [Panes -> BOOLEAN], visible' \in [Panes -> BOOLEAN], box' = box,
         \A r \in Panes : r # p => /\ anchor'[r] = anchor[r] /\ painted'[r] = painted[r]
                                    /\ saved'[r] = saved[r] /\ kept'[r] = kept[r],
         \/ painted'[p] = painted[p] /\ (p \in Phones => anchor'[p] = anchor[p])
         \/ painted'[p] = kept[p] /\ p \notin Phones,
         Marks(anchor'[p], painted'[p]), Marks(saved'[p], kept'[p]),
         kept'[p] \in {kept[p], painted[p]}
  PROVE  IInv'
<1>1. Typed /\ PaneInv(p)
  BY DEF IInv
<1>2. /\ conn \in [Panes -> 0..2] /\ ready \in [Panes -> BOOLEAN] /\ inbox \in [Panes -> Seq(Frame)]
      /\ counting \in [Panes -> BOOLEAN] /\ fresh \in [Panes -> BOOLEAN]
      /\ queued \in [Panes -> Seq(Chunk)] /\ box \in [Panes -> Boxes]
  BY <1>1 DEF Typed, PaneTyped
<1>3. /\ conn' \in [Panes -> 0..2] /\ conn'[p] = 0
      /\ inbox' \in [Panes -> Seq(Frame)] /\ inbox'[p] = <<>>
      /\ \A r \in Panes : r # p => conn'[r] = conn[r] /\ inbox'[r] = inbox[r]
  <2>1. conn' \in [Panes -> 0..2] /\ conn'[p] = 0 /\ \A r \in Panes : r # p => conn'[r] = conn[r]
    BY <1>2 DEF Unlink
  <2>2. /\ inbox' \in [Panes -> Seq(Frame)] /\ inbox'[p] = <<>>
        /\ \A r \in Panes : r # p => inbox'[r] = inbox[r]
    <3>1. <<>> \in Seq(Frame)
      OBVIOUS
    <3> QED
      BY <1>2, <3>1 DEF Unlink
  <2> QED
    BY <2>1, <2>2
<1>4. /\ ready' \in [Panes -> BOOLEAN] /\ fresh' \in [Panes -> BOOLEAN]
      /\ counting' \in [Panes -> BOOLEAN] /\ ~counting'[p]
      /\ \A r \in Panes : r # p => counting'[r] = counting[r]
  BY <1>2 DEF Unlink
<1>5. UNCHANGED <<epoch, epochs, out, queued>>
  BY DEF stream
<1>6. \A r \in Panes : r # p => SameAt(r)
  BY <1>3, <1>4, <1>5 DEF SameAt, NearAt
<1>7. PaneTyped'
  BY <1>1, <1>2, <1>3, <1>4 DEF Typed, PaneTyped
<1>8. /\ open' \subseteq Conns /\ req' = req /\ UNCHANGED <<sockets, dims, hidden>>
      /\ req' \in [Conns -> [kind : {"idle", "none", "anchor", "new"}, epoch : Nat, seq : Nat]]
      /\ \A c \in Conns : req'[c] = req[c]
  BY <1>1, HostRests
<1>9. queued[p] # <<>> => p \in Phones /\ anchor[p] # NoAnchor
  BY <1>1 DEF PaneInv, Screen
<1>10. queued[p] # <<>> => painted'[p] = painted[p] /\ anchor'[p] = anchor[p]
  BY <1>9
<1>11. /\ Within(painted[p].epoch, EndOf(painted[p])) /\ Within(kept[p].epoch, EndOf(kept[p]))
       /\ Within(painted[p].epoch, Tip(p))
  BY <1>1 DEF PaneInv, Screen
<1>12. Queue(p)'
  <2>1. CASE queued[p] = <<>>
    BY <1>5, <2>1 DEF Queue
  <2>2. CASE queued[p] # <<>>
    BY <1>1, <1>5, <1>10, <2>2 DEF PaneInv, Queue, Within
  <2> QED
    BY <2>1, <2>2
<1>13. Screen(p)'
  <2>1. Within(painted[p].epoch, EndOf(painted[p]))' /\ Within(kept[p].epoch, EndOf(kept[p]))'
    BY <1>5, <1>11 DEF Within
  <2>2. Within(painted[p].epoch, Tip(p))'
    <3>1. CASE queued[p] = <<>>
      BY <1>5, <2>1, <3>1 DEF Tip
    <3>2. CASE queued[p] # <<>>
      BY <1>5, <1>10, <1>11, <3>2 DEF Tip, Within
    <3> QED
      BY <3>1, <3>2
  <2>3. Marks(anchor[p], painted[p])' /\ Marks(saved[p], kept[p])'
    BY DEF Marks, EndOf, NoAnchor
  <2> QED
    BY <1>3, <1>4, <1>5, <1>9, <1>10, <2>1, <2>2, <2>3 DEF Screen
<1>14. Orderly(p)' /\ Asked(p)'
  BY <1>3 DEF Orderly, Asked
<1>15. InStep(p)'
  <2>1. Own(p)' \notin Conns
    BY <1>3 DEF Own, Conns
  <2>2. sockets' \subseteq Conns
    BY <1>1, <1>8 DEF Typed, HostTyped
  <2> QED
    BY <2>1, <2>2 DEF InStep
<1>16. UNCHANGED <<stream, pty, sockets, dims, hidden, owed>>
  BY <1>8
<1>17. PaneInv(p)'
  BY <1>12, <1>13, <1>14, <1>15 DEF PaneInv
<1> QED
  BY <1>6, <1>7, <1>8, <1>16, <1>17, PaneStep

LEMMA AnchorOrNot ==
  ASSUME IInv, NEW p \in Panes,
         anchor' = IF Poisoned(p) THEN [anchor EXCEPT ![p] = NoAnchor] ELSE anchor
  PROVE  /\ anchor' \in [Panes -> Position] /\ anchor'[p] \in {anchor[p], NoAnchor}
         /\ p \in Phones => anchor'[p] = anchor[p]
         /\ \A r \in Panes : r # p => anchor'[r] = anchor[r]
<1>1. anchor \in [Panes -> Position] /\ NoAnchor \in Position
  BY DEF IInv, Typed, PaneTyped, NoAnchor, Position
<1>2. Poisoned(p) => p \notin Phones
  BY DEF Poisoned
<1> QED
  BY <1>1, <1>2

LEMMA LoseStep ==
  ASSUME IInv, NEW p \in Panes \ muddled, Lose(p)
  PROVE  IInv'
<1>1. /\ Unlink(p) /\ anchor' = IF Poisoned(p) THEN [anchor EXCEPT ![p] = NoAnchor] ELSE anchor
      /\ UNCHANGED <<stream, pty, host, outbox, content, queued, painted, visible, box, saved,
                     kept, muddled, owed>>
  BY DEF Lose
<1>2. /\ anchor' \in [Panes -> Position] /\ anchor'[p] \in {anchor[p], NoAnchor}
      /\ p \in Phones => anchor'[p] = anchor[p]
      /\ \A r \in Panes : r # p => anchor'[r] = anchor[r]
  BY <1>1, AnchorOrNot
<1>3. /\ outbox' \in [Conns -> Seq(Reports)] /\ painted' \in [Panes -> Run]
      /\ saved' \in [Panes -> Position] /\ kept' \in [Panes -> Run]
      /\ content' \in [Panes -> BOOLEAN] /\ visible' \in [Panes -> BOOLEAN]
  BY <1>1 DEF IInv, Typed, HostTyped, PaneTyped
<1>4. Marks(anchor[p], painted[p]) /\ Marks(saved[p], kept[p])
  BY DEF IInv, PaneInv, Screen
<1>5. Marks(anchor'[p], painted'[p]) /\ Marks(saved'[p], kept'[p])
  BY <1>1, <1>2, <1>4 DEF Marks
<1> QED
  BY <1>1, <1>2, <1>3, <1>5, UnlinkStep

LEMMA ParkStep ==
  ASSUME IInv, NEW p \in Panes \ muddled, Park(p)
  PROVE  IInv'
<1>1. /\ p \notin Phones /\ Says(p, <<Report("hide", 0)>>)
      /\ visible' = [visible EXCEPT ![p] = FALSE] /\ kept' = [kept EXCEPT ![p] = painted[p]]
      /\ UNCHANGED <<stream, pty, host, content, queued, painted, box, muddled, owed>>
  BY DEF Park
<1>2. PICK a \in {anchor[p], NoAnchor} :
        saved' = [saved EXCEPT ![p] = a] /\ (Unplaced(p) => a = NoAnchor)
  BY DEF Park, Persistable
<1>3. /\ Typed /\ anchor \in [Panes -> Position] /\ NoAnchor \in Position
      /\ painted \in [Panes -> Run] /\ saved \in [Panes -> Position] /\ kept \in [Panes -> Run]
      /\ content \in [Panes -> BOOLEAN] /\ visible \in [Panes -> BOOLEAN]
  BY DEF IInv, Typed, PaneTyped, NoAnchor, Position
<1>4. /\ saved' \in [Panes -> Position] /\ saved'[p] = a
      /\ kept' \in [Panes -> Run] /\ kept'[p] = painted[p]
      /\ \A r \in Panes : r # p => saved'[r] = saved[r] /\ kept'[r] = kept[r]
  BY <1>1, <1>2, <1>3
<1>5. /\ painted' \in [Panes -> Run] /\ content' \in [Panes -> BOOLEAN]
      /\ visible' \in [Panes -> BOOLEAN]
  BY <1>1, <1>3
<1>6. outbox' \in [Conns -> Seq(Reports)]
  BY <1>1, <1>3, ReportFacts, SaysFacts
<1>7. PaneInv(p) /\ Marks(anchor[p], painted[p])
  BY DEF IInv, PaneInv, Screen
<1>8. CASE ~Unplaced(p)
  <2>1. Unlink(p) /\ anchor' = IF Poisoned(p) THEN [anchor EXCEPT ![p] = NoAnchor] ELSE anchor
    BY <1>8 DEF Park
  <2>2. /\ anchor' \in [Panes -> Position] /\ anchor'[p] \in {anchor[p], NoAnchor}
        /\ \A r \in Panes : r # p => anchor'[r] = anchor[r]
    BY <2>1, AnchorOrNot
  <2>3. Marks(anchor'[p], painted'[p]) /\ Marks(saved'[p], kept'[p])
    BY <1>1, <1>4, <1>7, <2>2 DEF Marks
  <2> QED
    BY <1>1, <1>4, <1>5, <1>6, <2>1, <2>2, <2>3, UnlinkStep
<1>9. CASE Unplaced(p)
  <2>1. UNCHANGED <<inbox, link, anchor>> /\ saved'[p] = NoAnchor
    BY <1>2, <1>4, <1>9 DEF Park
  <2>2. PaneInv(p)'
    <3>1. UNCHANGED <<stream, pty, host, inbox, link, anchor, queued, painted>>
      BY <1>1, <2>1
    <3>2. Tip(p)' = Tip(p) /\ Own(p)' = Own(p)
      BY <3>1 DEF Tip, Own, link
    <3>3. Screen(p)'
      BY <1>4, <1>7, <2>1, <3>1, <3>2
      DEF PaneInv, Screen, Marks, Within, stream, link, EndOf
    <3>4. Queue(p)'
      BY <1>7, <3>1 DEF PaneInv, Queue, Within, stream
    <3>5. ASSUME NEW i \in 1..Len(inbox[p])
          PROVE  OrderlyAt(p, i)'
      <4>1. OrderlyAt(p, i)
        BY <1>7 DEF PaneInv, Orderly
      <4> QED
        BY <3>1, <3>2, <4>1
        DEF OrderlyAt, Preface, Follow, Resume, Moved, Still, OnlyAhead, Within, Gone, stream,
            pty, link
    <3>6. Orderly(p)'
      BY <3>1, <3>5 DEF Orderly
    <3>7. InStep(p)'
      BY <1>7, <3>1, <3>2
      DEF PaneInv, InStep, Sure, FarEpoch, FarEnd, LastOf, stream, pty, host, link
    <3>8. Asked(p)'
      BY <1>7, <3>1, <3>2 DEF PaneInv, Asked, Still, host, link
    <3> QED
      BY <3>3, <3>4, <3>6, <3>7, <3>8 DEF PaneInv
  <2>3. \A r \in Panes : r # p => SameAt(r)
    BY <1>1, <1>4, <2>1 DEF SameAt, NearAt, link
  <2>4. PaneTyped'
    BY <1>1, <1>3, <1>4, <1>5, <2>1 DEF Typed, PaneTyped, link
  <2>5. /\ open' \subseteq Conns /\ req' = req /\ UNCHANGED <<sockets, dims, hidden>>
        /\ req' \in [Conns -> [kind : {"idle", "none", "anchor", "new"}, epoch : Nat, seq : Nat]]
        /\ \A c \in Conns : req'[c] = req[c]
    BY <1>1, <1>3, HostRests
  <2>6. UNCHANGED <<stream, pty, sockets, dims, hidden, muddled, owed>>
    BY <1>1, <2>5
  <2> QED
    BY <1>6, <2>2, <2>3, <2>4, <2>5, <2>6, PaneStep
<1> QED
  BY <1>8, <1>9

LEMMA ReloadStep ==
  ASSUME IInv, NEW p \in Panes \ muddled, Reload(p)
  PROVE  IInv'
<1>1. /\ p \notin Phones /\ Unlink(p) /\ visible' = [visible EXCEPT ![p] = TRUE]
      /\ anchor' = [anchor EXCEPT ![p] = saved'[p]] /\ painted' = [painted EXCEPT ![p] = kept'[p]]
      /\ content' = [content EXCEPT ![p] = kept'[p] # Blank]
      /\ UNCHANGED <<stream, pty, host, outbox, queued, box, muddled, owed>>
  BY DEF Reload
<1>2. /\ anchor \in [Panes -> Position] /\ painted \in [Panes -> Run]
      /\ saved \in [Panes -> Position] /\ kept \in [Panes -> Run]
      /\ outbox \in [Conns -> Seq(Reports)] /\ NoAnchor \in Position
      /\ visible \in [Panes -> BOOLEAN] /\ content \in [Panes -> BOOLEAN]
  BY DEF IInv, Typed, HostTyped, PaneTyped, NoAnchor, Position
<1>3. Marks(anchor[p], painted[p]) /\ Marks(saved[p], kept[p])
  BY DEF IInv, PaneInv, Screen
<1>4. /\ saved' \in [Panes -> Position] /\ kept' \in [Panes -> Run]
      /\ Marks(saved'[p], kept'[p]) /\ kept'[p] \in {kept[p], painted[p]}
      /\ \A r \in Panes : r # p => saved'[r] = saved[r] /\ kept'[r] = kept[r]
  <2>1. CASE UNCHANGED <<saved, kept>>
    BY <1>2, <1>3, <2>1
  <2>2. ASSUME NEW a \in {anchor[p], NoAnchor}, saved' = [saved EXCEPT ![p] = a],
               kept' = [kept EXCEPT ![p] = painted[p]]
        PROVE  /\ saved' \in [Panes -> Position] /\ kept' \in [Panes -> Run]
               /\ Marks(saved'[p], kept'[p]) /\ kept'[p] \in {kept[p], painted[p]}
               /\ \A r \in Panes : r # p => saved'[r] = saved[r] /\ kept'[r] = kept[r]
    <3>1. /\ saved' \in [Panes -> Position] /\ saved'[p] = a
          /\ kept' \in [Panes -> Run] /\ kept'[p] = painted[p]
          /\ \A r \in Panes : r # p => saved'[r] = saved[r] /\ kept'[r] = kept[r]
      BY <1>2, <2>2
    <3>2. Marks(a, painted[p])
      BY <1>3 DEF Marks
    <3> QED
      BY <3>1, <3>2
  <2> QED
    BY <2>1, <2>2 DEF Reload, Persistable
<1>5. /\ anchor' \in [Panes -> Position] /\ anchor'[p] = saved'[p]
      /\ \A r \in Panes : r # p => anchor'[r] = anchor[r]
  BY <1>1, <1>2, <1>4
<1>6. /\ painted' \in [Panes -> Run] /\ painted'[p] = kept'[p]
      /\ \A r \in Panes : r # p => painted'[r] = painted[r]
  BY <1>1, <1>2, <1>4
<1>7. visible' \in [Panes -> BOOLEAN] /\ content' \in [Panes -> BOOLEAN]
  <2>1. (kept'[p] # Blank) \in BOOLEAN
    OBVIOUS
  <2> QED
    BY <1>1, <1>2, <2>1, Zenon
<1>8. outbox' \in [Conns -> Seq(Reports)]
  BY <1>1, <1>2
<1>9. Marks(anchor'[p], painted'[p])
  BY <1>4, <1>5, <1>6
<1> QED
  BY <1>1, <1>4, <1>5, <1>6, <1>7, <1>8, <1>9, UnlinkStep

-----------------------------------------------------------------------------
(* A phone that lost its position goes on, and nothing is said of it.      *)

LEMMA MuddledStep ==
  ASSUME IInv, NEW p \in muddled,
         ReadAttached(p) \/ ReadPreamble(p) \/ ReadBytes(p) \/ Paint(p) \/ Lose(p)
  PROVE  IInv'
<1>1. Typed /\ p \in Phones /\ p \in Panes
  BY OutputAssumption DEF IInv, Typed, PaneTyped
<1>2. /\ conn \in [Panes -> 0..2] /\ ready \in [Panes -> BOOLEAN] /\ inbox \in [Panes -> Seq(Frame)]
      /\ counting \in [Panes -> BOOLEAN] /\ fresh \in [Panes -> BOOLEAN]
      /\ content \in [Panes -> BOOLEAN] /\ queued \in [Panes -> Seq(Chunk)]
      /\ anchor \in [Panes -> Position] /\ painted \in [Panes -> Run]
      /\ outbox \in [Conns -> Seq(Reports)]
  BY <1>1 DEF Typed, HostTyped, PaneTyped
<1>3. UNCHANGED <<stream, pty, host, visible, box, saved, kept, muddled, owed>>
  BY DEF ReadAttached, ReadPreamble, ReadBytes, Paint, Lose
<1>4. /\ outbox' \in [Conns -> Seq(Reports)] /\ PaneTyped'
      /\ \A r \in Panes : r # p => SameAt(r)
  <2>1. ASSUME NEW type \in Ahead \cup Numbered, Reads(p, type)
        PROVE  /\ inbox' \in [Panes -> Seq(Frame)] /\ Head(inbox[p]) \in Frame
               /\ Head(inbox[p]).type = type
               /\ \A r \in Panes : r # p => inbox'[r] = inbox[r]
    BY <1>1, <2>1, ReadFacts
  <2>2. {"attached", "preamble", "bytes"} \subseteq Ahead \cup Numbered
    BY DEF Ahead, Numbered
  <2>3. CASE ReadAttached(p)
    <3>1. /\ inbox' \in [Panes -> Seq(Frame)] /\ \A r \in Panes : r # p => inbox'[r] = inbox[r]
          /\ UNCHANGED <<conn, anchor, content, queued, painted>>
          /\ ready' = [ready EXCEPT ![p] = TRUE]
          /\ counting' = [counting EXCEPT ![p] = FALSE] /\ fresh' = [fresh EXCEPT ![p] = FALSE]
      BY <2>1, <2>2, <2>3 DEF ReadAttached, screen
    <3>2. <<ShownAs(p), Report("resize", box[p])>> \in Seq(Reports)
      <4>1. \E type \in {"hide", "show"} : ShownAs(p) = Report(type, 0)
        BY DEF ShownAs
      <4>2. ShownAs(p) \in Reports /\ Report("resize", box[p]) \in Reports
        BY <1>1, <4>1, ReportFacts DEF Typed, PaneTyped
      <4> QED
        BY <4>2
    <3>3. outbox' \in [Conns -> Seq(Reports)]
      BY <1>1, <2>3, <3>2, SaidFacts DEF ReadAttached
    <3>4. /\ ready' \in [Panes -> BOOLEAN] /\ counting' \in [Panes -> BOOLEAN]
          /\ fresh' \in [Panes -> BOOLEAN] /\ \A r \in Panes : r # p => counting'[r] = counting[r]
      BY <1>2, <3>1
    <3> QED
      BY <1>1, <1>2, <1>3, <3>1, <3>3, <3>4 DEF Typed, PaneTyped, SameAt, NearAt
  <2>4. CASE ReadPreamble(p)
    <3>1. /\ inbox' \in [Panes -> Seq(Frame)] /\ \A r \in Panes : r # p => inbox'[r] = inbox[r]
          /\ UNCHANGED <<outbox, conn, ready, counting, anchor, queued, painted>>
          /\ fresh' = [fresh EXCEPT ![p] = TRUE] /\ content' = [content EXCEPT ![p] = TRUE]
      BY <2>1, <2>2, <2>4 DEF ReadPreamble
    <3> QED
      BY <1>1, <1>2, <1>3, <3>1 DEF Typed, PaneTyped, SameAt, NearAt
  <2>5. CASE ReadBytes(p)
    <3>1. /\ inbox' \in [Panes -> Seq(Frame)] /\ \A r \in Panes : r # p => inbox'[r] = inbox[r]
          /\ Head(inbox[p]) \in Frame /\ Head(inbox[p]).type = "bytes"
      BY <2>1, <2>2, <2>5 DEF ReadBytes
    <3>2. PICK q : /\ q = [chunk |-> Head(inbox[p]), counts |-> counting[p]]
                   /\ queued' = [queued EXCEPT ![p] = Append(queued[p], q)]
      BY <1>1, <1>2, <2>5 DEF ReadBytes, Arrived
    <3>3. q \in Chunk
      BY <1>1, <1>2, <3>1, <3>2 DEF Chunk
    <3>4. Append(queued[p], q) \in Seq(Chunk)
      BY <1>1, <1>2, <3>3, AppendFacts
    <3>5. queued' \in [Panes -> Seq(Chunk)] /\ \A r \in Panes : r # p => queued'[r] = queued[r]
      BY <1>2, <3>2, <3>4
    <3>6. /\ UNCHANGED <<outbox, conn, ready, counting, anchor, painted>>
          /\ fresh' = [fresh EXCEPT ![p] = TRUE] /\ content' = [content EXCEPT ![p] = TRUE]
      BY <1>1, <2>5 DEF ReadBytes
    <3> QED
      BY <1>1, <1>2, <1>3, <3>1, <3>5, <3>6 DEF Typed, PaneTyped, SameAt, NearAt
  <2>6. CASE Paint(p)
    <3>1. queued[p] # <<>> /\ queued[p] \in Seq(Chunk)
      BY <1>1, <1>2, <2>6 DEF Paint
    <3>2. Head(queued[p]) \in Chunk /\ Tail(queued[p]) \in Seq(Chunk)
      BY <3>1, TailFacts
    <3>3. PICK m \in Frame :
            /\ queued' = [queued EXCEPT ![p] = Tail(queued[p])]
            /\ anchor' = Counted(p, m.upto - m.from, Head(queued[p]).counts)
            /\ painted' = Onto(p, m)
            /\ UNCHANGED <<wire, link, content>>
      BY <1>2, <2>6, <3>2 DEF Paint, Chunk
    <3>4. m.upto - m.from \in Nat
      BY FrameFacts
    <3>5. /\ painted' \in [Panes -> Run] /\ anchor' \in [Panes -> Position]
          /\ \A r \in Panes : r # p => painted'[r] = painted[r] /\ anchor'[r] = anchor[r]
      BY <1>1, <3>3, <3>4, OntoFacts, CountedFacts
    <3>6. queued' \in [Panes -> Seq(Chunk)] /\ \A r \in Panes : r # p => queued'[r] = queued[r]
      BY <1>2, <3>2, <3>3
    <3> QED
      BY <1>1, <1>2, <1>3, <3>3, <3>5, <3>6 DEF Typed, PaneTyped, SameAt, NearAt, wire, link
  <2>7. CASE Lose(p)
    <3>1. /\ Unlink(p) /\ anchor' = anchor /\ UNCHANGED <<outbox, content, queued, painted>>
      BY <1>1, <2>7 DEF Lose, Poisoned
    <3>2. /\ conn' \in [Panes -> 0..2] /\ ready' \in [Panes -> BOOLEAN]
          /\ counting' \in [Panes -> BOOLEAN] /\ fresh' \in [Panes -> BOOLEAN]
          /\ \A r \in Panes : r # p => conn'[r] = conn[r] /\ counting'[r] = counting[r]
      <4>1. conn' \in [Panes -> 0..2] /\ \A r \in Panes : r # p => conn'[r] = conn[r]
        BY <1>1, <1>2, <3>1 DEF Unlink
      <4>2. /\ ready' \in [Panes -> BOOLEAN] /\ counting' \in [Panes -> BOOLEAN]
            /\ fresh' \in [Panes -> BOOLEAN] /\ \A r \in Panes : r # p => counting'[r] = counting[r]
        BY <1>1, <1>2, <3>1 DEF Unlink
      <4> QED
        BY <4>1, <4>2
    <3>3. inbox' \in [Panes -> Seq(Frame)] /\ \A r \in Panes : r # p => inbox'[r] = inbox[r]
      <4>1. <<>> \in Seq(Frame)
        OBVIOUS
      <4> QED
        BY <1>2, <3>1, <4>1 DEF Unlink
    <3> QED
      BY <1>1, <1>2, <1>3, <3>1, <3>2, <3>3 DEF Typed, PaneTyped, SameAt, NearAt
  <2> QED
    BY <2>3, <2>4, <2>5, <2>6, <2>7
<1>5. /\ open' \subseteq Conns /\ req' = req /\ UNCHANGED <<sockets, dims, hidden>>
      /\ req' \in [Conns -> [kind : {"idle", "none", "anchor", "new"}, epoch : Nat, seq : Nat]]
      /\ \A c \in Conns : req'[c] = req[c]
  BY <1>1, <1>3, HostRests
<1>6. UNCHANGED <<stream, pty, sockets, dims, hidden, muddled, owed>> /\ p \in muddled'
  BY <1>3, <1>5
<1> QED
  BY <1>1, <1>4, <1>5, <1>6, PaneStep

LEMMA Start == Init => IInv
<1> SUFFICES ASSUME Init
             PROVE  IInv
  OBVIOUS
<1>1. /\ epoch = 0 /\ epochs = 0 /\ out = 0 /\ first = 0 /\ lastResize = -1 /\ layout = <<>>
      /\ size = Max(Boxes) /\ kernel = size /\ nudge = FALSE /\ restoring = FALSE
      /\ open = {} /\ req = [c \in Conns |-> NoRequest] /\ sockets = {} /\ owed = {}
      /\ dims = [c \in Conns |-> 0] /\ hidden = [c \in Conns |-> "no"]
      /\ inbox = [p \in Panes |-> <<>>] /\ outbox = [c \in Conns |-> <<>>]
      /\ conn = [p \in Panes |-> 0] /\ ready = [p \in Panes |-> FALSE]
      /\ counting = [p \in Panes |-> FALSE] /\ fresh = [p \in Panes |-> FALSE]
      /\ anchor = [p \in Panes |-> NoAnchor] /\ content = [p \in Panes |-> FALSE]
      /\ visible = [p \in Panes |-> TRUE] /\ queued = [p \in Panes |-> <<>>]
      /\ saved = [p \in Panes |-> NoAnchor]
      /\ painted = [p \in Panes |-> Blank] /\ kept = [p \in Panes |-> Blank]
      /\ muddled = {}
  BY DEF Init
<1>2. size \in Nat \ {0}
  <2>1. \E b \in Boxes : \A other \in Boxes : b >= other
    BY OutputAssumption
  <2>2. Max(Boxes) \in Boxes
    BY <2>1 DEF Max
  <2> QED
    BY <1>1, <2>2, OutputAssumption
<1>3. NoAnchor \in Position /\ Blank \in Run /\ EndOf(Blank) = 0 /\ Blank.epoch = 0
  <2>1. <<>> \in Seq(Nat) /\ Len(<<>>) = 0
    OBVIOUS
  <2> QED
    BY <2>1 DEF NoAnchor, Position, Blank, Run, EndOf
<1>4. NoRequest \in [kind : {"idle", "none", "anchor", "new"}, epoch : Nat, seq : Nat]
  BY DEF NoRequest
<1>5. HostTyped
  <2>1. layout \in Seq(Nat) /\ Len(layout) = out
    BY <1>1
  <2>2. /\ dims \in [Conns -> Boxes \cup {0}] /\ hidden \in [Conns -> {"no", "step", "diverged"}]
        /\ outbox \in [Conns -> Seq(Reports)]
        /\ req \in [Conns -> [kind : {"idle", "none", "anchor", "new"}, epoch : Nat, seq : Nat]]
    BY <1>1, <1>4
  <2>3. nudge \in BOOLEAN /\ restoring \in BOOLEAN
    BY <1>1
  <2> QED
    BY <1>1, <1>2, <2>1, <2>2, <2>3 DEF HostTyped
<1>6. PaneTyped
  <2>1. box \in [Panes -> Boxes]
    BY OutputAssumption DEF Init
  <2>2. inbox \in [Panes -> Seq(Frame)] /\ queued \in [Panes -> Seq(Chunk)]
    BY <1>1
  <2>3. /\ conn \in [Panes -> 0..2] /\ ready \in [Panes -> BOOLEAN]
        /\ counting \in [Panes -> BOOLEAN] /\ fresh \in [Panes -> BOOLEAN]
        /\ content \in [Panes -> BOOLEAN] /\ visible \in [Panes -> BOOLEAN]
    BY <1>1
  <2>4. /\ anchor \in [Panes -> Position] /\ saved \in [Panes -> Position]
        /\ painted \in [Panes -> Run] /\ kept \in [Panes -> Run]
    BY <1>1, <1>3
  <2> QED
    BY <1>1, <2>1, <2>2, <2>3, <2>4 DEF PaneTyped
<1>7. HostInv
  <2>1. EffectiveDims(dims, hidden) = 0
    BY <1>1, <1>5, NoneSeen DEF HostTyped
  <2>2. SmallestVisible
    BY <1>1, <2>1 DEF SmallestVisible
  <2> QED
    BY <1>1, <2>2 DEF HostInv, NudgeIsUndone
<1>8. ASSUME NEW p \in Panes \ muddled
      PROVE  PaneInv(p)
  <2>1. /\ anchor[p] = NoAnchor /\ saved[p] = NoAnchor /\ painted[p] = Blank /\ kept[p] = Blank
        /\ queued[p] = <<>> /\ inbox[p] = <<>> /\ conn[p] = 0 /\ ~counting[p]
    BY <1>1
  <2>2. Screen(p)
    BY <1>1, <1>3, <2>1 DEF Screen, Marks, Within, Tip
  <2>3. Queue(p) /\ Orderly(p)
    BY <2>1 DEF Queue, Orderly
  <2>4. InStep(p) /\ Asked(p)
    BY <1>1, <2>1 DEF InStep, Asked
  <2> QED
    BY <2>2, <2>3, <2>4 DEF PaneInv
<1> QED
  BY <1>5, <1>6, <1>7, <1>8 DEF IInv, Typed

LEMMA Inductive ==
  ASSUME IInv, [Next]_vars
  PROVE  IInv'
<1>1. CASE HostNext
  <2>1. CASE Adopt \/ DaemonDisconnect
    BY <2>1, SessionStep
  <2>2. CASE Output
    BY <2>2, OutputStep
  <2>3. CASE NudgeFires \/ Restore
    BY <2>3, TimerStep
  <2>4. ASSUME NEW c \in Conns,
               \/ Attach(c) \/ Ignore(c) \/ HandleHide(c) \/ HandleShow(c) \/ HandleResize(c)
               \/ SweepDrop(c) \/ PeerCloses(c) \/ CloseEvent(c)
        PROVE  IInv'
    BY <2>4, AttachStep, PeerStep, HideStep, ShowStep, ResizeStep, SweepStep, CloseStep
  <2> QED
    BY <1>1, <2>1, <2>2, <2>3, <2>4 DEF HostNext
<1>2. ASSUME NEW p \in Panes, PaneNext(p)
      PROVE  IInv'
  <2>1. CASE p \in muddled
    <3>1. p \in Phones
      BY <2>1 DEF IInv, Typed, PaneTyped
    <3>2. ~Park(p) /\ ~Reload(p)
      BY <3>1 DEF Park, Reload
    <3> QED
      BY <1>2, <2>1, <3>2, DialStep, SyncedStep, MoveStep, MuddledStep DEF PaneNext
  <2>2. CASE p \notin muddled
    BY <1>2, <2>2, DialStep, PrefaceStep, SyncedStep, BytesStep, PaintStep, LoseStep, ParkStep,
       MoveStep, ReloadStep DEF PaneNext
  <2> QED
    BY <2>1, <2>2
<1>3. CASE UNCHANGED vars
  BY <1>3, PeerStep
<1> QED
  BY <1>1, <1>2, <1>3 DEF Next

(* The invariant above holds of every state the output path reaches.       *)
THEOREM Invariance == Spec => []IInv
<1>1. IInv /\ [Next]_vars => IInv'
  BY Inductive
<1> QED
  BY <1>1, Start, PTL DEF Spec

(* What was missed is a part of what is owed, and the types that no other  *)
(* part of the invariant rests on.                                         *)
Standing ==
  /\ missed \subseteq owed
  /\ awake \in [Panes -> BOOLEAN] /\ heard \in [Panes -> {"nothing", "bytes", "synced"}]

LEMMA StandingKept ==
  ASSUME Standing, [Next]_vars
  PROVE  Standing'
<1>1. ASSUME NEW left, Repaints(left), UNCHANGED pane
      PROVE  Standing'
  <2>1. missed' \subseteq owed'
    BY <1>1 DEF Repaints
  <2> QED
    BY <1>1, <2>1 DEF Standing, pane
<1>2. ASSUME \/ missed' = missed /\ owed \subseteq owed'
             \/ missed' = {}, UNCHANGED pane
      PROVE  Standing'
  BY <1>2 DEF Standing, pane
<1>3. ASSUME HostNext
      PROVE  Standing'
  <2>1. CASE Adopt \/ DaemonDisconnect
    BY <1>2, <2>1 DEF Adopt, DaemonDisconnect
  <2>2. CASE Output \/ NudgeFires \/ Restore
    BY <1>1, <2>2 DEF Output, NudgeFires, Restore
  <2>3. ASSUME NEW c \in Conns, Attach(c) \/ Ignore(c) \/ PeerCloses(c)
        PROVE  Standing'
    BY <1>2, <2>3 DEF Attach, Ignore, PeerCloses
  <2>4. ASSUME NEW c \in Conns, HandleHide(c) \/ SweepDrop(c) \/ CloseEvent(c)
        PROVE  Standing'
    BY <1>1, <2>4 DEF HandleHide, SweepDrop, CloseEvent
  <2>5. ASSUME NEW c \in Conns, HandleShow(c) \/ HandleResize(c)
        PROVE  Standing'
    <3>1. UNCHANGED pane /\ \E left : Repaints(left)
      BY <2>5, Zenon DEF HandleShow, HandleResize
    <3> QED
      BY <1>1, <3>1
  <2> QED
    BY <1>3, <2>1, <2>2, <2>3, <2>4, <2>5 DEF HostNext
<1>4. ASSUME NEW p \in Panes, PaneNext(p)
      PROVE  Standing'
  <2>1. /\ UNCHANGED <<owed, missed>>
        /\ awake' = awake \/ \E b \in BOOLEAN : awake' = [awake EXCEPT ![p] = b]
        /\ heard' = heard \/ \E s \in {"nothing", "synced"} : heard' = [heard EXCEPT ![p] = s]
                          \/ Hears(p)
    <3>1. CASE Dial(p) \/ ReadAttached(p) \/ ReadPreamble(p) \/ ReadSynced(p) \/ ReadBytes(p)
      BY <3>1 DEF Dial, ReadAttached, ReadPreamble, ReadSynced, ReadBytes
    <3>2. CASE Paint(p) \/ Lose(p) \/ Park(p) \/ Unpark(p) \/ Reload(p) \/ Toggle(p) \/ Fit(p)
      BY <3>2 DEF Paint, Lose, Park, Unpark, Reload, Toggle, Fit
    <3> QED
      BY <1>4, <3>1, <3>2 DEF PaneNext
  <2>2. awake' \in [Panes -> BOOLEAN]
    BY <2>1 DEF Standing
  <2>3. heard' \in [Panes -> {"nothing", "bytes", "synced"}]
    BY <2>1 DEF Standing, Hears
  <2> QED
    BY <2>1, <2>2, <2>3 DEF Standing
<1>5. CASE UNCHANGED vars
  BY <1>2, <1>5 DEF vars
<1> QED
  BY <1>3, <1>4, <1>5 DEF Next

(* Every variable of the session, the PTY, the wires and the panes keeps   *)
(* its type, a PTY always has rows and only an attached client is owed a   *)
(* redraw.                                                                 *)
THEOREM TypeCorrect == Spec => []TypeOK
<1>1. IInv /\ Standing => TypeOK
  <2> SUFFICES ASSUME IInv, Standing
               PROVE  TypeOK
    OBVIOUS
  <2>1. HostTyped /\ PaneTyped
    BY DEF IInv, Typed
  <2>2. Seq(Frame) \subseteq Seq(Step)
    BY DEF Frame
  <2>3. Seq(Chunk) \subseteq Seq([chunk : Step, counts : BOOLEAN])
    <3>1. Frame \subseteq Step
      BY DEF Frame
    <3>2. [chunk : Frame, counts : BOOLEAN] \subseteq [chunk : Step, counts : BOOLEAN]
      BY <3>1
    <3>3. Chunk \subseteq [chunk : Step, counts : BOOLEAN]
      BY <3>2 DEF Chunk
    <3> QED
      BY <3>3, WiderSeq
  <2>4. /\ inbox \in [Panes -> Seq(Step)]
        /\ queued \in [Panes -> Seq([chunk : Step, counts : BOOLEAN])]
    BY <2>1, <2>2, <2>3 DEF PaneTyped
  <2> QED
    BY <2>1, <2>4 DEF HostTyped, PaneTyped, Standing, TypeOK
<1>2. Init => Standing
  BY DEF Init, Standing
<1>3. Standing /\ [Next]_vars => Standing'
  BY StandingKept
<1> QED
  BY <1>1, <1>2, <1>3, Invariance, PTL DEF Spec

(* The position a counting pane would dial with is the end of the run its  *)
(* screen shows, whatever reloads, preambles, re-anchors and catch-ups it  *)
(* went through, unless it is a phone that dialled or took a position with *)
(* chunks left to parse.                                                   *)
THEOREM PositionsMatchScreens == Spec => []CountersAgree
<1>1. IInv => CountersAgree
  BY DEF IInv, PaneInv, Screen, Marks, EndOf, CountersAgree, Describes
<1> QED
  BY <1>1, Invariance, PTL

(* An attached client that was not left behind on purpose, and has read    *)
(* and parsed what it was sent, shows everything the terminal wrote,       *)
(* unless it is a phone that dialled or took a position with chunks left   *)
(* to parse.                                                               *)
THEOREM NobodyIsLeftShort == Spec => []NobodyFallsBehind
<1>1. IInv => NobodyFallsBehind
  <2> SUFFICES ASSUME IInv, NEW c \in sockets, Current(c), hidden[c] # "diverged",
                      c[1] \notin muddled, inbox[c[1]] = <<>>, queued[c[1]] = <<>>
               PROVE  EndOf(painted[c[1]]) = out
    BY DEF NobodyFallsBehind, EndOf
  <2>1. c \in Conns
    BY DEF IInv, Typed, HostTyped
  <2>2. c[1] \in Panes /\ Own(c[1]) = c
    BY <2>1, ConnParts DEF Current, Own
  <2>3. InStep(c[1])
    BY <2>2 DEF IInv, PaneInv
  <2>4. FarEnd(c[1]) = out
    BY <2>2, <2>3 DEF InStep
  <2> QED
    BY <2>4 DEF FarEnd, Tip
<1> QED
  BY <1>1, Invariance, PTL

(* An exact catch-up replays only bytes that were laid out for the size    *)
(* the PTY has now, or that the daemon replayed.                           *)
THEOREM CatchUpFits == Spec => []ExactFits
<1>1. IInv => ExactFits
  <2> SUFFICES ASSUME IInv, NEW n \in 0..out, epoch # 0,
                      Exact([kind |-> "anchor", epoch |-> epoch, seq |-> n]),
                      NEW i \in (n + 1)..out
               PROVE  layout[i] \in {0, size}
    BY DEF ExactFits
  <2>1. out \in Nat /\ lastResize \in -1..out /\ n \in Nat /\ i \in Nat
    BY DEF IInv, Typed, HostTyped
  <2>2. n > lastResize
    BY DEF Exact
  <2>3. i \in 1..out /\ i > lastResize
    BY <2>1, <2>2
  <2> QED
    BY <2>3 DEF IInv, HostInv
<1> QED
  BY <1>1, Invariance, PTL

(* The PTY has the smallest box of the clients on screen, and a client     *)
(* that is gone or hidden constrains it no more.                           *)
THEOREM SizeIsSmallest == Spec => []SmallestVisible
<1>1. IInv => SmallestVisible
  BY DEF IInv, HostInv
<1> QED
  BY <1>1, Invariance, PTL

(* The row a nudge takes from the PTY comes back: the kernel has the size  *)
(* the session believes in, or a restore is pending.                       *)
THEOREM NudgeComesBack == Spec => []NudgeIsUndone
<1>1. IInv => NudgeIsUndone
  BY DEF IInv, HostInv
<1> QED
  BY <1>1, Invariance, PTL

-----------------------------------------------------------------------------
(* The redraw of a client that was told to skip output.                    *)

(* A nudge has the PTY at another size than the session, which is what its *)
(* end sends a SIGWINCH with.                                              *)
Coming == RepaintIsComing /\ (restoring => kernel # size /\ epoch # 0)

LEMMA ComingStays ==
  ASSUME Coming, UNCHANGED <<size, kernel, restoring, epoch>>,
         owed' \subseteq missed' \/ nudge' \/ restoring
  PROVE  Coming'
  BY Zenon DEF Coming, RepaintIsComing

LEMMA ComingNudged ==
  ASSUME Typed, Nudge(size), size' = size, epoch' = epoch, epoch # 0
  PROVE  Coming'
<1>1. size \in Nat
  BY DEF Typed, HostTyped
<1>2. kernel' # size'
  BY <1>1 DEF Nudge, Toggled
<1>3. restoring' = TRUE
  BY DEF Nudge
<1> QED
  BY <1>2, <1>3, Zenon DEF Coming, RepaintIsComing

(* A resize has the kernel signal the program, unless it coincides with    *)
(* what a nudge has made of the size: then those it leaves without are     *)
(* written down.  One to the same size ends a nudge, or changes nothing.   *)
LEMMA ApplyComes ==
  ASSUME Coming, epoch' = epoch, NEW d, NEW h, NEW force \in BOOLEAN,
         NEW next, Apply(next, d, h, force), NEW left, Repaints(left),
         next \in {0, size} => left \subseteq missed \/ nudge' \/ restoring
  PROVE  Coming'
<1>1. /\ owed' \in {{}, left} /\ (kernel' # kernel => owed' = {})
      /\ (size' = size => missed' = missed \cap owed')
  BY DEF Repaints, Coincides
<1>2. CASE ~Applied(next, force)
  <2>1. UNCHANGED <<size, kernel, restoring>>
    BY <1>2, Zenon DEF Apply
  <2>2. next \in {0, size}
    BY <1>2 DEF Applied
  <2>3. left \subseteq missed => owed' \subseteq missed'
    BY <1>1, <2>1
  <2> QED
    BY <2>1, <2>2, <2>3, ComingStays
<1>3. CASE Applied(next, force)
  <2>1. size' = next /\ kernel' = next /\ restoring' = FALSE
    BY <1>3, Zenon DEF Apply
  <2>2. CASE next # size
    <3>1. owed' \subseteq missed'
      BY <2>1, <2>2 DEF Repaints, Coincides
    <3> QED
      BY <2>1, <3>1, Zenon DEF Coming, RepaintIsComing
  <2>3. CASE next = size
    <3>1. owed' \subseteq missed' \/ kernel = size
      BY <1>1, <2>1, <2>3
    <3>2. left \subseteq missed => owed' \subseteq missed'
      BY <1>1, <2>1, <2>3
    <3>3. owed' \subseteq missed' \/ nudge'
      BY <2>3, <3>1, <3>2, Zenon DEF Coming
    <3> QED
      BY <2>1, <3>3, Zenon DEF Coming, RepaintIsComing
  <2> QED
    BY <2>2, <2>3
<1> QED
  BY <1>2, <1>3

LEMMA DetachComes ==
  ASSUME Coming, UNCHANGED <<epoch, nudge>>, NEW gone, Detach(gone), Repaints(owed \ gone)
  PROVE  Coming'
<1>1. PICK next, d, h : Apply(next, d, h, FALSE)
  BY DEF Detach
<1>2. owed \subseteq missed => owed \ gone \subseteq missed
  OBVIOUS
<1>3. owed \ gone \subseteq missed \/ nudge' \/ restoring
  BY <1>2, Zenon DEF Coming, RepaintIsComing
<1> QED
  BY <1>1, <1>3, ApplyComes

LEMMA ShowComes ==
  ASSUME IInv, Coming, NEW c \in Conns, HandleShow(c)
  PROVE  Coming'
<1> DEFINE h == [hidden EXCEPT ![c] = "no"]
           next == EffectiveDims(dims, h)
           resumes == hidden[c] = "diverged"
           left == owed \cup IF resumes THEN {c} ELSE {}
<1>1. epoch # 0 /\ epoch' = epoch /\ nudge' = nudge
  BY DEF HandleShow, stream
<1>2. CASE resumes /\ next \in {0, size}
  <2>1. Nudge(size) /\ size' = size
    BY <1>2 DEF HandleShow
  <2> QED
    BY <1>1, <2>1, ComingNudged DEF IInv
<1>3. CASE ~(resumes /\ next \in {0, size})
  <2>1. Apply(next, dims, h, FALSE) /\ Repaints(left)
    BY <1>3 DEF HandleShow
  <2>2. CASE ~resumes
    <3>1. left = owed
      BY <2>2
    <3>2. left \subseteq missed \/ nudge' \/ restoring
      BY <1>1, <3>1, Zenon DEF Coming, RepaintIsComing
    <3> HIDE DEF h, next, left
    <3> QED
      BY <1>1, <2>1, <3>2, ApplyComes
  <2>3. CASE resumes
    <3>1. next \notin {0, size}
      BY <1>3, <2>3
    <3> HIDE DEF h, next, left
    <3> QED
      BY <1>1, <2>1, <3>1, ApplyComes
  <2> QED
    BY <2>2, <2>3
<1> QED
  BY <1>2, <1>3

LEMMA ResizeComes ==
  ASSUME IInv, Coming, NEW c \in Conns, HandleResize(c)
  PROVE  Coming'
<1> DEFINE d == [dims EXCEPT ![c] = Head(outbox[c]).box]
           next == EffectiveDims(d, hidden)
<1>1. epoch # 0 /\ epoch' = epoch
  BY DEF HandleResize, stream
<1>2. CASE NudgeDue(next)
  <2>1. Nudge(size) /\ size' = size
    BY <1>2 DEF HandleResize
  <2> QED
    BY <1>1, <2>1, ComingNudged DEF IInv
<1>3. CASE ~NudgeDue(next)
  <2>1. Apply(next, d, hidden, TRUE) /\ Repaints(owed)
    BY <1>3 DEF HandleResize
  <2>2. next \in {0, size} => owed \subseteq missed \/ restoring
    BY <1>3, Zenon DEF NudgeDue, Coming, RepaintIsComing
  <2> HIDE DEF d, next
  <2> QED
    BY <1>1, <2>1, <2>2, ApplyComes
<1> QED
  BY <1>2, <1>3

LEMMA ComingInductive ==
  ASSUME IInv, Coming, [Next]_vars
  PROVE  Coming'
<1>1. CASE Adopt
  <2>1. restoring' = FALSE /\ UNCHANGED <<nudge, owed, missed>> /\ restoring = FALSE
    BY <1>1, Zenon DEF Adopt, Coming, IInv, Typed, HostTyped
  <2> QED
    BY <2>1, Zenon DEF Coming, RepaintIsComing
<1>2. CASE DaemonDisconnect
  <2>1. restoring' = FALSE /\ owed' = missed'
    BY <1>2 DEF DaemonDisconnect
  <2>2. owed' \subseteq missed'
    BY <2>1
  <2> QED
    BY <2>1, <2>2, Zenon DEF Coming, RepaintIsComing
<1>3. CASE Output
  BY <1>3, DetachComes DEF Output
<1>4. CASE NudgeFires
  BY <1>4, ComingNudged DEF NudgeFires, stream, IInv
<1>5. CASE Restore
  <2>1. kernel # size /\ restoring' = FALSE /\ kernel' = size
    BY <1>5, Zenon DEF Restore, Coming
  <2>2. owed' = {}
    BY <1>5, <2>1 DEF Restore, Repaints
  <2>3. owed' \subseteq missed'
    BY <2>2
  <2> QED
    BY <2>1, <2>3, Zenon DEF Coming, RepaintIsComing
<1>6. ASSUME NEW c \in Conns, Attach(c)
      PROVE  Coming'
  <2>1. UNCHANGED <<size, kernel, restoring, epoch, missed>>
    BY <1>6 DEF Attach, stream
  <2>2. nudge' = TRUE \/ UNCHANGED <<nudge, owed>>
    BY <1>6 DEF Attach
  <2> QED
    BY <2>1, <2>2, ComingStays, Zenon DEF Coming, RepaintIsComing
<1>7. ASSUME NEW c \in Conns, HandleHide(c)
      PROVE  Coming'
  <2>1. PICK next, d, h : Apply(next, d, h, FALSE)
    BY <1>7 DEF HandleHide
  <2>2. UNCHANGED <<epoch, nudge>> /\ Repaints(owed)
    BY <1>7 DEF HandleHide, stream
  <2>3. owed \subseteq missed \/ nudge' \/ restoring
    BY <2>2, Zenon DEF Coming, RepaintIsComing
  <2> QED
    BY <2>1, <2>2, <2>3, ApplyComes
<1>8. ASSUME NEW c \in Conns, SweepDrop(c) \/ CloseEvent(c)
      PROVE  Coming'
  <2>1. Detach({c}) /\ Repaints(owed \ {c}) /\ UNCHANGED <<epoch, nudge>>
    BY <1>8 DEF SweepDrop, CloseEvent, stream
  <2> QED
    BY <2>1, DetachComes
<1>9. ASSUME NEW c \in Conns, Ignore(c) \/ PeerCloses(c)
      PROVE  UNCHANGED <<epoch, pty, owed, missed>>
  BY <1>9 DEF Ignore, PeerCloses, stream
<1>10. ASSUME NEW p \in Panes, PaneNext(p)
       PROVE  UNCHANGED <<epoch, pty, owed, missed>>
  BY <1>10 DEF PaneNext, Dial, ReadAttached, ReadPreamble, ReadSynced, ReadBytes, Paint, Lose,
     Park, Unpark, Reload, Toggle, Fit, stream
<1>11. CASE UNCHANGED <<epoch, pty, owed, missed>>
  BY <1>11, ComingStays, Zenon DEF pty, Coming, RepaintIsComing
<1>12. CASE UNCHANGED vars
  BY <1>11, <1>12 DEF vars, stream
<1> QED
  BY <1>1, <1>2, <1>3, <1>4, <1>5, <1>6, <1>7, <1>8, <1>9, <1>10, <1>11, <1>12,
     ShowComes, ResizeComes DEF Next, HostNext

(* A client that was told to skip output has its program redraw: until it  *)
(* has, a nudge is armed or its end is (nudgeRepaint, applyEffectiveDims). *)
(* There is one exception, for any sizes: those that a resize to the very  *)
(* size a nudge under way has given the PTY, of which the kernel tells     *)
(* nobody, has left without.                                               *)
THEOREM RepaintComes == Spec => []RepaintIsComing
<1>1. Init => Coming
  <2> SUFFICES ASSUME Init
               PROVE  Coming
    OBVIOUS
  <2>1. owed = {} /\ restoring = FALSE
    BY DEF Init
  <2>2. owed \subseteq missed
    BY <2>1
  <2> QED
    BY <2>1, <2>2, Zenon DEF Coming, RepaintIsComing
<1>2. IInv /\ Coming /\ [Next]_vars => Coming'
  BY ComingInductive
<1>3. Coming => RepaintIsComing
  BY Zenon DEF Coming
<1> QED
  BY <1>1, <1>2, <1>3, Invariance, PTL DEF Spec
===============================================================================
