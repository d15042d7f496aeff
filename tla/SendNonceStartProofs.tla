------------------------- MODULE SendNonceStartProofs -------------------------
(***************************************************************************)
(* A start of the bridge never refuses a disk that only crashes, torn      *)
(* appends, failed writes and lost renames have touched, for every block,  *)
(* threshold and ceiling: the cross-check of anchor and journal raises no  *)
(* false alarm.                                                            *)
(*                                                                         *)
(* The refusal is decided on what the disk holds when a start reads it, so *)
(* the argument is about pairs of an anchor and a journal that a stop can  *)
(* bring together (Agrees): the journal a crash leaves against the anchor  *)
(* as it is, and against every earlier state of the anchor a reset may     *)
(* bring back, which is never ahead of it (Older).                         *)
(***************************************************************************)
EXTENDS SendNonceProofs

(* A start that finds anchor d and journal j proceeds.                     *)
Agrees(d, j) ==
  /\ ~d.foreign
  /\ IF j.mark # 0 THEN j.gen = d.gen /\ d.prefix \in {0, j.prefix} /\ d.mark <= j.mark
     ELSE ~d.flag

(* An earlier state of this generation's anchor.                           *)
Older(d) ==
  d.gen = dir.gen =>
    /\ d.mark <= dir.mark /\ d.prefix \in {0, dir.prefix} /\ (d.flag => dir.flag)
    /\ d.foreign = dir.foreign

Ordered == (\A d \in lost : Older(d)) /\ \A d \in InReach : d.gen < ids

Expected ==
  ~excused => /\ Agrees(dir, journal)
              /\ ~dir.entry => \A d \in InReach : ~d.entry /\ ~d.flag

StartInv ==
  Ordered /\ Expected /\ (pc = "claimed" => dir.mark <= counter) /\ NoSpuriousRefusal

-----------------------------------------------------------------------------
(* Anchors and journals that agree.                                        *)

LEMMA DiskTypes ==
  ASSUME TypeOK
  PROVE  /\ dir \in Dirs /\ journal \in Journals /\ jmark \in Nat /\ ids \in Nat
         /\ \A d \in InReach : d \in Dirs
         /\ \A d \in Dirs : d.mark \in Nat /\ d.prefix \in Nat /\ d.gen \in Nat
         /\ \A j \in Journals : j.mark \in Nat
  BY DEF TypeOK, InReach, Dirs, Journals

LEMMA OlderAgrees ==
  ASSUME TypeOK, Ordered, NEW d \in InReach, d.gen = dir.gen,
         NEW j \in Journals, Agrees(dir, j)
  PROVE  Agrees(d, j)
  <1>1. d = dir \/ Older(d)
    BY DEF Ordered, InReach
  <1> QED
    BY <1>1, DiskTypes DEF Agrees, Older

(* A directory that is published: a fresh generation, or the same one,     *)
(* raised.                                                                 *)
LEMMA OrderedPublished ==
  ASSUME TypeOK, Ordered, NEW d \in Dirs, Publish(d),
         \/ d.gen = ids /\ ids' = ids + 1
         \/ /\ d.gen = dir.gen /\ ids' = ids /\ dir.mark <= d.mark
            /\ dir.prefix \in {0, d.prefix} /\ (dir.flag => d.flag)
            /\ d.foreign = dir.foreign
  PROVE  Ordered'
  <1>1. dir' = d /\ lost' \subseteq InReach /\ InReach' \subseteq InReach \cup {d}
    BY DEF Publish, InReach
  <1>2. \A x \in InReach : x \in Dirs /\ x.gen < ids /\ (x = dir \/ Older(x))
    BY DiskTypes DEF Ordered, InReach
  <1>3. ids' \in Nat /\ \A x \in InReach' : x.gen < ids'
    BY <1>1, <1>2, DiskTypes DEF Ordered, InReach
  <1>4. \A x \in lost' : Older(x)'
    BY <1>1, <1>2, DiskTypes DEF Older
  <1> QED
    BY <1>3, <1>4 DEF Ordered

LEMMA ExpectedPublished ==
  ASSUME Expected, NEW d, Publish(d), UNCHANGED <<journal, excused>>,
         ~excused => Agrees(d, journal),
         ~d.entry => ~dir.entry /\ d.flag = dir.flag
  PROVE  Expected'
  <1>1. dir' = d /\ InReach' \subseteq InReach \cup {d} /\ dir \in InReach
    BY DEF Publish, InReach
  <1> QED
    BY <1>1 DEF Expected, Agrees

(* What an append leaves, cut short or whole.                              *)
LEMMA TornAgrees ==
  ASSUME IInv, pc \in Up, Agrees(dir, journal)
  PROVE  Agrees(dir, Torn(jmark))
  <1>1. /\ jmark <= journal.mark
        /\ jmark # 0 => dir.mark <= jmark
        /\ jmark = 0 => ~dir.flag
        /\ jmark # 0 /\ dir.prefix # 0 => journal.prefix = dir.prefix
    BY DEF IInv, MountedMemory
  <1>2. journal \in Journals /\ jmark \in Nat
    BY DiskTypes DEF IInv
  <1>3. CASE jmark = 0
    BY <1>1, <1>3 DEF Agrees, Torn, EmptyJournal
  <1>4. CASE jmark # 0
    <2>1. /\ Torn(jmark).mark = jmark /\ Torn(jmark).gen = journal.gen
          /\ Torn(jmark).prefix = journal.prefix
      BY <1>2, <1>4 DEF Torn, Journals
    <2>2. journal.mark # 0
      BY <1>1, <1>2, <1>4, DiskTypes DEF IInv
    <2> QED
      BY <1>1, <1>4, <2>1, <2>2 DEF Agrees
  <1> QED
    BY <1>3, <1>4

LEMMA AppendedAgrees ==
  ASSUME ~dir.foreign, NEW p, NEW m, m # 0, dir.mark <= m, dir.prefix \in {0, p}
  PROVE  Agrees(dir, Appended(p, m))
  BY DEF Agrees, Appended

LEMMA InterruptedAgrees ==
  ASSUME IInv, pc \in Up, Agrees(dir, journal),
         NEW p, NEW m, m # 0, dir.mark <= m, dir.prefix \in {0, p}
  PROVE  \A j \in Interrupted(p, m) : Agrees(dir, j)
  BY TornAgrees, AppendedAgrees DEF Interrupted, Agrees

(* The three appends: what they write agrees with the anchor.              *)
LEMMA SeedFits ==
  ASSUME IInv, pc = "seed", NeedsSeed
  PROVE  SeedTo # 0 /\ dir.mark <= SeedTo /\ dir.prefix \in {0, SeedPrefix}
  <1>1. dir.prefix \in {0, SeedPrefix} /\ Sources(dir) <= SeedTo
    BY SeedSound
  <1>2. dir.mark <= Sources(dir) /\ dir.mark \in Nat /\ Sources(dir) \in Nat /\ SeedTo \in Nat
    BY SeedTypes DEF IInv, TypeOK, Sources, Larger, Dirs
  <1>3. SeedTo # 0
    BY <1>2 DEF NeedsSeed, IInv, TypeOK
  <1> QED
    BY <1>1, <1>2, <1>3

LEMMA ClaimFits ==
  ASSUME IInv, pc = "claim"
  PROVE  /\ counter + Block # 0 /\ dir.mark <= counter + Block /\ dir.prefix \in {0, prefix}
         /\ dir.mark <= counter
  <1>1. /\ counter = Larger(jmark, 1) /\ dir.prefix \in {0, prefix}
        /\ jmark # 0 => dir.mark = jmark
        /\ jmark = 0 => Sources(dir) = 0
    BY DEF IInv, MountedMemory, SourceMemory, Sourced
  <1>2. /\ dir.mark \in Nat /\ dir.witness \in Nat /\ dir.legacy \in Nat /\ jmark \in Nat
        /\ counter \in Nat /\ Block \in Nat
    BY CounterAssumption DEF IInv, TypeOK, Dirs
  <1>3. jmark = 0 => dir.mark = 0
    BY <1>1, <1>2 DEF Sources, Larger
  <1> QED
    BY <1>1, <1>2, <1>3 DEF Larger

LEMMA RefillFits ==
  ASSUME IInv, refill = "append"
  PROVE  target # 0 /\ dir.mark <= target /\ dir.prefix \in {0, prefix} /\ pc \in Up
  <1>1. pc \in {"running", "closing"}
    BY DEF IInv, RunningMemory
  <1>2. /\ dir.prefix = prefix /\ jmark <= target /\ jmark # 0
        /\ jmark # 0 => dir.mark <= jmark
    BY <1>1 DEF IInv, RunningMemory, SourceMemory, MountedMemory, Up
  <1>3. dir.mark \in Nat /\ jmark \in Nat /\ target \in Nat
    BY DEF IInv, TypeOK, Dirs
  <1> QED
    BY <1>1, <1>2, <1>3 DEF Up

LEMMA StoppedAgrees ==
  ASSUME IInv, Agrees(dir, journal)
  PROVE  \A j \in StoppedJournals : Agrees(dir, j)
  <1>1. CASE pc = "seed" /\ NeedsSeed
    BY <1>1, SeedFits, InterruptedAgrees DEF StoppedJournals, Up
  <1>2. CASE pc = "claim"
    BY <1>2, ClaimFits, InterruptedAgrees DEF StoppedJournals, Up
  <1>3. CASE refill = "append"
    <2>1. ~(pc = "seed" /\ NeedsSeed) /\ pc # "claim"
      BY <1>3 DEF IInv, RunningMemory
    <2> QED
      BY <1>3, <2>1, RefillFits, InterruptedAgrees DEF StoppedJournals
  <1> QED
    BY <1>1, <1>2, <1>3 DEF StoppedJournals

-----------------------------------------------------------------------------
(* The steps.                                                              *)

(* A step that touches neither the disk nor what is expected of it.        *)
LEMMA StartUntouched ==
  ASSUME IInv, StartInv, UNCHANGED <<dir, lost, journal, excused>>, ids' \in {ids, ids + 1},
         pc' = "claimed" => dir.mark <= counter', pc' = "refused" => pc = "refused"
  PROVE  StartInv'
  <1>1. ids' \in Nat /\ ids <= ids' /\ \A d \in InReach : d.gen \in Nat
    BY DiskTypes DEF IInv
  <1>2. Ordered'
    BY <1>1, DiskTypes DEF IInv, StartInv, Ordered, Older, InReach
  <1>3. Expected'
    BY DEF StartInv, Expected, InReach, Agrees
  <1> QED
    BY <1>2, <1>3 DEF StartInv, NoSpuriousRefusal

(* A journal that agrees takes the journal's place.                        *)
LEMMA StartAppended ==
  ASSUME StartInv, UNCHANGED <<dir, lost, ids, excused>>,
         Agrees(dir, journal) => Agrees(dir, journal'),
         pc' = "claimed" => dir.mark <= counter', pc' = "refused" => pc = "refused"
  PROVE  StartInv'
  <1>1. Ordered'
    BY DEF StartInv, Ordered, Older, InReach
  <1>2. Expected'
    BY DEF StartInv, Expected, InReach, Agrees
  <1> QED
    BY <1>1, <1>2 DEF StartInv, NoSpuriousRefusal

(* A directory is published over the journal as it is.                     *)
LEMMA StartPublished ==
  ASSUME IInv, StartInv, NEW d \in Dirs, Publish(d), UNCHANGED <<journal, excused>>,
         \/ d.gen = ids /\ ids' = ids + 1
         \/ /\ d.gen = dir.gen /\ ids' = ids /\ dir.mark <= d.mark
            /\ dir.prefix \in {0, d.prefix} /\ (dir.flag => d.flag)
            /\ d.foreign = dir.foreign,
         ~excused => Agrees(d, journal),
         ~d.entry => ~dir.entry /\ d.flag = dir.flag,
         pc' \notin {"claimed", "refused"}
  PROVE  StartInv'
  <1>1. Ordered'
    BY OrderedPublished DEF IInv, StartInv
  <1>2. Expected'
    BY ExpectedPublished DEF StartInv
  <1> QED
    BY <1>1, <1>2 DEF StartInv, NoSpuriousRefusal

LEMMA MountStarts ==
  ASSUME IInv, StartInv, Mount
  PROVE  StartInv'
  <1>1. CASE dir.gen # 0
    BY <1>1, StartUntouched DEF Mount, source
  <1>2. CASE dir.gen = 0
    <2>1. PICK d : d = [dir EXCEPT !.gen = ids, !.mark = dir.legacy,
                                   !.prefix = IF dir.legacy = 0 THEN 0 ELSE OldPrefix]
      OBVIOUS
    <2>2. /\ dir \in Dirs /\ dir.mark = 0 /\ ~dir.entry /\ ~dir.flag
          /\ journal = EmptyJournal
      BY <1>2 DEF IInv, TypeOK, Shape, DirShape, InReach, Sound, JournalShape
    <2>3. d \in Dirs /\ d.gen = ids /\ ~d.entry /\ ~d.flag
      BY <2>1, <2>2 DEF Dirs, OldPrefix, IInv, TypeOK
    <2>4. Publish(d) /\ UNCHANGED <<journal, excused>> /\ ids' = ids + 1 /\ pc' = "replay"
      BY <1>2, <2>1 DEF Mount
    <2>5. ~excused => Agrees(d, journal)
      BY <2>1, <2>2, <2>3 DEF StartInv, Expected, Agrees, EmptyJournal, Dirs
    <2>6. d.flag = dir.flag
      BY <2>2, <2>3 DEF Dirs
    <2>7. pc' \notin {"claimed", "refused"}
      BY <2>4
    <2> QED
      BY <2>2, <2>3, <2>4, <2>5, <2>6, <2>7, StartPublished
  <1> QED
    BY <1>1, <1>2

(* The cross-check: it fails only on a pair that does not agree.           *)
LEMMA ReplayStarts ==
  ASSUME IInv, StartInv, Replay
  PROVE  StartInv'
  <1> USE DEF Replay, source, ghost
  <1>1. CASE MustRefuse
    <2>1. dir.mark \in Nat /\ journal.mark \in Nat
      BY DiskTypes DEF IInv
    <2>2. ~Agrees(dir, journal)
      BY <1>1, <2>1 DEF MustRefuse, Agrees
    <2>3. excused
      BY <2>2 DEF StartInv, Expected
    <2>4. Ordered' /\ Expected'
      BY <1>1 DEF StartInv, Ordered, Older, Expected, InReach, Agrees
    <2> QED
      BY <1>1, <2>3, <2>4 DEF StartInv, NoSpuriousRefusal
  <1>2. CASE ~MustRefuse /\ dir.entry
    BY <1>2, StartUntouched
  <1>3. CASE ~MustRefuse /\ ~dir.entry
    <2>1. PICK d : d = [dir EXCEPT !.entry = TRUE]
      OBVIOUS
    <2>2. /\ d \in Dirs /\ d.gen = dir.gen /\ d.mark = dir.mark /\ d.prefix = dir.prefix
          /\ d.flag = dir.flag /\ d.entry /\ dir.mark <= d.mark /\ d.foreign = dir.foreign
      <3>1. dir \in Dirs /\ dir.mark \in Nat /\ dir.mark <= dir.mark
        BY DiskTypes DEF IInv
      <3>2. d \in Dirs /\ d.gen = dir.gen /\ d.prefix = dir.prefix /\ d.flag = dir.flag
            /\ d.foreign = dir.foreign
        BY <2>1, <3>1 DEF Dirs
      <3>3. d.mark = dir.mark /\ d.entry
        BY <2>1, <3>1 DEF Dirs
      <3> QED
        BY <3>1, <3>2, <3>3
    <2>3. Publish(d) /\ UNCHANGED <<journal, ids, excused>> /\ pc' = "seed"
      BY <1>3, <2>1
    <2>4. ~excused => Agrees(d, journal)
      BY <2>2 DEF StartInv, Expected, Agrees
    <2> QED
      BY <2>2, <2>3, <2>4, StartPublished
  <1> QED
    BY <1>1, <1>2, <1>3

LEMMA SeedStarts ==
  ASSUME IInv, StartInv, Seed
  PROVE  StartInv'
  <1> USE DEF Seed, source, ghost
  <1>1. CASE UNCHANGED journal
    BY <1>1, StartUntouched
  <1>2. CASE NeedsSeed /\ journal' = Appended(SeedPrefix, SeedTo) /\ pc' = "lift"
    <2>1. Agrees(dir, journal) => Agrees(dir, journal')
      BY <1>2, SeedFits, AppendedAgrees DEF Agrees
    <2> QED
      BY <1>2, <2>1, StartAppended
  <1> QED
    BY <1>1, <1>2 DEF Append

LEMMA LiftStarts ==
  ASSUME IInv, StartInv, Lift
  PROVE  StartInv'
  <1> USE DEF Lift, source, ghost
  <1>1. CASE ~NeedsLift
    BY <1>1, StartUntouched
  <1>2. CASE NeedsLift
    <2>1. PICK d : d = [dir EXCEPT !.prefix = journal.prefix, !.mark = jmark, !.flag = TRUE]
      OBVIOUS
    <2>2. /\ jmark # 0 /\ dir.mark <= jmark /\ jmark <= journal.mark /\ dir.entry
          /\ dir.prefix # 0 => journal.prefix = dir.prefix
      BY <1>2 DEF NeedsLift, IInv, MountedMemory, Up
    <2>3. /\ dir \in Dirs /\ journal \in Journals /\ jmark \in Nat /\ journal.mark \in Nat
          /\ journal.prefix \in Nat
      BY DiskTypes DEF IInv, Journals
    <2>4. /\ d \in Dirs /\ d.gen = dir.gen /\ d.mark = jmark /\ d.prefix = journal.prefix
          /\ d.flag /\ d.entry /\ d.foreign = dir.foreign
      BY <2>1, <2>2, <2>3 DEF Dirs
    <2>5. Publish(d) /\ UNCHANGED <<journal, ids, excused>> /\ pc' = "retire"
      BY <1>2, <2>1
    <2>6. ~excused => Agrees(d, journal)
      BY <2>2, <2>3, <2>4 DEF StartInv, Expected, Agrees
    <2> QED
      BY <2>2, <2>4, <2>5, <2>6, StartPublished
  <1> QED
    BY <1>1, <1>2

LEMMA RetireStarts ==
  ASSUME IInv, StartInv, RetireWitness \/ RetireLegacy
  PROVE  StartInv'
  <1>1. PICK d \in {[dir EXCEPT !.witness = 0], [dir EXCEPT !.legacy = 0]} :
          /\ Publish(d) /\ pc' = pc /\ pc = "retire"
          /\ UNCHANGED <<journal, ids, excused>>
    BY DEF RetireWitness, RetireLegacy, ghost
  <1>2. /\ d \in Dirs /\ d.gen = dir.gen /\ d.mark = dir.mark /\ d.prefix = dir.prefix
        /\ d.flag = dir.flag /\ d.entry = dir.entry /\ dir.mark <= d.mark
        /\ d.foreign = dir.foreign
    BY DEF IInv, TypeOK, Dirs
  <1>3. ~excused => Agrees(d, journal)
    BY <1>2 DEF StartInv, Expected, Agrees
  <1> QED
    BY <1>1, <1>2, <1>3, StartPublished

(* A claim is above the anchor, so its raise is never refused.             *)
LEMMA ClaimAppendStarts ==
  ASSUME IInv, StartInv, ClaimAppend
  PROVE  StartInv'
  <1>1. dir.mark <= counter
    BY ClaimFits DEF ClaimAppend
  <1>2. UNCHANGED <<dir, lost, counter, ids, excused>> /\ pc' # "refused"
    BY DEF ClaimAppend, source, ghost
  <1>3. journal' = journal \/ journal' = Appended(prefix, counter + Block)
    BY DEF ClaimAppend, Append
  <1>4. Agrees(dir, journal) => Agrees(dir, journal')
    BY <1>3, ClaimFits, AppendedAgrees DEF ClaimAppend, Agrees
  <1> QED
    BY <1>1, <1>2, <1>4, StartAppended

LEMMA ClaimAnchorStarts ==
  ASSUME IInv, StartInv, ClaimAnchor
  PROVE  StartInv'
  <1>1. /\ dir.mark <= counter /\ jmark = counter + Block /\ jmark <= journal.mark
        /\ journal.prefix = prefix /\ dir.prefix \in {0, prefix} /\ dir.entry
    BY DEF ClaimAnchor, StartInv, IInv, MountedMemory, SourceMemory, Sourced, Up
  <1>2. /\ dir \in Dirs /\ dir.mark \in Nat /\ counter \in Nat /\ Block \in Nat \ {0}
        /\ prefix \in Nat /\ journal.mark \in Nat
    BY CounterAssumption DEF IInv, TypeOK, Dirs, Journals
  <1>3. PICK d : d = [dir EXCEPT !.prefix = prefix, !.mark = counter + Block, !.flag = TRUE]
    OBVIOUS
  <1>4. /\ d \in Dirs /\ d.gen = dir.gen /\ d.mark = counter + Block /\ d.prefix = prefix
        /\ d.flag /\ d.entry /\ d.foreign = dir.foreign
    <2>1. counter + Block \in Nat
      BY <1>2
    <2> QED
      BY <1>1, <1>2, <1>3, <2>1 DEF Dirs
  <1>5. ~(counter + Block <= dir.mark) /\ dir.mark <= d.mark
    BY <1>1, <1>2, <1>4
  <1>6. Publish(d) /\ pc' = "running" /\ UNCHANGED <<journal, ids, excused>>
    BY <1>3, <1>5 DEF ClaimAnchor, ghost
  <1>7. ~excused => Agrees(d, journal)
    BY <1>1, <1>2, <1>4 DEF StartInv, Expected, Agrees
  <1> QED
    BY <1>1, <1>4, <1>5, <1>6, <1>7, StartPublished

LEMMA RefillAppendStarts ==
  ASSUME IInv, StartInv, RefillAppend
  PROVE  StartInv'
  <1>1. UNCHANGED <<dir, lost, pc, counter, ids, excused>>
    BY DEF RefillAppend, ghost
  <1>2. journal' = journal \/ journal' = Appended(prefix, target)
    BY DEF RefillAppend, Append
  <1>3. Agrees(dir, journal) => Agrees(dir, journal')
    BY <1>2, RefillFits, AppendedAgrees DEF RefillAppend, Agrees
  <1> QED
    BY <1>1, <1>3, StartAppended DEF StartInv

(* The anchor raised to the mark whose append the journal holds.           *)
LEMMA RaiseStarts ==
  ASSUME IInv, StartInv, refill = "anchor", Publish([dir EXCEPT !.mark = target]),
         target >= dir.mark, UNCHANGED <<journal, pc, ids, excused>>
  PROVE  StartInv'
  <1>1. pc \in {"running", "closing"}
    BY DEF IInv, RunningMemory
  <1>2. target = jmark /\ jmark <= journal.mark /\ dir.entry /\ jmark # 0
    BY <1>1 DEF IInv, RunningMemory, MountedMemory, SourceMemory, Up
  <1>3. dir \in Dirs /\ jmark \in Nat /\ dir.mark \in Nat /\ journal.mark \in Nat
    BY DiskTypes DEF IInv
  <1>4. PICK d : d = [dir EXCEPT !.mark = target]
    OBVIOUS
  <1>5. /\ d \in Dirs /\ d.gen = dir.gen /\ d.mark = jmark /\ d.prefix = dir.prefix
        /\ d.flag = dir.flag /\ d.entry /\ dir.mark <= d.mark /\ d.foreign = dir.foreign
    BY <1>2, <1>3, <1>4 DEF Dirs
  <1>6. ~excused => Agrees(d, journal)
    BY <1>2, <1>3, <1>5 DEF StartInv, Expected, Agrees
  <1>7. dir.prefix \in Nat
    BY <1>3, DiskTypes DEF IInv
  <1> QED
    BY <1>1, <1>4, <1>5, <1>6, <1>7, StartPublished

LEMMA RefillAnchorStarts ==
  ASSUME IInv, StartInv, RefillAnchor
  PROVE  StartInv'
  <1>1. dir.mark \in Nat /\ target \in Nat
    BY DEF IInv, TypeOK, Dirs
  <1>2. UNCHANGED <<journal, pc, counter, ids, excused>> /\ refill = "anchor"
    BY DEF RefillAnchor, ghost
  <1>3. CASE target < dir.mark
    BY <1>2, <1>3, StartUntouched DEF RefillAnchor, StartInv
  <1>4. CASE ~(target < dir.mark)
    BY <1>1, <1>2, <1>4, RaiseStarts DEF RefillAnchor
  <1> QED
    BY <1>3, <1>4

LEMMA RefillFailsStarts ==
  ASSUME IInv, StartInv, RefillFails
  PROVE  StartInv'
  <1>1. UNCHANGED <<pc, counter, ids, excused>>
    BY DEF RefillFails, ghost
  <1>2. CASE /\ refill = "append" /\ journal' \in Interrupted(prefix, target)
             /\ UNCHANGED <<dir, lost>>
    <2>1. Agrees(dir, journal) => Agrees(dir, journal')
      BY <1>2, RefillFits, InterruptedAgrees
    <2> QED
      BY <1>1, <1>2, <2>1, StartAppended DEF StartInv
  <1>3. CASE /\ refill = "anchor" /\ target >= dir.mark
             /\ Publish([dir EXCEPT !.mark = target]) /\ UNCHANGED journal
    BY <1>1, <1>3, RaiseStarts
  <1>4. CASE UNCHANGED disk
    BY <1>1, <1>4, StartUntouched DEF disk, StartInv
  <1> QED
    BY <1>2, <1>3, <1>4 DEF RefillFails

(* The bridge's own steps that write nothing.                              *)
LEMMA SilentStarts ==
  ASSUME IInv, StartInv, Resume \/ Emit \/ EmitRefused \/ Close \/ Closed
  PROVE  StartInv'
  <1>1. /\ UNCHANGED <<dir, lost, journal, excused>> /\ ids' \in {ids, ids + 1}
        /\ pc' \notin {"claimed", "refused"}
    BY DEF Resume, Emit, EmitRefused, Close, Closed, Forget, disk, source, ghost
  <1> QED
    BY <1>1, StartUntouched

-----------------------------------------------------------------------------
(* Crashes and resets.                                                     *)

LEMMA CrashStarts ==
  ASSUME IInv, StartInv, Crash
  PROVE  StartInv'
  <1>1. UNCHANGED <<dir, lost, ids, excused>> /\ pc' = "down" /\ journal' \in StoppedJournals
    BY DEF Crash, Forget, ghost
  <1>2. Agrees(dir, journal) => Agrees(dir, journal')
    BY <1>1, StoppedAgrees
  <1> QED
    BY <1>1, <1>2, StartAppended

(* A reset that keeps the generation and the journal's entry brings back   *)
(* an older anchor, which agrees with every journal the present one does;  *)
(* without an entry there never was a flag.                                *)
LEMMA HardResetStarts ==
  ASSUME IInv, StartInv, HardReset
  PROVE  StartInv'
  <1>1. PICK d \in Reverted :
          /\ dir' = d
          /\ IF d.entry THEN journal' \in StoppedJournals ELSE journal' = EmptyJournal
          /\ excused' = (excused \/ d.gen # dir.gen \/ d.entry # dir.entry)
    BY DEF HardReset
  <1>2. PICK x \in InReach : d = x \/ d = [x EXCEPT !.entry = FALSE]
    BY <1>1 DEF Reverted, InReach
  <1>3. /\ x \in Dirs /\ d \in Dirs /\ d.gen = x.gen /\ d.flag = x.flag
        /\ d.foreign = x.foreign
        /\ d.entry => d = x
    BY <1>2 DEF IInv, TypeOK, InReach, Dirs
  <1>4. lost' = {} /\ InReach' = {d} /\ ids' = ids /\ pc' = "down"
    BY <1>1 DEF HardReset, Forget, InReach
  <1>5. Ordered'
    BY <1>3, <1>4 DEF StartInv, Ordered
  <1>6. ASSUME ~excused'
        PROVE  Agrees(d, journal') /\ (~d.entry => ~d.flag)
    <2>1. ~excused /\ d.gen = dir.gen /\ d.entry = dir.entry
      BY <1>1, <1>6 DEF IInv, TypeOK, Dirs
    <2>2. CASE d.entry
      <3>1. journal' \in StoppedJournals /\ journal' \in Journals /\ d = x
        BY <1>1, <1>3, <2>2, StoppedTypes DEF IInv
      <3>2. Agrees(dir, journal')
        BY <2>1, <3>1, StoppedAgrees DEF StartInv, Expected
      <3> QED
        BY <2>1, <2>2, <3>1, <3>2, OlderAgrees DEF IInv, StartInv
    <2>3. CASE ~d.entry
      <3>1. ~x.flag
        BY <2>1, <2>3 DEF StartInv, Expected
      <3>2. ~x.foreign
        BY <1>3, <2>1 DEF StartInv, Ordered, Older, Expected, Agrees, InReach
      <3> QED
        BY <1>1, <1>3, <2>3, <3>1, <3>2 DEF Agrees, EmptyJournal
    <2> QED
      BY <2>2, <2>3
  <1>7. Expected'
    <2>1. d.entry = dir.entry => (~d.entry => ~dir.entry)
      OBVIOUS
    <2> QED
      BY <1>1, <1>4, <1>6 DEF Expected, Agrees
  <1> QED
    BY <1>4, <1>5, <1>7 DEF StartInv, NoSpuriousRefusal

LEMMA RestStarts ==
  ASSUME IInv, StartInv, FlushLog \/ Damage \/ Wipe
  PROVE  StartInv'
  <1>1. CASE FlushLog
    <2>1. lost' = {} /\ UNCHANGED <<dir, journal, pc, counter, ids, excused>>
      BY <1>1 DEF FlushLog, source, ghost
    <2> QED
      BY <2>1 DEF StartInv, Ordered, Expected, InReach, Agrees, NoSpuriousRefusal
  <1>2. CASE Damage
    <2>1. excused' = TRUE /\ pc' = "down" /\ UNCHANGED <<dir, lost, ids>>
      BY <1>2 DEF Damage
    <2> QED
      BY <2>1 DEF StartInv, Ordered, Older, Expected, InReach, NoSpuriousRefusal
  <1>3. CASE Wipe
    <2>1. /\ dir' = EmptyDir /\ lost' = {} /\ journal' = EmptyJournal /\ pc' = "down"
          /\ ids' = ids /\ ids \in Nat /\ 1 < ids
      BY <1>3 DEF Wipe, Forget, IInv, TypeOK, Shape
    <2>2. Ordered'
      BY <2>1 DEF Ordered, InReach, EmptyDir
    <2>3. Expected'
      BY <2>1 DEF Expected, InReach, Agrees, EmptyDir, EmptyJournal
    <2> QED
      BY <2>1, <2>2, <2>3 DEF StartInv, NoSpuriousRefusal
  <1> QED
    BY <1>1, <1>2, <1>3

-----------------------------------------------------------------------------
(* The theorem.                                                            *)

LEMMA StartInit == Init => StartInv
  <1> SUFFICES ASSUME Init
               PROVE  StartInv
    OBVIOUS
  <1>1. /\ lost = {} /\ journal = EmptyJournal /\ pc = "down" /\ ids = 2
        /\ dir.gen \in {0, 1} /\ ~dir.flag /\ ~dir.entry
    <2>1. CASE dir = EmptyDir
      BY <2>1 DEF Init, EmptyDir
    <2>2. ASSUME NEW m, dir = Early(m)
          PROVE  dir.gen = 0 /\ ~dir.flag /\ ~dir.entry
      BY <2>2 DEF Early, EmptyDir
    <2>3. ASSUME NEW m, NEW w, NEW l, NEW f, dir = Anchored(m, w, l, f)
          PROVE  dir.gen = 1 /\ ~dir.flag /\ ~dir.entry
      BY <2>3 DEF Anchored, EmptyDir
    <2> QED
      BY <2>1, <2>2, <2>3, OldForms DEF Init
  <1>2. Ordered
    BY <1>1 DEF Ordered, InReach
  <1>3. Expected
    BY <1>1 DEF Init, Expected, InReach, Agrees, EmptyJournal
  <1> QED
    BY <1>1, <1>2, <1>3 DEF StartInv, NoSpuriousRefusal

LEMMA StartKept ==
  ASSUME IInv, StartInv, [Next]_vars
  PROVE  StartInv'
  <1>1. CASE UNCHANGED vars
    BY <1>1, StartUntouched DEF vars, disk, source, ghost, StartInv
  <1> QED
    BY <1>1, MountStarts, ReplayStarts, SeedStarts, LiftStarts, RetireStarts, ClaimAppendStarts,
       ClaimAnchorStarts, RefillAppendStarts, RefillAnchorStarts, RefillFailsStarts,
       SilentStarts, CrashStarts, HardResetStarts, RestStarts
       DEF Next, Process

(* A start refuses only after a record was damaged or a reset took the     *)
(* generation or the journal's entry (keys.ts:651-655): no crash, torn     *)
(* append, failed write or lost raise of the anchor stops the next start.  *)
THEOREM RefusalsAreJustified == Spec => []NoSpuriousRefusal
  <1>1. Init => StartInv
    BY StartInit
  <1>2. IInv /\ StartInv /\ [Next]_vars => StartInv'
    BY StartKept
  <1>3. StartInv => NoSpuriousRefusal
    BY DEF StartInv
  <1> QED
    BY <1>1, <1>2, <1>3, Inductive, PTL DEF Spec
===============================================================================
