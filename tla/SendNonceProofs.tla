--------------------------- MODULE SendNonceProofs ---------------------------
(***************************************************************************)
(* No nonce repeats, for every block size, threshold and ceiling, whatever *)
(* an earlier build left behind, and with any number of crashes, hard      *)
(* resets and damaged records, until a hard reset rewinds a start that     *)
(* migrated a mark (`rewound`): then the code does repeat nonces.          *)
(*                                                                         *)
(* What a bridge may conclude from the disk is the heart of the argument:  *)
(* the journal that is there, and every journal a crash may leave instead, *)
(* covers the nonces handed out (Sound), and so do the files an older      *)
(* directory would bring back, unless the journal is already past them.    *)
(***************************************************************************)
EXTENDS SendNonce, TLAPS

(* The directory as it is and as a hard reset may leave it.                *)
InReach == lost \cup {dir}

Below(p, m) == rewound \/ \A n \in used : n[1] = p => n[2] < m

DirShape(d) ==
  /\ d.prefix = 0 <=> d.mark = 0
  /\ d.flag => d.mark # 0
  /\ d.gen = 0 => d.mark = 0 /\ d.witness = 0 /\ ~d.entry
  /\ d.prefix < ids

(* Names are fresh: nothing on disk or handed out bears the next one.      *)
Shape ==
  /\ \A d \in InReach : DirShape(d)
  /\ prefix < ids /\ 1 < ids
  /\ \A n \in used : n[1] < ids

JournalShape(j) ==
  /\ j \in Journals
  /\ j.mark # 0 => j.prefix # 0
  /\ j.prefix < ids
  /\ ~dir.entry => j = EmptyJournal

(* The journal covers what was handed out, and would without its last      *)
(* record.                                                                 *)
Covers(j) ==
  /\ j.mark # 0 => Below(j.prefix, IF j.torn THEN j.mark + Block ELSE j.mark)
  /\ ~j.torn /\ j.before # 0 =>
       /\ Below(j.prefix, j.before + Block)
       /\ j.before < j.mark /\ j.mark <= j.before + Block

(* Without its last record the journal still has one: it says where to     *)
(* resume.                                                                 *)
Past(j) == j.mark # 0 /\ (j.torn \/ j.before # 0)

PrefixOf(d) == IF d.prefix # 0 THEN d.prefix ELSE OldPrefix
Unflagged(d) == ~d.flag /\ Sources(d) # 0

(* A directory that does not know of the journal has marks that cover what *)
(* was handed out before it.                                               *)
SourcesCover(j) ==
  \A d \in InReach : Unflagged(d) => Past(j) \/ Below(PrefixOf(d), Sources(d))

(* The files of earlier builds never bring more than the journal was       *)
(* seeded to.                                                              *)
Settled(j) == IF ~j.torn /\ j.before # 0 THEN j.before ELSE j.mark
Folded(j) ==
  j.mark # 0 => \A d \in InReach : d.witness <= Settled(j) /\ d.legacy <= Settled(j)

Sound(j) == JournalShape(j) /\ Covers(j) /\ SourcesCover(j) /\ Folded(j)

(* Nothing is deleted before the anchor knows of the journal.              *)
SourcesKept ==
  ~dir.flag => \A d \in lost : /\ ~d.flag /\ d.witness = dir.witness
                               /\ d.legacy = dir.legacy /\ d.mark \in {0, dir.mark}

Up == {"seed", "lift", "retire", "claim", "claimed", "running", "closing"}
Sourced == {"claim", "claimed", "running", "closing"}

MountedMemory ==
  /\ pc = "replay" => dir.gen # 0
  /\ pc \in Up =>
       /\ dir.entry /\ jmark <= journal.mark
       /\ jmark # 0 => dir.mark <= jmark
       /\ jmark = 0 => ~dir.flag /\ journal.mark = 0
       /\ jmark # 0 /\ dir.prefix # 0 => journal.prefix = dir.prefix
  /\ pc \in {"seed", "lift", "retire", "claim", "claimed"} => jmark = journal.mark
  /\ pc \in {"lift", "retire", "claim", "claimed"} =>
       /\ jmark # 0 => ~journal.torn
       /\ jmark = 0 => Sources(dir) = 0
  /\ pc \in {"retire", "claim"} /\ jmark # 0 => dir.flag /\ dir.mark = jmark

SourceMemory ==
  /\ pc \in Sourced =>
       /\ prefix # 0 /\ dir.prefix \in {0, prefix}
       /\ Below(prefix, counter) /\ counter # 0
  /\ pc = "claim" => counter = Larger(jmark, 1)
  /\ pc \in {"claimed", "running", "closing"} =>
       /\ jmark # 0 /\ journal.prefix = prefix /\ jmark <= counter + Block
       /\ \A d \in InReach : Unflagged(d) => Past(journal)
  /\ pc = "claimed" => jmark = counter + Block

RunningMemory ==
  /\ pc \in {"running", "closing"} =>
       /\ counter <= reserved /\ reserved <= dir.mark
       /\ dir.prefix = prefix /\ dir.flag
       /\ journal.torn => journal.mark = jmark
       /\ journal.mark > jmark => journal.before = jmark
       /\ refill # "idle" => target <= counter + Block
       /\ refill = "append" => jmark <= target
       /\ refill = "anchor" => target = jmark
  /\ pc \notin {"running", "closing"} => refill = "idle"


IInv ==
  /\ TypeOK /\ Shape /\ Sound(journal) /\ SourcesKept
  /\ MountedMemory /\ SourceMemory /\ RunningMemory

-----------------------------------------------------------------------------
(* Types.                                                                  *)

LEMMA RecordTypes ==
  ASSUME TypeOK, NEW p \in Nat, NEW m \in Nat
  PROVE  Appended(p, m) \in Journals /\ Torn(m) \in Journals
  <1>1. Appended(p, m) \in Journals
    BY DEF TypeOK, Appended, Journals, Dirs
  <1>2. Torn(m) \in Journals
    <2>1. EmptyJournal \in Journals
      BY DEF EmptyJournal, Journals
    <2> QED
      BY <2>1 DEF TypeOK, Torn, Journals
  <1> QED
    BY <1>1, <1>2

(* What the seed would write, and where a source would resume.             *)
LEMMA SeedTypes ==
  ASSUME TypeOK
  PROVE  SeedPrefix \in Nat /\ SeedTo \in Nat /\ Sources(dir) \in Nat /\ TailFloor \in Nat
  <1>1. /\ dir.mark \in Nat /\ dir.witness \in Nat /\ dir.legacy \in Nat
        /\ dir.prefix \in Nat /\ journal.prefix \in Nat /\ jmark \in Nat /\ Block \in Nat
    BY CounterAssumption DEF TypeOK, Dirs, Journals
  <1> QED
    BY <1>1 DEF SeedPrefix, SeedTo, Sources, TailFloor, Larger, OldPrefix

LEMMA StoppedTypes ==
  ASSUME TypeOK
  PROVE  StoppedJournals \subseteq Journals
  <1>1. ASSUME NEW p \in Nat, NEW m \in Nat
        PROVE  Interrupted(p, m) \subseteq Journals
    BY RecordTypes DEF Interrupted, TypeOK
  <1> QED
    BY <1>1, SeedTypes, CounterAssumption DEF StoppedJournals, TypeOK

LEMMA RevertedTypes ==
  ASSUME TypeOK
  PROVE  Reverted \subseteq Dirs
  <1>1. \A d \in Dirs : [d EXCEPT !.entry = FALSE] \in Dirs
    BY DEF Dirs
  <1> QED
    BY <1>1 DEF TypeOK, Reverted

LEMMA TypeKept ==
  ASSUME TypeOK, Next
  PROVE  TypeOK'
  <1> USE DEF Steps
  <1> DEFINE Typed == dir' \in Dirs /\ lost' \subseteq Dirs
  <1>0. \A d \in Dirs : Publish(d) => Typed
    BY DEF Publish, TypeOK
  <1> HIDE DEF Typed
  <1>1. CASE Mount
    <2> DEFINE d == [dir EXCEPT !.gen = ids, !.mark = dir.legacy,
                                !.prefix = IF dir.legacy = 0 THEN 0 ELSE OldPrefix]
    <2>1. d \in Dirs
      BY DEF TypeOK, Dirs, OldPrefix
    <2>2. Typed
      BY <1>1, <1>0, <2>1 DEF Mount, Typed, TypeOK
    <2> QED
      BY <1>1, <2>2 DEF Mount, TypeOK, source, Typed
  <1>2. CASE Replay
    <2>1. [dir EXCEPT !.entry = TRUE] \in Dirs
      BY DEF TypeOK, Dirs
    <2>2. Typed
      BY <1>2, <1>0, <2>1 DEF Replay, Typed, TypeOK
    <2> QED
      BY <1>2, <2>2 DEF Replay, TypeOK, source, ghost, Journals, Typed
  <1>3. CASE Seed
    BY <1>3, SeedTypes, RecordTypes DEF Seed, Append, TypeOK, source, ghost
  <1>4. CASE Lift
    <2>1. [dir EXCEPT !.prefix = journal.prefix, !.mark = jmark, !.flag = TRUE] \in Dirs
      BY DEF TypeOK, Dirs, Journals
    <2>2. Typed
      BY <1>4, <1>0, <2>1 DEF Lift, Typed, TypeOK
    <2> QED
      BY <1>4, <2>2 DEF Lift, TypeOK, source, ghost, Typed
  <1>5. CASE RetireWitness
    <2>1. [dir EXCEPT !.witness = 0] \in Dirs
      BY DEF TypeOK, Dirs
    <2> QED
      BY <1>5, <1>0, <2>1 DEF RetireWitness, TypeOK, source, ghost, Typed
  <1>6. CASE RetireLegacy
    <2>1. [dir EXCEPT !.legacy = 0] \in Dirs
      BY DEF TypeOK, Dirs
    <2> QED
      BY <1>6, <1>0, <2>1 DEF RetireLegacy, TypeOK, source, ghost, Typed
  <1>7. CASE Resume
    <2>1. dir.mark \in Nat /\ dir.prefix \in Nat
      BY DEF TypeOK, Dirs
    <2>2. counter' \in Nat /\ reserved' \in Nat
      BY <1>7, <2>1 DEF Resume, Larger
    <2>3. prefix' \in Nat /\ ids' \in Nat
      BY <1>7, <2>1 DEF Resume, TypeOK
    <2> QED
      BY <1>7, <2>2, <2>3 DEF Resume, TypeOK, disk
  <1>8. CASE ClaimAppend
    BY <1>8, RecordTypes, CounterAssumption DEF ClaimAppend, Append, TypeOK, source, ghost
  <1>9. CASE ClaimAnchor
    <2>1. [dir EXCEPT !.prefix = prefix, !.mark = counter + Block, !.flag = TRUE] \in Dirs
      <3>1. counter + Block \in Nat /\ prefix \in Nat /\ dir \in Dirs
        BY CounterAssumption DEF TypeOK
      <3> QED
        BY <3>1 DEF Dirs
    <2>2. Typed
      BY <1>9, <1>0, <2>1 DEF ClaimAnchor, Typed, TypeOK
    <2> QED
      BY <1>9, <2>2, CounterAssumption DEF ClaimAnchor, TypeOK, ghost, Typed
  <1>10. CASE Emit
    BY <1>10, CounterAssumption DEF Emit, TypeOK, disk
  <1>11. CASE EmitRefused
    BY <1>11, CounterAssumption DEF EmitRefused, TypeOK, disk, ghost
  <1>12. CASE RefillAppend
    BY <1>12, RecordTypes DEF RefillAppend, Append, TypeOK, ghost
  <1>13. CASE RefillAnchor
    <2>1. [dir EXCEPT !.mark = target] \in Dirs
      BY DEF TypeOK, Dirs
    <2>2. Typed
      BY <1>13, <1>0, <2>1 DEF RefillAnchor, Typed, TypeOK
    <2> QED
      BY <1>13, <2>2 DEF RefillAnchor, TypeOK, ghost, Larger, Typed
  <1>14. CASE RefillFails
    <2>1. [dir EXCEPT !.mark = target] \in Dirs
      BY DEF TypeOK, Dirs
    <2>2. Interrupted(prefix, target) \subseteq Journals
      BY RecordTypes DEF Interrupted, TypeOK
    <2>3. Typed /\ journal' \in Journals
      BY <1>14, <1>0, <2>1, <2>2 DEF RefillFails, Typed, TypeOK, disk
    <2> QED
      BY <1>14, <2>3 DEF RefillFails, TypeOK, ghost, Typed
  <1>15. CASE Close \/ Closed \/ FlushLog
    <2>1. CASE Close
      BY <2>1 DEF Close, TypeOK, disk, source, ghost
    <2>2. CASE Closed
      BY <2>2 DEF Closed, Forget, TypeOK, disk, ghost
    <2>3. CASE FlushLog
      BY <2>3 DEF FlushLog, TypeOK, source, ghost
    <2> QED
      BY <1>15, <2>1, <2>2, <2>3
  <1>16. CASE Crash
    BY <1>16, StoppedTypes DEF Crash, Forget, TypeOK, ghost
  <1>17. CASE HardReset
    <2>1. EmptyJournal \in Journals
      BY DEF EmptyJournal, Journals
    <2> QED
      BY <1>17, <2>1, StoppedTypes, RevertedTypes DEF HardReset, Forget, TypeOK
  <1>18. CASE Damage
    BY <1>18, RecordTypes DEF Damage, TypeOK, source, Journals
  <1>19. CASE Wipe
    BY <1>19 DEF Wipe, Forget, TypeOK, EmptyDir, EmptyJournal, Dirs, Journals
  <1> QED
    BY <1>1, <1>2, <1>3, <1>4, <1>5, <1>6, <1>7, <1>8, <1>9, <1>10, <1>11, <1>12,
       <1>13, <1>14, <1>15, <1>16, <1>17, <1>18, <1>19 DEF Next, Process

-----------------------------------------------------------------------------
(* What a step that leaves the disk alone keeps.                           *)

LEMMA DiskUntouched ==
  ASSUME IInv, UNCHANGED <<disk, used, rewound>>, ids' \in Nat, ids <= ids', prefix' < ids',
         prefix' \in Nat
  PROVE  Shape' /\ Sound(journal)' /\ SourcesKept'
  <1> USE DEF disk
  <1>1. Shape'
    BY DEF IInv, TypeOK, Shape, DirShape, InReach, Dirs
  <1>2. Sound(journal)'
    BY DEF IInv, TypeOK, Sound, JournalShape, Covers, SourcesCover, Folded, InReach,
           Below, Past, Unflagged, PrefixOf, Settled, Journals
  <1>3. SourcesKept'
    BY DEF IInv, SourcesKept
  <1> QED
    BY <1>1, <1>2, <1>3

(* A journal that is sound stays so when it becomes the journal.           *)
LEMMA JournalReplaced ==
  ASSUME IInv, NEW j, Sound(j), journal' = j, UNCHANGED <<dir, lost, used, ids, rewound>>,
         prefix' < ids
  PROVE  Shape' /\ Sound(journal)' /\ SourcesKept'
  <1>1. Shape'
    BY DEF IInv, Shape, DirShape, InReach
  <1>2. Sound(journal)'
    BY DEF Sound, JournalShape, Covers, SourcesCover, Folded, InReach,
           Below, Past, Unflagged, PrefixOf, Settled
  <1>3. SourcesKept'
    BY DEF IInv, SourcesKept
  <1> QED
    BY <1>1, <1>2, <1>3

-----------------------------------------------------------------------------
(* The journals an append may leave, whole or cut short.                   *)

LEMMA TornSound ==
  ASSUME IInv, pc \in Up
  PROVE  Sound(Torn(jmark))
  <1> USE DEF IInv, TypeOK, Sound, Torn
  <1>1. JournalShape(Torn(jmark))
    <2>1. Torn(jmark) \in Journals
      BY RecordTypes
    <2>2. dir.entry /\ jmark <= journal.mark /\ journal \in Journals
      BY DEF MountedMemory, JournalShape
    <2> QED
      BY <2>1, <2>2 DEF JournalShape, Shape, EmptyJournal, Journals
  <1>2. Covers(Torn(jmark))
    BY CounterAssumption
       DEF JournalShape, Covers, Journals, Below, MountedMemory, SourceMemory,
           RunningMemory, Up, Sourced, EmptyJournal
  <1>3. SourcesCover(Torn(jmark))
    BY DEF SourcesCover, Past, Unflagged, MountedMemory, JournalShape, Journals, EmptyJournal
  <1>4. Folded(Torn(jmark))
    <2>1. jmark # 0 => Settled(journal) <= jmark /\ journal.mark # 0
      BY DEF Settled, Covers, MountedMemory, RunningMemory, JournalShape, Journals, Up
    <2>2. jmark # 0 => Torn(jmark).mark = jmark /\ Settled(Torn(jmark)) = jmark
      BY DEF Settled, JournalShape, Journals
    <2>3. \A d \in InReach : d.witness \in Nat /\ d.legacy \in Nat
      BY DEF InReach, Dirs
    <2>4. Settled(journal) \in Nat
      BY DEF Settled, JournalShape, Journals
    <2>5. jmark = 0 => Torn(jmark).mark = 0
      BY DEF EmptyJournal
    <2> QED
      BY <2>1, <2>2, <2>3, <2>4, <2>5 DEF Folded
  <1> QED
    BY <1>1, <1>2, <1>3, <1>4

LEMMA SeedSound ==
  ASSUME IInv, pc = "seed", NeedsSeed
  PROVE  /\ Sound(Appended(SeedPrefix, SeedTo))
         /\ dir.prefix \in {0, SeedPrefix} /\ Sources(dir) <= SeedTo
  <1> DEFINE j == Appended(SeedPrefix, SeedTo)
  <1> USE DEF IInv, TypeOK, Sound
  <1>1. /\ j.mark = SeedTo /\ j.prefix = SeedPrefix /\ j.before = jmark /\ ~j.torn
        /\ SeedPrefix # 0 /\ SeedTo > jmark /\ jmark \in Nat /\ journal \in Journals
        /\ jmark = journal.mark /\ dir \in InReach /\ dir \in Dirs /\ InReach \subseteq Dirs
        /\ SeedPrefix \in Nat /\ SeedTo \in Nat /\ Block \in Nat /\ Block > 0
    BY SeedTypes, CounterAssumption
       DEF Appended, NeedsSeed, MountedMemory, InReach, JournalShape
  <1> HIDE DEF j
  <1>2. jmark # 0 => /\ SeedTo = jmark + Block /\ SeedPrefix = journal.prefix
                     /\ Below(SeedPrefix, SeedTo) /\ Sources(dir) <= jmark
                     /\ dir.prefix \in {0, SeedPrefix}
    <2> SUFFICES ASSUME jmark # 0
                 PROVE  /\ SeedTo = jmark + Block /\ SeedPrefix = journal.prefix
                        /\ Below(SeedPrefix, SeedTo) /\ Sources(dir) <= jmark
                        /\ dir.prefix \in {0, SeedPrefix}
      OBVIOUS
    <2>1. SeedPrefix = journal.prefix
      BY DEF SeedPrefix
    <2>2. Sources(dir) <= jmark
      BY <1>1 DEF Sources, Larger, MountedMemory, Up, Folded, Settled, Covers, Dirs, Journals
    <2>3. journal.torn /\ TailFloor = jmark + Block
      BY <1>1, <2>2 DEF NeedsSeed, SeedTo, TailFloor, Larger, Sources, Dirs, Journals
    <2>4. SeedTo = jmark + Block
      BY <1>1, <2>2, <2>3, SeedTypes DEF SeedTo, Larger
    <2>5. Below(SeedPrefix, SeedTo)
      BY <1>1, <2>1, <2>3, <2>4 DEF Covers
    <2>6. dir.prefix \in {0, SeedPrefix}
      BY <1>1, <2>1 DEF MountedMemory, Up
    <2> QED
      BY <2>1, <2>2, <2>4, <2>5, <2>6
  <1>3. Sources(dir) <= SeedTo
    BY <1>1, SeedTypes DEF SeedTo, Larger
  <1>4. jmark = 0 => /\ Unflagged(dir) /\ SeedPrefix = PrefixOf(dir)
                     /\ Below(SeedPrefix, SeedTo)
                     /\ \A d \in InReach : d.witness <= SeedTo /\ d.legacy <= SeedTo
    <2> SUFFICES ASSUME jmark = 0
                 PROVE  /\ Unflagged(dir) /\ SeedPrefix = PrefixOf(dir)
                        /\ Below(SeedPrefix, SeedTo)
                        /\ \A d \in InReach : d.witness <= SeedTo /\ d.legacy <= SeedTo
      OBVIOUS
    <2>1. ~dir.flag
      BY DEF MountedMemory, Up
    <2>2. Sources(dir) # 0 /\ SeedPrefix = PrefixOf(dir)
      BY <1>1 DEF SeedPrefix, PrefixOf, Sources, Larger, Shape, DirShape, Dirs
    <2>3. Below(SeedPrefix, Sources(dir))
      BY <1>1, <2>1, <2>2 DEF SourcesCover, Unflagged, Past
    <2>4. Below(SeedPrefix, SeedTo)
      BY <1>1, <1>3, <2>3, SeedTypes DEF Below
    <2>5. \A d \in InReach : d.witness = dir.witness /\ d.legacy = dir.legacy
      BY <2>1 DEF SourcesKept, InReach
    <2>6. dir.witness <= SeedTo /\ dir.legacy <= SeedTo
      BY <1>1, <1>3 DEF Sources, Larger, Dirs
    <2> QED
      BY <2>1, <2>2, <2>4, <2>5, <2>6 DEF Unflagged
  <1>5. JournalShape(j)
    <2>1. j \in Journals
      BY RecordTypes, SeedTypes DEF j
    <2>2. SeedPrefix < ids
      BY <1>1 DEF SeedPrefix, JournalShape, Shape, DirShape, OldPrefix
    <2>3. dir.entry
      BY DEF MountedMemory, Up
    <2> QED
      BY <1>1, <2>1, <2>2, <2>3 DEF JournalShape
  <1>6. Covers(j)
    BY <1>1, <1>2, <1>4 DEF Covers
  <1>7. SourcesCover(j)
    BY <1>1, <1>2 DEF SourcesCover, Past
  <1>8. Folded(j)
    <2>1. CASE jmark = 0
      BY <1>1, <1>4, <2>1 DEF Folded, Settled
    <2>2. CASE jmark # 0
      BY <1>1, <2>2 DEF Folded, Settled, Covers, Dirs, Journals
    <2> QED
      BY <2>1, <2>2
  <1>9. dir.prefix \in {0, SeedPrefix}
    BY <1>2, <1>4 DEF PrefixOf
  <1> QED
    BY <1>3, <1>5, <1>6, <1>7, <1>8, <1>9 DEF j

(* A claim or a raise: at most one block past the last record, and past    *)
(* all of the nonces handed out.                                           *)
LEMMA RaiseSound ==
  ASSUME IInv, NEW m \in Nat, jmark < m, m <= counter + Block,
         \/ pc = "claim" /\ m = counter + Block
         \/ pc \in {"running", "closing"}
  PROVE  Sound(Appended(prefix, m))
  <1> DEFINE j == Appended(prefix, m)
  <1> USE DEF IInv, TypeOK, Sound
  <1>1. /\ j.mark = m /\ j.prefix = prefix /\ j.before = jmark /\ ~j.torn
        /\ j \in Journals /\ jmark \in Nat /\ prefix \in Nat /\ counter \in Nat
        /\ Block \in Nat /\ Block > 0 /\ InReach \subseteq Dirs /\ journal \in Journals
        /\ used \subseteq Nat \X Nat
    BY RecordTypes, CounterAssumption DEF Appended, InReach, JournalShape
  <1> HIDE DEF j
  <1>2. Below(prefix, counter) /\ prefix # 0 /\ dir.entry
    BY DEF SourceMemory, Sourced, MountedMemory, Up
  <1>3. JournalShape(j)
    BY <1>1, <1>2 DEF JournalShape, Shape
  <1>4. counter < m /\ (jmark # 0 => counter <= jmark)
    <2>1. CASE pc = "claim"
      BY <1>1, <2>1 DEF SourceMemory, Larger
    <2>2. CASE pc \in {"running", "closing"}
      BY <1>1, <2>2 DEF RunningMemory, MountedMemory, SourceMemory, Up, Sourced, Dirs
    <2> QED
      BY <2>1, <2>2
  <1>5. Covers(j)
    BY <1>1, <1>2, <1>4 DEF Covers, Below
  <1>6. SourcesCover(j)
    <2>1. CASE jmark # 0
      BY <1>1, <2>1 DEF SourcesCover, Past
    <2>2. CASE jmark = 0
      <3>1. pc = "claim" /\ ~dir.flag /\ Sources(dir) = 0
        BY <2>2 DEF SourceMemory, MountedMemory, Up
      <3>2. \A d \in InReach : Sources(d) = 0
        BY <1>1, <3>1 DEF SourcesKept, InReach, Sources, Larger, Dirs
      <3> QED
        BY <3>2 DEF SourcesCover, Unflagged
    <2> QED
      BY <2>1, <2>2
  <1>7. Folded(j)
    <2>1. CASE jmark # 0
      BY <1>1, <2>1 DEF Folded, Settled, MountedMemory, RunningMemory, Covers, Up, Dirs, Journals
    <2>2. CASE jmark = 0
      <3>1. pc = "claim" /\ ~dir.flag /\ Sources(dir) = 0
        BY <2>2 DEF SourceMemory, MountedMemory, Up
      <3>2. \A d \in InReach : d.witness = 0 /\ d.legacy = 0
        BY <1>1, <3>1 DEF SourcesKept, InReach, Sources, Larger, Dirs
      <3> QED
        BY <1>1, <2>2, <3>2 DEF Folded, Settled
    <2> QED
      BY <2>1, <2>2
  <1> QED
    BY <1>3, <1>5, <1>6, <1>7 DEF j

LEMMA StoppedSound ==
  ASSUME IInv, NEW j \in StoppedJournals
  PROVE  Sound(j)
  <1>1. Sound(journal)
    BY DEF IInv
  <1>2. CASE pc = "seed" /\ NeedsSeed
    BY <1>1, <1>2, TornSound, SeedSound DEF StoppedJournals, Interrupted, Up
  <1>3. CASE pc = "claim"
    <2>1. counter + Block \in Nat
      BY CounterAssumption DEF IInv, TypeOK
    <2>2. counter + Block # jmark /\ ~Throws(counter + Block) => jmark < counter + Block
      BY <2>1 DEF Throws, IInv, TypeOK
    <2> QED
      BY <1>1, <1>3, <2>1, <2>2, TornSound, RaiseSound DEF StoppedJournals, Interrupted, Up
  <1>4. CASE refill = "append"
    <2>1. pc \in {"running", "closing"} /\ target <= counter + Block /\ target \in Nat
      BY <1>4 DEF IInv, RunningMemory, TypeOK
    <2>2. target # jmark /\ ~Throws(target) => jmark < target
      BY <2>1 DEF Throws, IInv, TypeOK
    <2> QED
      BY <1>1, <1>4, <2>1, <2>2, TornSound, RaiseSound DEF StoppedJournals, Interrupted, Up
  <1> QED
    BY <1>1, <1>2, <1>3, <1>4 DEF StoppedJournals

-----------------------------------------------------------------------------
(* Renames and unlinks.                                                    *)

(* What a published directory must offer: the journal has to fold in and   *)
(* to cover no less than before.                                           *)
LEMMA Published ==
  ASSUME IInv, NEW d, Publish(d), d \in Dirs, UNCHANGED <<journal, used, rewound>>,
         ids' \in Nat, ids <= ids', prefix' \in Nat, prefix' < ids',
         d.entry \/ ~dir.entry,
         DirShape(d)',
         Unflagged(d) => Past(journal) \/ Below(PrefixOf(d), Sources(d)),
         journal.mark # 0 => d.witness <= Settled(journal) /\ d.legacy <= Settled(journal),
         ~d.flag => /\ ~dir.flag /\ d.witness = dir.witness /\ d.legacy = dir.legacy
                    /\ dir.mark \in {0, d.mark}
  PROVE  Shape' /\ Sound(journal)' /\ SourcesKept'
  <1>1. dir' = d /\ lost' \subseteq InReach /\ InReach' \subseteq InReach \cup {d}
    BY DEF Publish, InReach
  <1>2. Shape'
    <2>1. \A x \in InReach : DirShape(x)'
      BY DEF IInv, Shape, DirShape, InReach, TypeOK, Dirs
    <2>2. \A n \in used' : n[1] < ids'
      BY DEF IInv, Shape, TypeOK
    <2> QED
      BY <1>1, <2>1, <2>2 DEF IInv, Shape, TypeOK
  <1>3. JournalShape(journal)'
    BY <1>1 DEF IInv, Sound, JournalShape, TypeOK, Journals
  <1>4. Covers(journal)'
    BY DEF IInv, Sound, Covers, Below
  <1>5. SourcesCover(journal)'
    BY <1>1 DEF IInv, Sound, SourcesCover, Past, Below
  <1>6. Folded(journal)'
    BY <1>1 DEF IInv, Sound, Folded, Settled
  <1>7. SourcesKept'
    BY <1>1 DEF IInv, SourcesKept, InReach
  <1> QED
    BY <1>2, <1>3, <1>4, <1>5, <1>6, <1>7 DEF Sound

LEMMA MountKeeps ==
  ASSUME IInv, TypeOK', Mount
  PROVE  IInv'
  <1> USE DEF Mount, source
  <1>1. Shape' /\ Sound(journal)' /\ SourcesKept'
    <2>1. CASE dir.gen # 0
      BY <2>1, DiskUntouched DEF disk, IInv, TypeOK, Shape
    <2>2. CASE dir.gen = 0
      <3> PICK d : d = [dir EXCEPT !.gen = ids, !.mark = dir.legacy,
                                   !.prefix = IF dir.legacy = 0 THEN 0 ELSE OldPrefix]
        OBVIOUS
      <3>1. /\ dir \in Dirs /\ ids \in Nat /\ 1 < ids /\ ids' = ids + 1 /\ Publish(d)
            /\ prefix < ids /\ prefix \in Nat
            /\ dir.mark = 0 /\ dir.witness = 0 /\ ~dir.entry /\ ~dir.flag /\ dir.prefix = 0
        BY <2>2 DEF IInv, TypeOK, Shape, DirShape, InReach
      <3>2. /\ d \in Dirs /\ d.gen = ids /\ d.mark = dir.legacy /\ d.witness = 0
            /\ d.legacy = dir.legacy /\ ~d.flag /\ ~d.entry
            /\ d.prefix = IF dir.legacy = 0 THEN 0 ELSE OldPrefix
        BY <3>1 DEF Dirs, OldPrefix
      <3>3. Sources(d) = dir.legacy /\ Sources(dir) = dir.legacy /\ dir.legacy \in Nat
        BY <3>1, <3>2 DEF Sources, Larger, Dirs
      <3>4. DirShape(d)'
        BY <3>1, <3>2 DEF DirShape, OldPrefix, Dirs
      <3>5. Unflagged(d) => Past(journal) \/ Below(PrefixOf(d), Sources(d))
        BY <3>1, <3>2, <3>3 DEF IInv, Sound, SourcesCover, Unflagged, PrefixOf, InReach, OldPrefix
      <3>6. journal.mark # 0 => d.witness <= Settled(journal) /\ d.legacy <= Settled(journal)
        BY <3>1, <3>2 DEF IInv, Sound, Folded, InReach
      <3>7. ids <= ids' /\ prefix' < ids' /\ ids' \in Nat /\ prefix' \in Nat
        BY <3>1
      <3> QED
        BY <3>1, <3>2, <3>4, <3>5, <3>6, <3>7, Published
    <2> QED
      BY <2>1, <2>2
  <1>2. MountedMemory'
    <2>1. CASE dir.gen # 0
      BY <2>1 DEF MountedMemory, Up
    <2>2. CASE dir.gen = 0
      <3>1. dir' = [dir EXCEPT !.gen = ids, !.mark = dir.legacy,
                               !.prefix = IF dir.legacy = 0 THEN 0 ELSE OldPrefix]
        BY <2>2 DEF Publish
      <3>2. dir \in Dirs /\ ids # 0
        BY DEF IInv, TypeOK, Shape
      <3>3. dir'.gen = ids
        BY <3>1, <3>2 DEF Dirs
      <3> QED
        BY <3>2, <3>3 DEF MountedMemory, Up
    <2> QED
      BY <2>1, <2>2
  <1>3. SourceMemory' /\ RunningMemory'
    BY DEF IInv, SourceMemory, RunningMemory, Sourced
  <1> QED
    BY <1>1, <1>2, <1>3 DEF IInv

LEMMA ReplayKeeps ==
  ASSUME IInv, TypeOK', Replay
  PROVE  IInv'
  <1> USE DEF Replay, source, ghost
  <1>1. Shape' /\ Sound(journal)' /\ SourcesKept'
    <2>1. CASE UNCHANGED <<dir, lost>>
      BY <2>1, DiskUntouched DEF disk, IInv, TypeOK, Shape
    <2>2. CASE Publish([dir EXCEPT !.entry = TRUE])
      <3> PICK d : d = [dir EXCEPT !.entry = TRUE]
        OBVIOUS
      <3>1. /\ d \in Dirs /\ d.gen = dir.gen /\ d.mark = dir.mark /\ d.witness = dir.witness
            /\ d.legacy = dir.legacy /\ d.flag = dir.flag /\ d.prefix = dir.prefix /\ d.entry
        BY DEF IInv, TypeOK, Dirs
      <3>2. Publish(d) /\ dir \in InReach
        BY <2>2 DEF InReach
      <3>3. dir.gen # 0
        BY DEF IInv, MountedMemory
      <3>4. DirShape(d)'
        BY <3>1, <3>2, <3>3 DEF DirShape, IInv, Shape
      <3>5. Unflagged(d) => Past(journal) \/ Below(PrefixOf(d), Sources(d))
        BY <3>1, <3>2 DEF IInv, Sound, SourcesCover, Unflagged, PrefixOf, Sources
      <3>6. journal.mark # 0 => d.witness <= Settled(journal) /\ d.legacy <= Settled(journal)
        BY <3>1, <3>2 DEF IInv, Sound, Folded
      <3>7. /\ ids' \in Nat /\ ids <= ids' /\ prefix' \in Nat /\ prefix' < ids'
            /\ UNCHANGED <<journal, used, rewound>>
        BY DEF IInv, TypeOK, Shape
      <3> QED
        BY <3>1, <3>2, <3>4, <3>5, <3>6, <3>7, Published
    <2> QED
      BY <2>1, <2>2
  <1>2. MountedMemory'
    BY DEF IInv, Sound, JournalShape, MountedMemory, MustRefuse, Up, Shape, DirShape,
           InReach, TypeOK, Dirs, Journals, Publish
  <1>3. SourceMemory' /\ RunningMemory'
    BY DEF IInv, SourceMemory, RunningMemory, Sourced
  <1> QED
    BY <1>1, <1>2, <1>3 DEF IInv

LEMMA SeedKeeps ==
  ASSUME IInv, TypeOK', Seed
  PROVE  IInv'
  <1> USE DEF Seed, source, ghost
  <1>1. CASE UNCHANGED <<journal, jmark>>
    <2>1. Shape' /\ Sound(journal)' /\ SourcesKept'
      BY <1>1, DiskUntouched DEF disk, IInv, TypeOK, Shape
    <2>2. pc' = "lift" => /\ jmark # 0 => ~journal.torn
                          /\ jmark = 0 => Sources(dir) = 0
      <3> SUFFICES ASSUME pc' = "lift" PROVE /\ jmark # 0 => ~journal.torn
                                             /\ jmark = 0 => Sources(dir) = 0
        OBVIOUS
      <3>1. ~NeedsSeed
        BY <1>1, SeedTypes DEF Append, NeedsSeed, IInv, TypeOK
      <3>2. /\ jmark \in Nat /\ jmark = journal.mark /\ dir \in Dirs /\ Block \in Nat /\ Block > 0
            /\ journal.mark # 0 => journal.prefix # 0
            /\ DirShape(dir)
        BY CounterAssumption
           DEF IInv, TypeOK, MountedMemory, Sound, JournalShape, Shape, InReach
      <3>3. jmark # 0 => ~journal.torn
        <4> SUFFICES ASSUME jmark # 0, journal.torn PROVE FALSE
          OBVIOUS
        <4>1. TailFloor = jmark + Block /\ SeedPrefix # 0
          BY <3>2 DEF TailFloor, SeedPrefix, Larger
        <4>2. SeedTo >= TailFloor
          BY SeedTypes DEF SeedTo, Larger, IInv
        <4> QED
          BY <3>1, <3>2, <4>1, <4>2, SeedTypes DEF NeedsSeed, IInv
      <3>4. jmark = 0 => Sources(dir) = 0
        <4> SUFFICES ASSUME jmark = 0, Sources(dir) # 0 PROVE FALSE
          OBVIOUS
        <4>1. SeedPrefix # 0
          BY <3>2 DEF SeedPrefix, Sources, Larger, DirShape, OldPrefix, Dirs
        <4>2. SeedTo >= Sources(dir)
          BY SeedTypes DEF SeedTo, Larger, IInv
        <4> QED
          BY <3>1, <4>1, <4>2, SeedTypes DEF NeedsSeed, IInv
      <3> QED
        BY <3>3, <3>4
    <2>3. MountedMemory'
      BY <1>1, <2>2 DEF IInv, MountedMemory, Up, Sources
    <2>4. SourceMemory' /\ RunningMemory'
      BY <1>1 DEF IInv, SourceMemory, RunningMemory, Sourced
    <2> QED
      BY <2>1, <2>3, <2>4 DEF IInv
  <1>2. CASE pc' = "lift" /\ NeedsSeed /\ Append(SeedPrefix, SeedTo)
    <2>1. journal' = Appended(SeedPrefix, SeedTo) /\ jmark' = SeedTo /\ SeedTo # 0
      BY <1>2, SeedTypes DEF Append, NeedsSeed, IInv, TypeOK
    <2>2. /\ Sound(Appended(SeedPrefix, SeedTo))
          /\ dir.prefix \in {0, SeedPrefix} /\ Sources(dir) <= SeedTo
      BY <1>2, SeedSound
    <2>3. Shape' /\ Sound(journal)' /\ SourcesKept'
      BY <2>1, <2>2, JournalReplaced DEF IInv, Shape
    <2>4. MountedMemory'
      <3>1. dir.mark <= Sources(dir) /\ dir.entry
        BY DEF Sources, Larger, IInv, TypeOK, Dirs, MountedMemory, Up
      <3>2. dir.mark <= SeedTo
        BY <2>2, <3>1, SeedTypes DEF IInv, TypeOK, Dirs
      <3>3. /\ journal'.mark = SeedTo /\ ~journal'.torn /\ journal'.prefix = SeedPrefix
            /\ SeedTo \in Nat
        BY <2>1, SeedTypes DEF Appended, IInv
      <3> QED
        BY <1>2, <2>1, <2>2, <3>1, <3>2, <3>3 DEF MountedMemory
    <2>5. SourceMemory' /\ RunningMemory'
      BY <1>2 DEF IInv, SourceMemory, RunningMemory, Sourced
    <2> QED
      BY <2>3, <2>4, <2>5 DEF IInv
  <1> QED
    BY <1>1, <1>2

LEMMA LiftKeeps ==
  ASSUME IInv, TypeOK', Lift
  PROVE  IInv'
  <1> USE DEF Lift, source, ghost
  <1>1. CASE ~NeedsLift
    <2>1. Shape' /\ Sound(journal)' /\ SourcesKept'
      BY <1>1, DiskUntouched DEF disk, IInv, TypeOK, Shape
    <2>2. MountedMemory' /\ SourceMemory' /\ RunningMemory'
      BY <1>1 DEF NeedsLift, IInv, TypeOK, Dirs, MountedMemory, SourceMemory, RunningMemory,
                  Up, Sourced, Sources
    <2> QED
      BY <2>1, <2>2 DEF IInv
  <1>2. CASE NeedsLift
    <2> PICK d : d = [dir EXCEPT !.prefix = journal.prefix, !.mark = jmark, !.flag = TRUE]
      OBVIOUS
    <2>1. /\ dir \in Dirs /\ journal \in Journals /\ jmark \in Nat /\ jmark # 0
          /\ jmark = journal.mark /\ journal.prefix # 0 /\ journal.prefix < ids
          /\ dir \in InReach /\ dir.entry /\ DirShape(dir) /\ Publish(d)
      BY <1>2 DEF NeedsLift, IInv, TypeOK, MountedMemory, Sound, JournalShape, InReach, Shape, Up
    <2>2. /\ d \in Dirs /\ d.gen = dir.gen /\ d.mark = jmark /\ d.witness = dir.witness
          /\ d.legacy = dir.legacy /\ d.flag /\ d.prefix = journal.prefix /\ d.entry
      BY <2>1 DEF Dirs, Journals
    <2>3. DirShape(d)'
      BY <2>1, <2>2 DEF DirShape
    <2>4. journal.mark # 0 => d.witness <= Settled(journal) /\ d.legacy <= Settled(journal)
      BY <2>1, <2>2 DEF IInv, Sound, Folded
    <2>5. Shape' /\ Sound(journal)' /\ SourcesKept'
      <3>1. /\ ids' \in Nat /\ ids <= ids' /\ prefix' \in Nat /\ prefix' < ids'
            /\ UNCHANGED <<journal, used, rewound>>
        BY DEF IInv, TypeOK, Shape
      <3> QED
        BY <2>1, <2>2, <2>3, <2>4, <3>1, Published DEF Unflagged
    <2>6. MountedMemory'
      BY <2>1, <2>2 DEF Publish, IInv, MountedMemory, Up
    <2>7. SourceMemory' /\ RunningMemory'
      BY DEF IInv, SourceMemory, RunningMemory, Sourced
    <2> QED
      BY <2>5, <2>6, <2>7 DEF IInv
  <1> QED
    BY <1>1, <1>2

LEMMA RetireWitnessKeeps ==
  ASSUME IInv, TypeOK', RetireWitness
  PROVE  IInv'
  <1> USE DEF RetireWitness, source, ghost
  <1> PICK d : d = [dir EXCEPT !.witness = 0]
    OBVIOUS
  <1>1. /\ d \in Dirs /\ d.gen = dir.gen /\ d.mark = dir.mark /\ d.witness = 0
        /\ d.legacy = dir.legacy /\ d.flag = dir.flag /\ d.prefix = dir.prefix
        /\ d.entry = dir.entry
    BY DEF IInv, TypeOK, Dirs
  <1>2. Publish(d) /\ dir \in InReach /\ dir.witness \in Nat /\ jmark \in Nat
    BY DEF InReach, IInv, TypeOK, Dirs
  <1>3. jmark # 0 /\ dir.flag /\ dir.mark = jmark /\ jmark = journal.mark
    BY <1>2 DEF Retirable, IInv, MountedMemory
  <1>4. DirShape(d)'
    BY <1>1, <1>2, <1>3 DEF DirShape, IInv, Shape
  <1>5. journal.mark # 0 => d.witness <= Settled(journal) /\ d.legacy <= Settled(journal)
    <2>1. Settled(journal) \in Nat
      BY DEF IInv, Sound, JournalShape, Settled, Journals
    <2> QED
      BY <1>1, <1>2, <2>1 DEF IInv, Sound, Folded
  <1>6. Shape' /\ Sound(journal)' /\ SourcesKept'
    <2>1. /\ ids' \in Nat /\ ids <= ids' /\ prefix' \in Nat /\ prefix' < ids'
          /\ UNCHANGED <<journal, used, rewound>>
      BY DEF IInv, TypeOK, Shape
    <2> QED
      BY <1>1, <1>2, <1>3, <1>4, <1>5, <2>1, Published DEF Unflagged
  <1>7. MountedMemory'
    BY <1>1, <1>2, <1>3 DEF Publish, IInv, MountedMemory
  <1>8. SourceMemory' /\ RunningMemory'
    BY DEF IInv, SourceMemory, RunningMemory, Sourced
  <1> QED
    BY <1>6, <1>7, <1>8 DEF IInv

LEMMA RetireLegacyKeeps ==
  ASSUME IInv, TypeOK', RetireLegacy
  PROVE  IInv'
  <1> USE DEF RetireLegacy, source, ghost
  <1> PICK d : d = [dir EXCEPT !.legacy = 0]
    OBVIOUS
  <1>1. /\ d \in Dirs /\ d.gen = dir.gen /\ d.mark = dir.mark /\ d.legacy = 0
        /\ d.witness = dir.witness /\ d.flag = dir.flag /\ d.prefix = dir.prefix
        /\ d.entry = dir.entry
    BY DEF IInv, TypeOK, Dirs
  <1>2. Publish(d) /\ dir \in InReach /\ dir.legacy \in Nat /\ jmark \in Nat
    BY DEF InReach, IInv, TypeOK, Dirs
  <1>3. jmark # 0 /\ dir.flag /\ dir.mark = jmark /\ jmark = journal.mark
    BY <1>2 DEF Retirable, IInv, MountedMemory
  <1>4. DirShape(d)'
    BY <1>1, <1>2, <1>3 DEF DirShape, IInv, Shape
  <1>5. journal.mark # 0 => d.witness <= Settled(journal) /\ d.legacy <= Settled(journal)
    <2>1. Settled(journal) \in Nat
      BY DEF IInv, Sound, JournalShape, Settled, Journals
    <2> QED
      BY <1>1, <1>2, <2>1 DEF IInv, Sound, Folded
  <1>6. Shape' /\ Sound(journal)' /\ SourcesKept'
    <2>1. /\ ids' \in Nat /\ ids <= ids' /\ prefix' \in Nat /\ prefix' < ids'
          /\ UNCHANGED <<journal, used, rewound>>
      BY DEF IInv, TypeOK, Shape
    <2> QED
      BY <1>1, <1>2, <1>3, <1>4, <1>5, <2>1, Published DEF Unflagged
  <1>7. MountedMemory'
    BY <1>1, <1>2, <1>3 DEF Publish, IInv, MountedMemory
  <1>8. SourceMemory' /\ RunningMemory'
    BY DEF IInv, SourceMemory, RunningMemory, Sourced
  <1> QED
    BY <1>6, <1>7, <1>8 DEF IInv

-----------------------------------------------------------------------------
(* The source of nonces.                                                   *)

LEMMA ResumeKeeps ==
  ASSUME IInv, TypeOK', Resume
  PROVE  IInv'
  <1> USE DEF Resume
  <1>1. /\ dir \in Dirs /\ jmark \in Nat /\ ids \in Nat /\ 1 < ids /\ dir \in InReach
        /\ DirShape(dir) /\ journal \in Journals /\ used \subseteq Nat \X Nat
    BY DEF IInv, TypeOK, Shape, InReach
  <1>2. ids' \in Nat /\ ids <= ids' /\ prefix' \in Nat /\ prefix' < ids' /\ prefix' # 0
    BY <1>1 DEF DirShape, TypeOK
  <1>3. Shape' /\ Sound(journal)' /\ SourcesKept'
    BY <1>2, DiskUntouched DEF disk
  <1>4. MountedMemory'
    BY DEF IInv, MountedMemory, Up, disk, Sources
  <1>5. counter' = Larger(jmark, 1) /\ (jmark # 0 => prefix' = journal.prefix)
        /\ dir.prefix \in {0, prefix'}
    <2>1. CASE jmark = 0
      BY <1>1, <2>1 DEF IInv, MountedMemory, Sources, Larger, DirShape, Dirs
    <2>2. CASE jmark # 0
      BY <1>1, <2>2 DEF IInv, MountedMemory, DirShape, Up, Dirs
    <2> QED
      BY <2>1, <2>2
  <1>6. Below(prefix', counter')
    <2>1. CASE jmark = 0
      <3>1. prefix' = ids
        BY <1>1, <2>1 DEF IInv, MountedMemory, Sources, Larger, DirShape, Dirs
      <3> QED
        BY <1>1, <3>1 DEF Below, IInv, Shape
    <2>2. CASE jmark # 0
      BY <1>1, <1>5, <2>2 DEF IInv, Sound, Covers, MountedMemory, Larger
    <2> QED
      BY <2>1, <2>2
  <1>7. SourceMemory'
    BY <1>1, <1>2, <1>5, <1>6 DEF SourceMemory, Sourced, Below, disk, Larger
  <1>8. RunningMemory'
    BY DEF RunningMemory
  <1> QED
    BY <1>3, <1>4, <1>7, <1>8 DEF IInv

LEMMA ClaimAppendKeeps ==
  ASSUME IInv, TypeOK', ClaimAppend
  PROVE  IInv'
  <1> USE DEF ClaimAppend, source, ghost
  <1>1. CASE pc' = "full" /\ UNCHANGED <<journal, jmark>>
    BY <1>1, DiskUntouched
       DEF disk, IInv, TypeOK, Shape, MountedMemory, SourceMemory, RunningMemory, Up, Sourced
  <1>2. CASE pc' = "claimed" /\ Append(prefix, counter + Block)
    <2>1. /\ counter \in Nat /\ jmark \in Nat /\ Block \in Nat /\ Block > 0 /\ dir \in Dirs
          /\ counter = Larger(jmark, 1) /\ jmark < counter + Block /\ prefix < ids
          /\ dir \in InReach
      BY CounterAssumption DEF IInv, TypeOK, SourceMemory, Larger, Shape, InReach
    <2>2. journal' = Appended(prefix, counter + Block) /\ jmark' = counter + Block
      BY <1>2, <2>1 DEF Append
    <2>3. Sound(Appended(prefix, counter + Block))
      BY <2>1, RaiseSound
    <2>4. Shape' /\ Sound(journal)' /\ SourcesKept'
      BY <2>1, <2>2, <2>3, JournalReplaced
    <2>5. /\ journal'.mark = counter + Block /\ ~journal'.torn /\ journal'.prefix = prefix
          /\ journal'.before = jmark
      BY <2>2 DEF Appended
    <2>6. dir.mark <= counter /\ (jmark = 0 => dir.mark = 0 /\ ~dir.flag)
          /\ dir.prefix \in {0, prefix} /\ prefix # 0
      BY <2>1 DEF IInv, MountedMemory, SourceMemory, Up, Sourced, Sources, Larger, Dirs
    <2>7. MountedMemory'
      BY <1>2, <2>1, <2>2, <2>5, <2>6 DEF IInv, MountedMemory, Up, Dirs
    <2>8. \A d \in InReach : Unflagged(d) => Past(journal')
      <3>1. CASE jmark # 0
        BY <2>1, <2>5, <3>1 DEF Past
      <3>2. CASE jmark = 0
        <4>1. ~dir.flag /\ Sources(dir) = 0
          BY <3>2 DEF IInv, MountedMemory, Up
        <4>2. \A d \in InReach : Sources(d) = 0
          BY <4>1 DEF IInv, TypeOK, SourcesKept, InReach, Sources, Larger, Dirs
        <4> QED
          BY <4>2 DEF Unflagged
      <3> QED
        BY <3>1, <3>2
    <2>9. SourceMemory'
      BY <1>2, <2>1, <2>2, <2>5, <2>6, <2>8
         DEF IInv, SourceMemory, Sourced, Below, InReach, Unflagged, Sources
    <2>10. RunningMemory'
      BY <1>2 DEF IInv, RunningMemory
    <2> QED
      BY <2>4, <2>7, <2>9, <2>10 DEF IInv
  <1> QED
    BY <1>1, <1>2

LEMMA ClaimAnchorKeeps ==
  ASSUME IInv, TypeOK', ClaimAnchor
  PROVE  IInv'
  <1> USE DEF ClaimAnchor, ghost
  <1>1. CASE counter + Block <= dir.mark
    BY <1>1, DiskUntouched
       DEF disk, IInv, TypeOK, Shape, MountedMemory, SourceMemory, RunningMemory, Up, Sourced
  <1>2. CASE ~(counter + Block <= dir.mark)
    <2> PICK d : d = [dir EXCEPT !.prefix = prefix, !.mark = counter + Block, !.flag = TRUE]
      OBVIOUS
    <2>1. /\ dir \in Dirs /\ counter \in Nat /\ jmark \in Nat /\ Block \in Nat /\ Block > 0
          /\ prefix \in Nat /\ prefix # 0 /\ prefix < ids /\ jmark = counter + Block
          /\ jmark = journal.mark /\ jmark # 0 /\ journal.prefix = prefix /\ dir.entry
          /\ ~journal.torn /\ dir \in InReach /\ Publish(d) /\ DirShape(dir) /\ ids \in Nat
          /\ refill = "idle"
      BY <1>2, CounterAssumption
         DEF IInv, TypeOK, MountedMemory, SourceMemory, RunningMemory, Up, Sourced, Shape, InReach
    <2>2. /\ d \in Dirs /\ d.gen = dir.gen /\ d.mark = counter + Block
          /\ d.witness = dir.witness /\ d.legacy = dir.legacy /\ d.flag /\ d.prefix = prefix
          /\ d.entry
      BY <2>1 DEF Dirs
    <2>3. DirShape(d)'
      BY <2>1, <2>2 DEF DirShape
    <2>4. journal.mark # 0 => d.witness <= Settled(journal) /\ d.legacy <= Settled(journal)
      BY <2>1, <2>2 DEF IInv, Sound, Folded
    <2>5. Shape' /\ Sound(journal)' /\ SourcesKept'
      <3>1. /\ ids' \in Nat /\ ids <= ids' /\ prefix' \in Nat /\ prefix' < ids'
            /\ UNCHANGED <<journal, used, rewound>>
        BY <2>1
      <3> QED
        BY <2>1, <2>2, <2>3, <2>4, <3>1, Published DEF Unflagged
    <2>6. dir' = d /\ InReach' \subseteq InReach \cup {d} /\ pc' = "running"
      BY <1>2, <2>1 DEF Publish, InReach
    <2>7. MountedMemory'
      BY <2>1, <2>2, <2>6 DEF MountedMemory, Up
    <2>8. SourceMemory'
      BY <2>1, <2>2, <2>6 DEF IInv, SourceMemory, Sourced, Below, Unflagged, Past
    <2>9. RunningMemory'
      BY <1>2, <2>1, <2>2, <2>6 DEF RunningMemory
    <2> QED
      BY <2>5, <2>7, <2>8, <2>9 DEF IInv
  <1> QED
    BY <1>1, <1>2

LEMMA EmitKeeps ==
  ASSUME IInv, TypeOK', Emit
  PROVE  IInv'
  <1> USE DEF Emit, disk
  <1>1. /\ pc = "running" /\ counter \in Nat /\ counter' = counter + 1 /\ prefix \in Nat
        /\ counter < jmark /\ jmark <= journal.mark /\ journal.prefix = prefix
        /\ jmark \in Nat /\ jmark # 0 /\ journal \in Journals /\ Block \in Nat /\ Block > 0
        /\ used \subseteq Nat \X Nat /\ used' = used \cup {<<prefix, counter>>} /\ prefix < ids
        /\ (journal.torn => journal.mark = jmark)
        /\ (journal.mark > jmark => journal.before = jmark) /\ reserved \in Nat
    BY CounterAssumption
       DEF IInv, TypeOK, MountedMemory, SourceMemory, RunningMemory, Up, Shape, Dirs
  <1>2. Shape'
    BY <1>1 DEF IInv, Shape, DirShape, InReach
  <1>3. JournalShape(journal)'
    BY DEF IInv, Sound, JournalShape
  <1>4. \A p \in Nat, m \in Nat : Below(p, m) /\ (p = prefix => counter < m) => Below(p, m)'
    BY <1>1 DEF Below
  <1>5. Covers(journal)'
    <2>1. journal.prefix \in Nat /\ journal.mark \in Nat /\ journal.before \in Nat
      BY <1>1 DEF Journals
    <2>2. counter < journal.mark
      BY <1>1, <2>1
    <2>3. counter < journal.mark + Block
      BY <1>1, <2>1, <2>2
    <2>4. ~journal.torn /\ journal.before # 0 => counter < journal.before + Block
      BY <1>1, <2>1, <2>2 DEF IInv, Sound, Covers
    <2> QED
      BY <1>1, <1>4, <2>1, <2>2, <2>3, <2>4 DEF IInv, Sound, Covers
  <1>6. SourcesCover(journal)'
    BY <1>1 DEF IInv, SourceMemory, SourcesCover, InReach, Unflagged, Past, Sources
  <1>7. Folded(journal)' /\ SourcesKept'
    BY DEF IInv, Sound, Folded, Settled, SourcesKept, InReach
  <1>8. MountedMemory'
    BY DEF IInv, MountedMemory, Up, Sources
  <1>9. SourceMemory'
    <2>2. jmark <= counter + Block => jmark <= counter + 1 + Block
      BY <1>1
    <2>3. UNCHANGED <<dir, lost, journal, jmark, prefix, pc, ids, reserved, poisoned, rewound>>
      BY <1>1
    <2>4. Below(prefix, counter)'
      <3>1. rewound \/ \A q \in used : q[1] = prefix => q[2] < counter + 1
        <4>1. rewound \/ \A q \in used : q[1] = prefix => q[2] < counter
          BY Zenon DEF IInv, SourceMemory, Sourced, Below, Emit
        <4>2. \A q \in used : q[2] \in Nat
          BY <1>1
        <4> QED
          BY <1>1, <4>1, <4>2
      <3>2. counter < counter + 1 /\ <<prefix, counter>>[2] = counter
        BY <1>1
      <3>3. rewound \/ \A q \in used' : q[1] = prefix => q[2] < counter + 1
        BY <1>1, <3>1, <3>2
      <3> QED
        BY <1>1, <2>3, <3>3 DEF Below
    <2> QED
      BY <1>1, <2>2, <2>3, <2>4 DEF IInv, SourceMemory, InReach, Unflagged, Past, Sources
  <1>10. RunningMemory'
    BY <1>1 DEF IInv, RunningMemory, SourceMemory, TypeOK
  <1> QED
    BY <1>2, <1>3, <1>5, <1>6, <1>7, <1>8, <1>9, <1>10 DEF IInv, Sound

LEMMA EmitRefusedKeeps ==
  ASSUME IInv, TypeOK', EmitRefused
  PROVE  IInv'
  <1>1. Shape' /\ Sound(journal)' /\ SourcesKept'
    BY DiskUntouched DEF EmitRefused, disk, ghost, IInv, TypeOK, Shape
  <1>2. MountedMemory' /\ SourceMemory'
    BY DEF EmitRefused, disk, ghost, IInv, MountedMemory, SourceMemory, Sources, Below,
           InReach, Unflagged, Past, Larger
  <1>3. RunningMemory'
    BY CounterAssumption
       DEF EmitRefused, disk, ghost, IInv, RunningMemory, SourceMemory, TypeOK
  <1> QED
    BY <1>1, <1>2, <1>3 DEF IInv

LEMMA RefillAppendKeeps ==
  ASSUME IInv, TypeOK', RefillAppend
  PROVE  IInv'
  <1> USE DEF RefillAppend, ghost
  <1>1. /\ pc \in {"running", "closing"} /\ jmark \in Nat /\ target \in Nat /\ jmark <= target
        /\ target <= counter + Block /\ jmark # 0 /\ prefix < ids /\ counter \in Nat
        /\ journal.prefix = prefix /\ dir \in Dirs /\ journal \in Journals /\ prefix # 0
        /\ dir.prefix = prefix /\ dir.flag /\ dir.mark <= jmark /\ dir.entry
    BY DEF IInv, TypeOK, MountedMemory, SourceMemory, RunningMemory, Up, Sourced, Shape, Sound,
           JournalShape
  <1>2. CASE UNCHANGED <<journal, jmark>>
    <2>1. Shape' /\ Sound(journal)' /\ SourcesKept'
      BY <1>1, <1>2, DiskUntouched DEF disk, IInv, TypeOK, Shape
    <2>2. MountedMemory' /\ SourceMemory'
      BY <1>1, <1>2 DEF IInv, MountedMemory, SourceMemory, Sources, Below, InReach,
                        Unflagged, Past, Larger
    <2>3. refill' = "anchor" => target = jmark
      BY <1>1, <1>2 DEF Append
    <2>4. RunningMemory'
      BY <1>1, <1>2, <2>3 DEF IInv, RunningMemory
    <2> QED
      BY <2>1, <2>2, <2>4 DEF IInv
  <1>3. CASE jmark < target /\ journal' = Appended(prefix, target) /\ jmark' = target
             /\ refill' = "anchor"
    <2>1. Sound(Appended(prefix, target))
      BY <1>1, <1>3, RaiseSound
    <2>2. Shape' /\ Sound(journal)' /\ SourcesKept'
      BY <1>1, <1>3, <2>1, JournalReplaced
    <2>3. /\ journal'.mark = target /\ ~journal'.torn /\ journal'.prefix = prefix
          /\ journal'.before = jmark
      BY <1>3 DEF Appended
    <2>4. MountedMemory'
      BY <1>1, <1>3, <2>3 DEF MountedMemory, Dirs
    <2>5. SourceMemory'
      BY <1>1, <1>3, <2>3 DEF IInv, SourceMemory, Sourced, Below, Past
    <2>6. RunningMemory'
      BY <1>1, <1>3, <2>3 DEF IInv, RunningMemory
    <2> QED
      BY <2>2, <2>4, <2>5, <2>6 DEF IInv
  <1>4. \/ UNCHANGED <<journal, jmark>>
        \/ /\ jmark < target /\ journal' = Appended(prefix, target) /\ jmark' = target
           /\ refill' = "anchor"
    <2>1. CASE Throws(target)
      <3>1. journal' = journal /\ jmark' = jmark
        BY <2>1
      <3> QED
        BY <3>1
    <2>2. CASE ~Throws(target) /\ target = jmark
      <3>1. Append(prefix, target)
        BY <2>2
      <3>2. journal' = journal /\ jmark' = jmark
        BY <2>2, <3>1 DEF Append
      <3> QED
        BY <3>2
    <2>3. CASE ~Throws(target) /\ target # jmark
      <3>1. jmark < target
        BY <1>1, <2>3
      <3> QED
        BY <2>3, <3>1 DEF Append
    <2> QED
      BY <2>1, <2>2, <2>3
  <1> QED
    BY <1>2, <1>3, <1>4

(* The anchor's share of a raise, whether or not the bridge learns that it *)
(* landed.                                                                 *)
LEMMA AnchorRaised ==
  ASSUME IInv, TypeOK', refill = "anchor", target >= dir.mark,
         Publish([dir EXCEPT !.mark = target]), refill' = "idle",
         UNCHANGED <<journal, pc, jmark, prefix, counter, ghost>>,
         reserved' \in {reserved, target}, reserved <= reserved'
  PROVE  IInv'
  <1> USE DEF ghost
  <1> PICK d : d = [dir EXCEPT !.mark = target]
    OBVIOUS
  <1>1. /\ pc \in {"running", "closing"} /\ target = jmark /\ jmark # 0 /\ jmark \in Nat
        /\ dir \in Dirs /\ dir.flag /\ dir.prefix = prefix /\ prefix # 0 /\ dir.entry
        /\ dir.mark <= jmark /\ journal.prefix = prefix /\ dir \in InReach /\ DirShape(dir)
        /\ prefix < ids /\ ids \in Nat /\ prefix \in Nat /\ Publish(d)
        /\ reserved <= dir.mark /\ reserved \in Nat /\ counter \in Nat /\ counter <= reserved
    BY DEF IInv, TypeOK, MountedMemory, SourceMemory, RunningMemory, Up, Sourced, Shape, InReach
  <1>2. /\ d \in Dirs /\ d.gen = dir.gen /\ d.mark = jmark /\ d.witness = dir.witness
        /\ d.legacy = dir.legacy /\ d.flag /\ d.prefix = prefix /\ d.entry
    BY <1>1 DEF Dirs
  <1>3. DirShape(d)'
    BY <1>1, <1>2 DEF DirShape
  <1>4. journal.mark # 0 => d.witness <= Settled(journal) /\ d.legacy <= Settled(journal)
    BY <1>1, <1>2 DEF IInv, Sound, Folded
  <1>5. Shape' /\ Sound(journal)' /\ SourcesKept'
    <2>1. /\ ids' \in Nat /\ ids <= ids' /\ prefix' \in Nat /\ prefix' < ids'
          /\ UNCHANGED <<journal, used, rewound>>
      BY <1>1
    <2> QED
      BY <1>1, <1>2, <1>3, <1>4, <2>1, Published DEF Unflagged
  <1>6. dir' = d /\ InReach' \subseteq InReach \cup {d}
    BY <1>1 DEF Publish, InReach
  <1>7. MountedMemory'
    BY <1>1, <1>2, <1>6 DEF IInv, MountedMemory, Up
  <1>8. SourceMemory'
    BY <1>1, <1>2, <1>6 DEF IInv, SourceMemory, Sourced, Below, Unflagged, Past
  <1>9. RunningMemory'
    BY <1>1, <1>2, <1>6 DEF IInv, RunningMemory, Dirs
  <1> QED
    BY <1>5, <1>7, <1>8, <1>9 DEF IInv

LEMMA RefillAnchorKeeps ==
  ASSUME IInv, TypeOK', RefillAnchor
  PROVE  IInv'
  <1>1. target = jmark /\ dir.mark <= jmark /\ reserved <= dir.mark /\ dir \in Dirs
        /\ jmark \in Nat /\ reserved \in Nat
    BY DEF RefillAnchor, IInv, TypeOK, MountedMemory, SourceMemory, RunningMemory, Up, Sourced
  <1>2. target >= dir.mark /\ reserved' \in {reserved, target} /\ reserved <= reserved'
    BY <1>1 DEF RefillAnchor, Larger, Dirs
  <1> QED
    BY <1>2, AnchorRaised DEF RefillAnchor, Dirs, IInv, TypeOK

LEMMA RefillFailsKeeps ==
  ASSUME IInv, TypeOK', RefillFails
  PROVE  IInv'
  <1>1. CASE refill = "append" /\ journal' \in Interrupted(prefix, target)
             /\ UNCHANGED <<dir, lost>>
    <2>1. /\ pc \in {"running", "closing"} /\ refill' = "idle" /\ jmark \in Nat /\ jmark # 0
          /\ target \in Nat /\ prefix < ids /\ journal.prefix = prefix /\ dir.entry
          /\ dir.mark <= jmark /\ dir.prefix = prefix /\ dir.flag /\ jmark <= journal.mark
          /\ UNCHANGED <<pc, jmark, prefix, counter, reserved, ids, used, rewound>>
          /\ journal \in Journals
      BY <1>1 DEF RefillFails, ghost, IInv, TypeOK, MountedMemory, SourceMemory,
                  RunningMemory, Up, Sourced, Shape, Sound, JournalShape
    <2>2. journal' \in StoppedJournals
      BY <1>1, <2>1 DEF StoppedJournals
    <2>3. Shape' /\ Sound(journal)' /\ SourcesKept'
      BY <1>1, <2>1, <2>2, StoppedSound, JournalReplaced
    <2>4. \/ journal' = journal
          \/ /\ journal'.mark = jmark /\ journal'.torn /\ journal'.prefix = prefix
             /\ journal'.before = 0
          \/ /\ journal'.mark = target /\ ~journal'.torn /\ journal'.prefix = prefix
             /\ journal'.before = jmark /\ jmark < target
      <3>1. CASE journal' = journal
        BY <3>1
      <3>2. CASE journal' = Torn(jmark)
        BY <2>1, <3>2 DEF Torn, Journals
      <3>3. CASE journal' = Appended(prefix, target) /\ jmark < target
        BY <3>3 DEF Appended
      <3> QED
        BY <1>1, <2>1, <3>1, <3>2, <3>3 DEF Interrupted, Throws
    <2>5. MountedMemory'
      BY <1>1, <2>1, <2>4 DEF IInv, MountedMemory
    <2>6. SourceMemory'
      BY <1>1, <2>1, <2>4 DEF IInv, SourceMemory, Sourced, Below, Past, Unflagged, Sources,
                              InReach
    <2>7. RunningMemory'
      BY <1>1, <2>1, <2>4 DEF IInv, RunningMemory
    <2> QED
      BY <2>3, <2>5, <2>6, <2>7 DEF IInv
  <1>2. CASE refill = "anchor" /\ target >= dir.mark
             /\ Publish([dir EXCEPT !.mark = target]) /\ UNCHANGED journal
    BY <1>2, AnchorRaised DEF RefillFails, IInv, TypeOK
  <1>3. CASE UNCHANGED disk
    <2>1. Shape' /\ Sound(journal)' /\ SourcesKept'
      BY <1>3, DiskUntouched DEF RefillFails, ghost, IInv, TypeOK, Shape
    <2>2. MountedMemory' /\ SourceMemory' /\ RunningMemory'
      BY <1>3 DEF RefillFails, disk, ghost, IInv, MountedMemory, SourceMemory, RunningMemory,
                  Sources, Below, InReach, Unflagged, Past, Larger
    <2> QED
      BY <2>1, <2>2 DEF IInv
  <1> QED
    BY <1>1, <1>2, <1>3 DEF RefillFails

LEMMA CloseKeeps ==
  ASSUME IInv, TypeOK', Close
  PROVE  IInv'
  <1>1. Shape' /\ Sound(journal)' /\ SourcesKept'
    BY DiskUntouched DEF Close, disk, source, ghost, IInv, TypeOK, Shape
  <1>2. MountedMemory' /\ SourceMemory' /\ RunningMemory'
    BY DEF Close, disk, source, ghost, IInv, MountedMemory, SourceMemory, RunningMemory,
           Sources, Below, InReach, Unflagged, Past, Larger, Up, Sourced
  <1> QED
    BY <1>1, <1>2 DEF IInv

-----------------------------------------------------------------------------
(* Stops.                                                                  *)

LEMMA Forgotten ==
  ASSUME Forget
  PROVE  MountedMemory' /\ SourceMemory' /\ RunningMemory' /\ prefix' = 0
  BY DEF Forget, MountedMemory, SourceMemory, RunningMemory, Up, Sourced

LEMMA StopsKeep ==
  ASSUME IInv, TypeOK', Closed \/ Crash
  PROVE  IInv'
  <1>1. CASE Closed
    <2>1. Shape' /\ Sound(journal)' /\ SourcesKept'
      BY <1>1, Forgotten, DiskUntouched DEF Closed, ghost, IInv, TypeOK, Shape
    <2> QED
      BY <1>1, <2>1, Forgotten DEF Closed, IInv
  <1>2. CASE Crash
    <2>1. Shape' /\ Sound(journal)' /\ SourcesKept'
      BY <1>2, Forgotten, StoppedSound, JournalReplaced DEF Crash, ghost, IInv, TypeOK, Shape
    <2> QED
      BY <1>2, <2>1, Forgotten DEF Crash, IInv
  <1> QED
    BY <1>1, <1>2

LEMMA FlushLogKeeps ==
  ASSUME IInv, TypeOK', FlushLog
  PROVE  IInv'
  <1>1. InReach' \subseteq InReach /\ dir' = dir /\ journal' = journal /\ lost' = {}
    BY DEF FlushLog, InReach
  <1>2. Shape' /\ SourcesKept'
    BY <1>1 DEF FlushLog, source, ghost, IInv, Shape, DirShape, SourcesKept
  <1>3. Sound(journal)'
    BY <1>1 DEF FlushLog, ghost, IInv, Sound, JournalShape, Covers, SourcesCover, Folded, Below,
                Past, Unflagged, PrefixOf, Settled, Sources, Larger
  <1>4. MountedMemory' /\ SourceMemory' /\ RunningMemory'
    BY <1>1 DEF FlushLog, source, ghost, IInv, MountedMemory, SourceMemory, RunningMemory,
                Sources, Below, Unflagged, Past, Larger
  <1> QED
    BY <1>2, <1>3, <1>4 DEF IInv

LEMMA HardResetKeeps ==
  ASSUME IInv, TypeOK', HardReset
  PROVE  IInv'
  <1>1. PICK d \in Reverted :
          /\ dir' = d /\ rewound' = (rewound \/ Rewinds(d))
          /\ IF d.entry THEN journal' \in StoppedJournals ELSE journal' = EmptyJournal
    BY DEF HardReset
  <1>2. PICK x \in InReach : d = x \/ d = [x EXCEPT !.entry = FALSE]
    BY <1>1 DEF Reverted, InReach
  <1>3. /\ x \in Dirs /\ d.gen = x.gen /\ d.prefix = x.prefix /\ d.mark = x.mark
        /\ d.flag = x.flag /\ d.witness = x.witness /\ d.legacy = x.legacy
        /\ d.entry => x.entry
    BY <1>2 DEF IInv, TypeOK, InReach, Dirs
  <1>4. lost' = {} /\ InReach' = {d} /\ UNCHANGED <<ids, used>> /\ prefix' = 0
        /\ ids \in Nat /\ 1 < ids /\ (rewound => rewound')
    BY <1>1, Forgotten DEF HardReset, InReach, IInv, Shape, TypeOK
  <1>5. Sources(d) = Sources(x) /\ PrefixOf(d) = PrefixOf(x)
    BY <1>3 DEF Sources, PrefixOf
  <1>6. Shape' /\ SourcesKept'
    <2>1. DirShape(x)
      BY DEF IInv, Shape
    <2>2. DirShape(d)'
      BY <1>3, <1>4, <2>1 DEF DirShape
    <2> QED
      BY <1>1, <1>4, <2>2 DEF Shape, SourcesKept, IInv
  <1>7. Sound(journal)'
    <2>1. CASE d.entry
      <3>1. PICK j : j = journal' /\ Sound(j)
        BY <1>1, <2>1, StoppedSound
      <3>2. JournalShape(j)' /\ Covers(j)'
        BY <1>1, <1>4, <2>1, <3>1 DEF Sound, JournalShape, Covers, Below
      <3>3. Unflagged(d) => Past(j) \/ Below(PrefixOf(d), Sources(d))
        BY <1>3, <1>5, <3>1 DEF Sound, SourcesCover, Unflagged
      <3>4. j.mark # 0 => d.witness <= Settled(j) /\ d.legacy <= Settled(j)
        BY <1>3, <3>1 DEF Sound, Folded
      <3>5. SourcesCover(j)' /\ Folded(j)'
        BY <1>4, <3>3, <3>4 DEF SourcesCover, Folded, Below
      <3> QED
        BY <3>1, <3>2, <3>5
           DEF Sound, JournalShape, Covers, SourcesCover, Folded, Past, Settled, Below
    <2>2. CASE ~d.entry
      <3>1. journal' = EmptyJournal
        BY <1>1, <2>2
      <3>2. JournalShape(journal)'
        BY <1>4, <3>1 DEF JournalShape, EmptyJournal, Journals
      <3>3. Covers(journal)' /\ Folded(journal)'
        BY <3>1 DEF Covers, Folded, EmptyJournal
      <3>4. Unflagged(d) => rewound' \/ Below(PrefixOf(d), Sources(d))
        <4>1. CASE dir.entry
          BY <1>1, <2>2, <4>1 DEF Rewinds, Unflagged
        <4>2. CASE ~dir.entry
          <5>1. ~Past(journal)
            BY <4>2 DEF IInv, Sound, JournalShape, Past, EmptyJournal
          <5> QED
            BY <1>3, <1>5, <5>1 DEF IInv, Sound, SourcesCover, Unflagged
        <4> QED
          BY <4>1, <4>2
      <3>5. SourcesCover(journal)'
        BY <1>4, <3>4 DEF SourcesCover, Below
      <3> QED
        BY <3>2, <3>3, <3>5 DEF Sound
    <2> QED
      BY <2>1, <2>2
  <1> QED
    BY <1>6, <1>7, Forgotten DEF HardReset, IInv

LEMMA DamageKeeps ==
  ASSUME IInv, TypeOK', Damage
  PROVE  IInv'
  <1> USE DEF Damage, source
  <1> PICK j : j = Torn(journal.before)
    OBVIOUS
  <1>1. /\ journal' = j /\ journal \in Journals /\ journal.mark # 0 /\ ~journal.torn
        /\ Block \in Nat /\ journal.prefix # 0 /\ journal.prefix < ids /\ dir.entry
    BY CounterAssumption DEF IInv, Sound, JournalShape, EmptyJournal
  <1>2. /\ j \in Journals /\ j.mark = journal.before /\ j.torn
        /\ j.mark # 0 => j.prefix = journal.prefix
        /\ j.prefix < ids
    <2>1. j \in Journals
      BY <1>1, RecordTypes DEF IInv, TypeOK, Journals
    <2>2. CASE journal.before = 0
      BY <1>1, <2>1, <2>2 DEF Torn, EmptyJournal, IInv, Shape, TypeOK
    <2>3. CASE journal.before # 0
      BY <1>1, <2>1, <2>3 DEF Torn, Journals
    <2> QED
      BY <2>1, <2>2, <2>3
  <1>3. JournalShape(j)
    BY <1>1, <1>2 DEF JournalShape
  <1>4. Covers(j)
    BY <1>1, <1>2 DEF IInv, Sound, Covers
  <1>5. SourcesCover(j)
    BY <1>1, <1>2 DEF IInv, Sound, SourcesCover, Past
  <1>6. Folded(j)
    BY <1>1, <1>2 DEF IInv, Sound, Folded, Settled
  <1>7. Shape' /\ Sound(journal)' /\ SourcesKept'
    BY <1>1, <1>3, <1>4, <1>5, <1>6, JournalReplaced DEF Sound, IInv, Shape
  <1>8. MountedMemory' /\ SourceMemory' /\ RunningMemory'
    BY DEF IInv, MountedMemory, SourceMemory, RunningMemory, Up, Sourced
  <1> QED
    BY <1>7, <1>8 DEF IInv

LEMMA WipeKeeps ==
  ASSUME IInv, TypeOK', Wipe
  PROVE  IInv'
  <1> USE DEF Wipe, EmptyDir, EmptyJournal
  <1>1. Shape' /\ SourcesKept'
    BY Forgotten DEF IInv, TypeOK, Shape, DirShape, SourcesKept, InReach
  <1>2. JournalShape(journal)' /\ Covers(journal)' /\ Folded(journal)'
    BY DEF IInv, Shape, TypeOK, JournalShape, Covers, Folded, Journals
  <1>3. SourcesCover(journal)'
    BY DEF SourcesCover, InReach, Unflagged, Sources, Larger
  <1> QED
    BY <1>1, <1>2, <1>3, Forgotten DEF IInv, Sound

-----------------------------------------------------------------------------
(* The theorems.                                                           *)

(* The three forms of an old install.                                      *)
LEMMA OldForms ==
  ASSUME Init
  PROVE  \/ dir = EmptyDir
         \/ \E m \in OldMarks : dir = Early(m)
         \/ \E m, w, l \in OldMarks \cup {0}, f \in BOOLEAN : dir = Anchored(m, w, l, f)
  <1> DEFINE marks == OldMarks \cup {0}
             found == marks \X marks \X marks
  <1>1. ASSUME NEW t \in found, NEW f \in BOOLEAN, dir = Anchored(t[1], t[2], t[3], f)
        PROVE  \E m, w, l \in marks, g \in BOOLEAN : dir = Anchored(m, w, l, g)
    <2>1. t[1] \in marks /\ t[2] \in marks /\ t[3] \in marks
      BY <1>1
    <2> QED
      BY <1>1, <2>1
  <1>2. \/ dir = EmptyDir
        \/ \E m \in OldMarks : dir = Early(m)
        \/ \E t \in found : dir = Anchored(t[1], t[2], t[3], FALSE)
        \/ \E t \in found : dir = Anchored(t[1], t[2], t[3], TRUE)
    BY Zenon DEF Init, OldDirs
  <1> QED
    BY <1>1, <1>2

LEMMA InitIInv ==
  ASSUME Init
  PROVE  IInv
  <1> USE DEF Init
  <1>1. /\ dir \in Dirs /\ dir.entry = FALSE /\ dir.flag = FALSE
        /\ \/ dir.gen = 0 /\ dir.prefix = 0 /\ dir.mark = 0 /\ dir.witness = 0
           \/ dir.gen = 1 /\ dir.prefix = IF dir.mark = 0 THEN 0 ELSE OldPrefix
    <2>1. CASE dir = EmptyDir
      BY <2>1 DEF EmptyDir, Dirs
    <2>2. ASSUME NEW m \in OldMarks \cup {0}, NEW w \in OldMarks \cup {0},
                 NEW l \in OldMarks \cup {0}, NEW f \in BOOLEAN, dir = Anchored(m, w, l, f)
          PROVE  /\ dir \in Dirs /\ dir.entry = FALSE /\ dir.flag = FALSE
                 /\ dir.gen = 1 /\ dir.prefix = IF dir.mark = 0 THEN 0 ELSE OldPrefix
      <3>1. m \in Nat /\ w \in Nat /\ l \in Nat
        BY CounterAssumption
      <3>2. dir = [gen |-> 1, prefix |-> IF m = 0 THEN 0 ELSE 1, mark |-> m, flag |-> FALSE,
                   witness |-> w, legacy |-> l, foreign |-> f, entry |-> FALSE]
        BY <2>2 DEF Anchored, EmptyDir, OldPrefix
      <3> QED
        BY <3>1, <3>2 DEF Dirs, OldPrefix
    <2>3. ASSUME NEW m \in OldMarks, dir = Early(m)
          PROVE  /\ dir \in Dirs /\ dir.entry = FALSE /\ dir.flag = FALSE
                 /\ dir.gen = 0 /\ dir.prefix = 0 /\ dir.mark = 0 /\ dir.witness = 0
      <3>1. m \in Nat
        BY CounterAssumption
      <3>2. dir = [gen |-> 0, prefix |-> 0, mark |-> 0, flag |-> FALSE,
                   witness |-> 0, legacy |-> m, foreign |-> FALSE, entry |-> FALSE]
        BY <2>3 DEF Early, EmptyDir
      <3> QED
        BY <3>1, <3>2 DEF Dirs
    <2> QED
      BY <2>1, <2>2, <2>3, OldForms
  <1>2. Sources(dir) \in Nat
    BY <1>1 DEF Sources, Larger, Dirs
  <1>3. TypeOK
    <2>1. used \subseteq Nat \X Nat
      BY <1>2 DEF OldPrefix
    <2>2. excused \in BOOLEAN
      BY <1>1 DEF Dirs
    <2> QED
      BY <1>1, <2>1, <2>2 DEF TypeOK, Steps, EmptyJournal, Journals
  <1>4. Shape /\ SourcesKept
    BY <1>1 DEF Shape, DirShape, InReach, SourcesKept, OldPrefix
  <1>5. Sound(journal)
    <2>1. Below(OldPrefix, Sources(dir)) /\ PrefixOf(dir) = OldPrefix
      BY <1>1, <1>2 DEF Below, PrefixOf
    <2> QED
      BY <2>1 DEF Sound, JournalShape, Covers, SourcesCover, Folded, InReach, EmptyJournal,
                  Journals
  <1>6. MountedMemory /\ SourceMemory /\ RunningMemory
    BY DEF MountedMemory, SourceMemory, RunningMemory, Up, Sourced
  <1> QED
    BY <1>3, <1>4, <1>5, <1>6 DEF IInv

LEMMA StutterKeeps ==
  ASSUME IInv, UNCHANGED vars
  PROVE  IInv'
  <1>1. TypeOK'
    BY DEF vars, disk, source, ghost, IInv, TypeOK
  <1>2. Shape' /\ Sound(journal)' /\ SourcesKept'
    BY DiskUntouched DEF vars, disk, source, ghost, IInv, TypeOK, Shape
  <1>3. MountedMemory' /\ SourceMemory' /\ RunningMemory'
    BY DEF vars, disk, source, ghost, IInv, MountedMemory, SourceMemory, RunningMemory,
           Sources, Below, InReach, Unflagged, Past, Larger, Up, Sourced
  <1> QED
    BY <1>1, <1>2, <1>3 DEF IInv

LEMMA NextKeeps ==
  ASSUME IInv, [Next]_vars
  PROVE  IInv'
  <1>1. CASE Next
    <2>1. TypeOK'
      BY <1>1, TypeKept DEF IInv
    <2> QED
      BY <1>1, <2>1, MountKeeps, ReplayKeeps, SeedKeeps, LiftKeeps, RetireWitnessKeeps,
         RetireLegacyKeeps, ResumeKeeps, ClaimAppendKeeps, ClaimAnchorKeeps, EmitKeeps,
         EmitRefusedKeeps, RefillAppendKeeps, RefillAnchorKeeps, RefillFailsKeeps,
         CloseKeeps, StopsKeep, HardResetKeeps, FlushLogKeeps, DamageKeeps, WipeKeeps
         DEF Next, Process
  <1> QED
    BY <1>1, StutterKeeps

(* Every state of every behaviour is well typed, whatever the disk loses.  *)
THEOREM TypeCorrect == Spec => []TypeOK
  <1>1. Init => TypeOK
    BY InitIInv DEF IInv
  <1>2. TypeOK /\ [Next]_vars => TypeOK'
    <2>1. TypeOK /\ UNCHANGED vars => TypeOK'
      BY DEF vars, disk, source, ghost, TypeOK
    <2> QED
      BY <2>1, TypeKept
  <1> QED
    BY <1>1, <1>2, PTL DEF Spec

LEMMA Inductive == Spec => []IInv
  <1>1. Init => IInv
    BY InitIInv
  <1>2. IInv /\ [Next]_vars => IInv'
    BY NextKeeps
  <1> QED
    BY <1>1, <1>2, PTL DEF Spec

(* "A crash must never let a counter repeat" (keys.ts:202-211): the nonce  *)
(* the bridge would hand out next was never handed out, for every block    *)
(* size and every history of crashes, resets and damaged records, unless   *)
(* one of the resets rewound a start that migrated a mark.                 *)
THEOREM NonceNeverRepeats == Spec => []NextNonceUnused
  <1>1. IInv => NextNonceUnused
    <2> SUFFICES ASSUME IInv, ~rewound, pc = "running", <<prefix, counter>> \in used
                 PROVE  FALSE
      BY DEF NextNonceUnused, NextIsFresh
    <2>1. Below(prefix, counter) /\ counter \in Nat
      BY DEF IInv, SourceMemory, Sourced, TypeOK
    <2> QED
      BY <2>1 DEF Below
  <1> QED
    BY <1>1, Inductive, PTL

(* Where a directory operation is forced out before it is relied on, as    *)
(* syncDirectory does on every platform but win32, no reset takes the      *)
(* journal's entry (keys.ts:651-655) and no nonce repeats at all.          *)
THEOREM ForcedNonceNeverRepeats ==
  ASSUME ~LosesRenames
  PROVE  Spec => []LostEntryIsSafe
  <1> DEFINE Forced == lost = {} /\ rewound = FALSE
  <1>1. Init => Forced
    BY DEF Init
  <1>2. Forced /\ [Next]_vars => Forced'
    <2> SUFFICES ASSUME Forced, [Next]_vars
                 PROVE  Forced'
      OBVIOUS
    <2>1. \A d : Publish(d) => lost' = {}
      BY DEF Publish
    <2>2. CASE Process
      BY <2>1, <2>2
         DEF Process, Mount, Replay, Seed, Lift, RetireWitness, RetireLegacy, Resume,
             ClaimAppend, ClaimAnchor, Emit, EmitRefused, RefillAppend, RefillAnchor,
             RefillFails, Close, Closed, disk, ghost
    <2>3. CASE HardReset
      BY <2>3 DEF HardReset, Reverted, Rewinds
    <2>4. CASE Crash \/ FlushLog \/ Damage \/ Wipe \/ UNCHANGED vars
      BY <2>4 DEF Crash, FlushLog, Damage, Wipe, vars, disk, ghost
    <2> QED
      BY <2>2, <2>3, <2>4 DEF Next
  <1>3. Forced /\ NextNonceUnused => LostEntryIsSafe
    BY DEF NextNonceUnused, LostEntryIsSafe
  <1> QED
    BY <1>1, <1>2, <1>3, NonceNeverRepeats, PTL DEF Spec

(* What the bridge may hand out is in the journal and in the anchor before *)
(* it may (keys.ts:2386, 2406).                                            *)
THEOREM LicencePrecedesUse == Spec => []LicenceIsDurable
  <1>1. IInv => LicenceIsDurable
    <2> SUFFICES ASSUME IInv, pc \in {"running", "closing"}
                 PROVE  reserved <= jmark /\ jmark <= journal.mark /\ reserved <= dir.mark
      BY DEF LicenceIsDurable
    <2>1. /\ jmark # 0 /\ dir.mark <= jmark /\ reserved <= dir.mark /\ jmark <= journal.mark
          /\ dir.mark \in Nat /\ jmark \in Nat /\ reserved \in Nat
      BY DEF IInv, TypeOK, Dirs, MountedMemory, SourceMemory, RunningMemory, Up
    <2> QED
      BY <2>1
  <1> QED
    BY <1>1, Inductive, PTL

(* The journal "can never legitimately trail" the anchor                   *)
(* (keys.ts:1132-1140): while a bridge is up the anchor's floor is at or   *)
(* below the journal's mark.                                               *)
THEOREM FloorTrails == Spec => []FloorNeverLeads
  <1>1. IInv => FloorNeverLeads
    <2> SUFFICES ASSUME IInv, pc \in Up
                 PROVE  dir.mark <= journal.mark \/ (journal.mark = 0 /\ ~dir.flag)
      BY DEF FloorNeverLeads, Up
    <2>1. /\ jmark <= journal.mark
          /\ jmark # 0 => dir.mark <= jmark
          /\ jmark = 0 => ~dir.flag /\ journal.mark = 0
          /\ dir.mark \in Nat /\ jmark \in Nat /\ journal.mark \in Nat
      BY DEF IInv, TypeOK, Dirs, Journals, MountedMemory
    <2> QED
      BY <2>1
  <1> QED
    BY <1>1, Inductive, PTL

(* What each step of the bridge does to the two marks.                     *)
LEMMA ProcessRaises ==
  ASSUME IInv, Process
  PROVE  /\ dir'.mark >= dir.mark
         /\ journal'.mark >= journal.mark \/ journal'.mark >= jmark
  <1>1. /\ dir \in Dirs /\ dir.mark \in Nat /\ journal.mark \in Nat /\ jmark \in Nat
        /\ counter \in Nat /\ target \in Nat /\ Block \in Nat /\ dir.gen \in Nat
        /\ dir.witness \in Nat /\ dir.legacy \in Nat
    BY CounterAssumption DEF IInv, TypeOK, Dirs, Journals
  <1>2. dir' = dir => dir'.mark >= dir.mark
    BY <1>1
  <1>3. journal' = journal => journal'.mark >= journal.mark
    BY <1>1
  <1>4. \A p, m : Append(p, m) /\ m \in Nat /\ m >= jmark
                  => journal'.mark >= journal.mark \/ journal'.mark >= jmark
    BY <1>3 DEF Append, Appended
  <1>5. CASE Mount
    <2>1. dir.gen = 0 => dir.mark = 0
      BY DEF IInv, Shape, DirShape, InReach
    <2>2. CASE dir.gen # 0
      BY <1>2, <1>3, <1>5, <2>2 DEF Mount
    <2>3. CASE dir.gen = 0
      <3>1. dir' = [dir EXCEPT !.gen = ids, !.mark = dir.legacy,
                               !.prefix = IF dir.legacy = 0 THEN 0 ELSE OldPrefix]
        BY <1>5, <2>3 DEF Mount, Publish
      <3>2. dir'.mark = dir.legacy
        BY <1>1, <3>1 DEF Dirs
      <3> QED
        BY <1>1, <1>3, <1>5, <2>1, <2>3, <3>2 DEF Mount
    <2> QED
      BY <2>2, <2>3
  <1>6. CASE Replay
    <2>1. dir' = dir \/ dir' = [dir EXCEPT !.entry = TRUE]
      BY <1>6 DEF Replay, Publish
    <2>2. dir'.mark = dir.mark
      BY <1>1, <2>1 DEF Dirs
    <2> QED
      BY <1>1, <1>3, <1>6, <2>2 DEF Replay
  <1>7. CASE Seed
    <2>1. dir' = dir
      BY <1>7 DEF Seed
    <2>2. journal' = journal \/ (Append(SeedPrefix, SeedTo) /\ SeedTo > jmark)
      BY <1>7 DEF Seed, NeedsSeed
    <2>3. SeedTo \in Nat
      BY <1>1 DEF SeedTo, TailFloor, Sources, Larger
    <2>4. SeedTo > jmark => SeedTo >= jmark
      BY <1>1, <2>3
    <2> QED
      BY <1>2, <1>3, <1>4, <2>1, <2>2, <2>3, <2>4
  <1>8. CASE Lift
    <2>1. \/ dir' = dir
          \/ dir' = [dir EXCEPT !.prefix = journal.prefix, !.mark = jmark, !.flag = TRUE]
             /\ jmark # 0
      BY <1>8 DEF Lift, NeedsLift, Publish
    <2>2. jmark # 0 => dir.mark <= jmark
      BY <1>8 DEF IInv, MountedMemory, Up, Lift
    <2>3. dir'.mark = dir.mark \/ (dir'.mark = jmark /\ jmark # 0)
      BY <1>1, <2>1 DEF Dirs
    <2> QED
      BY <1>1, <1>3, <1>8, <2>2, <2>3 DEF Lift
  <1>9. CASE RetireWitness \/ RetireLegacy
    <2>1. dir' = [dir EXCEPT !.witness = 0] \/ dir' = [dir EXCEPT !.legacy = 0]
      BY <1>9 DEF RetireWitness, RetireLegacy, Publish
    <2>2. dir'.mark = dir.mark
      BY <1>1, <2>1 DEF Dirs
    <2> QED
      BY <1>1, <1>3, <1>9, <2>2 DEF RetireWitness, RetireLegacy
  <1>10. CASE ClaimAppend
    <2>1. dir' = dir
      BY <1>10 DEF ClaimAppend
    <2>2. \/ journal' = journal
          \/ Append(prefix, counter + Block) /\ counter + Block >= jmark
      BY <1>1, <1>10 DEF ClaimAppend, Throws
    <2> QED
      BY <1>1, <1>2, <1>3, <1>4, <2>1, <2>2
  <1>11. CASE ClaimAnchor
    <2>1. \/ dir' = dir
          \/ /\ ~(counter + Block <= dir.mark)
             /\ dir' = [dir EXCEPT !.prefix = prefix, !.mark = counter + Block,
                                   !.flag = TRUE]
      BY <1>11 DEF ClaimAnchor, Publish
    <2>2. \/ dir'.mark = dir.mark
          \/ dir'.mark = counter + Block /\ ~(counter + Block <= dir.mark)
      BY <1>1, <2>1 DEF Dirs
    <2> QED
      BY <1>1, <1>3, <1>11, <2>2 DEF ClaimAnchor
  <1>12. CASE RefillAppend
    <2>1. dir' = dir
      BY <1>12 DEF RefillAppend
    <2>2. journal' = journal \/ (Append(prefix, target) /\ target >= jmark)
      BY <1>1, <1>12 DEF RefillAppend, Throws
    <2> QED
      BY <1>1, <1>2, <1>3, <1>4, <2>1, <2>2
  <1>13. CASE RefillAnchor
    <2>1. dir' = dir \/ (~(target < dir.mark) /\ dir' = [dir EXCEPT !.mark = target])
      BY <1>13 DEF RefillAnchor, Publish
    <2>2. dir'.mark = dir.mark \/ (dir'.mark = target /\ ~(target < dir.mark))
      BY <1>1, <2>1 DEF Dirs
    <2> QED
      BY <1>1, <1>3, <1>13, <2>2 DEF RefillAnchor
  <1>14. CASE RefillFails
    <2>1. \/ dir' = dir /\ journal' = journal
          \/ dir' = dir /\ journal' \in Interrupted(prefix, target)
          \/ /\ target >= dir.mark /\ dir' = [dir EXCEPT !.mark = target]
             /\ journal' = journal
      BY <1>14 DEF RefillFails, Publish, disk
    <2>2. CASE dir' = dir /\ journal' = journal
      BY <1>2, <1>3, <2>2
    <2>3. CASE dir' = dir /\ journal' \in Interrupted(prefix, target)
      <3>1. CASE journal' = journal
        BY <1>2, <1>3, <2>3, <3>1
      <3>2. CASE journal' = Torn(jmark)
        <4>1. journal \in Journals
          BY DEF IInv, TypeOK
        <4>2. journal'.mark = jmark
          BY <1>1, <3>2, <4>1 DEF Torn, EmptyJournal, Journals
        <4> QED
          BY <1>1, <1>2, <2>3, <4>2
      <3>3. CASE journal' = Appended(prefix, target) /\ ~Throws(target)
        <4>1. journal'.mark = target /\ target >= jmark
          BY <1>1, <3>3 DEF Appended, Throws
        <4> QED
          BY <1>1, <1>2, <2>3, <4>1
      <3> QED
        BY <2>3, <3>1, <3>2, <3>3 DEF Interrupted
    <2>4. CASE target >= dir.mark /\ dir' = [dir EXCEPT !.mark = target] /\ journal' = journal
      <3>1. dir'.mark = target
        BY <1>1, <2>4 DEF Dirs
      <3> QED
        BY <1>3, <2>4, <3>1
    <2> QED
      BY <2>1, <2>2, <2>3, <2>4
  <1>15. CASE Resume \/ Emit \/ EmitRefused \/ Close \/ Closed
    BY <1>2, <1>3, <1>15 DEF Resume, Emit, EmitRefused, Close, Closed, disk
  <1> QED
    BY <1>5, <1>6, <1>7, <1>8, <1>9, <1>10, <1>11, <1>12, <1>13, <1>14, <1>15 DEF Process

(* "No write can ever lower the mark" (keys.ts:26-28): no step of the      *)
(* bridge lowers the anchor's floor, nor a mark whose append was           *)
(* acknowledged.                                                           *)
THEOREM MarksOnlyRise == Spec => MarkNeverLowered
  <1>1. IInv /\ [Next]_vars
        => [Process => /\ dir'.mark >= dir.mark
                       /\ journal'.mark >= journal.mark \/ journal'.mark >= jmark]_vars
    BY ProcessRaises
  <1> QED
    BY <1>1, Inductive, PTL DEF Spec, MarkNeverLowered

=============================================================================
