------------------------------ MODULE SendNonce ------------------------------
(***************************************************************************)
(* The send-nonce counter of the companion bridge (packages/host-          *)
(* service/src/companion/keys.ts): which nonces the bridge may hand out,   *)
(* and what it may conclude about them after a crash.  The counter is      *)
(* reserved in blocks.  A block is licensed by a record appended to send-  *)
(* journal.log and fsynced, and only then by the floor in state-           *)
(* anchor.json, which is replaced by a rename.                             *)
(*                                                                         *)
(* `dir` is what the directory names: the anchor (`gen`, and its send      *)
(* state `prefix`, `mark`, `flag`), the two files of earlier builds that a *)
(* mount folds in and deletes, whether these carry their mark under        *)
(* another prefix than the live one (`foreign`), and whether the journal   *)
(* has an entry.  0 stands for an absent generation, prefix or mark; real  *)
(* ones start at 1. `lost` holds the earlier contents of the directory     *)
(* that a hard reset may still bring back, because renames and unlinks are *)
(* not forced out where syncDirectory is a no-op.  `journal` is the file's *)
(* content as replaySendJournal sees it: the last valid mark, the one      *)
(* before it, and whether bytes that are no valid record follow.  A record *)
(* in the middle that fails its digest stops every start, so no more than  *)
(* the last two records matter.                                            *)
(*                                                                         *)
(* One bridge at a time: it reserves its port before it opens the anchor   *)
(* (companion/index.ts:498), so the owner token, which tells apart two     *)
(* processes over one directory, is left out, and so are the epoch and the *)
(* device index the anchor also carries.                                   *)
(***************************************************************************)
EXTENDS Integers

CONSTANTS
  Block,              \* NONCE_RESERVATION_BLOCK
  Threshold,          \* NONCE_REFILL_THRESHOLD
  Ceiling,            \* SEND_JOURNAL_MAX_HIGH_WATER
  OldMarks,           \* marks an earlier build may have left behind
  LosesRenames,       \* whether syncDirectory is a no-op, as on win32
  MaxIds              \* bound: generations and prefixes minted

ASSUME CounterAssumption ==
  /\ Block \in Nat \ {0} /\ Threshold \in Nat /\ Ceiling \in Nat /\ MaxIds \in Nat
  /\ OldMarks \subseteq Nat \ {0}
  /\ LosesRenames \in BOOLEAN

VARIABLES
  dir, lost, journal,                     \* the disk
  pc, jmark, prefix, counter, reserved,   \* the bridge, between two durable steps
  refill, target, poisoned,               \* the refill in flight
  ids, used,                              \* fresh names; history: nonces handed out,
  excused, rewound                        \* whether a start may have to refuse, and
                                          \* whether a reset took the proof of a journal

disk == <<dir, lost, journal>>
source == <<prefix, counter, reserved, refill, target, poisoned>>
ghost == <<ids, used, excused, rewound>>
vars == <<disk, pc, jmark, source, ghost>>

OldPrefix == 1
Steps == {"down", "replay", "seed", "lift", "retire", "claim", "claimed",
          "running", "closing", "refused", "full"}

Dirs == [gen : Nat, prefix : Nat, mark : Nat, flag : BOOLEAN,
         witness : Nat, legacy : Nat, foreign : BOOLEAN, entry : BOOLEAN]
Journals == [gen : Nat, prefix : Nat, mark : Nat, before : Nat, torn : BOOLEAN]

Larger(a, b) == IF a >= b THEN a ELSE b

EmptyDir == [gen |-> 0, prefix |-> 0, mark |-> 0, flag |-> FALSE,
             witness |-> 0, legacy |-> 0, foreign |-> FALSE, entry |-> FALSE]
EmptyJournal == [gen |-> 0, prefix |-> 0, mark |-> 0, before |-> 0, torn |-> FALSE]

(* What an install may hold when this build first mounts it: nothing, the  *)
(* pre-anchor file, or an anchor, with or without send state, beside       *)
(* whatever the two retired files hold: a downgrade or an unlink that was  *)
(* lost brings either back, higher or lower than the anchor, and even      *)
(* under another prefix.                                                   *)
Early(m) == [EmptyDir EXCEPT !.legacy = m]
Anchored(m, w, l, f) ==
  [EmptyDir EXCEPT !.gen = 1, !.prefix = IF m = 0 THEN 0 ELSE OldPrefix, !.mark = m,
                   !.witness = w, !.legacy = l, !.foreign = f]
Several(m, w, l) == \E x, y \in {<<1, m>>, <<2, w>>, <<3, l>>} : x # y /\ x[2] # 0 /\ y[2] # 0
OldDirs ==
  LET marks == OldMarks \cup {0}
      found == marks \X marks \X marks
  IN  {EmptyDir} \cup {Early(m) : m \in OldMarks}
        \cup {Anchored(t[1], t[2], t[3], FALSE) : t \in found}
        \cup {Anchored(t[1], t[2], t[3], TRUE) :
                 t \in {t \in found : Several(t[1], t[2], t[3])}}

Sources(d) == Larger(d.mark, Larger(d.witness, d.legacy))

Init ==
  /\ dir \in OldDirs /\ lost = {} /\ journal = EmptyJournal
  /\ pc = "down" /\ jmark = 0
  /\ prefix = 0 /\ counter = 0 /\ reserved = 0
  /\ refill = "idle" /\ target = 0 /\ poisoned = FALSE
  /\ ids = 2 /\ excused = dir.foreign /\ rewound = FALSE
  /\ used = {<<OldPrefix, c>> : c \in 1..(Sources(dir) - 1)}

-----------------------------------------------------------------------------
(* The disk.                                                               *)

(* A rename, an unlink or a create: the old directory stays in reach.      *)
Publish(d) == dir' = d /\ lost' = IF LosesRenames THEN lost \cup {dir} ELSE lost

(* The journal with one more record, written where the bridge believes the *)
(* last one ends, and with an append at that place cut short.              *)
Appended(p, m) ==
  [gen |-> dir.gen, prefix |-> p, mark |-> m, before |-> jmark, torn |-> FALSE]
Torn(m) ==
  IF m = 0 THEN [EmptyJournal EXCEPT !.torn = TRUE]
  ELSE [journal EXCEPT !.mark = m, !.before = 0, !.torn = TRUE]

(* append() throws, without writing, at a mark that is lower or past the   *)
(* ceiling, and has nothing to write at an equal one.                      *)
Throws(m) == m < jmark \/ m > Ceiling
Append(p, m) ==
  /\ jmark' = m
  /\ journal' = IF m = jmark THEN journal ELSE Appended(p, m)
Interrupted(p, m) ==
  {journal} \cup IF m = jmark \/ Throws(m) THEN {} ELSE {Torn(jmark), Appended(p, m)}

(* The bridge's memory, before it is up and once it is gone.               *)
Forget ==
  /\ pc' = "down" /\ jmark' = 0
  /\ prefix' = 0 /\ counter' = 0 /\ reserved' = 0
  /\ refill' = "idle" /\ target' = 0 /\ poisoned' = FALSE

-----------------------------------------------------------------------------
(* openStateAnchor.                                                        *)

(* The epoch write, or the mint of a generation that adopts the pre-anchor *)
(* file's mark.                                                            *)
MountMints ==    \* mutant: an anchor that is there is minted over
  /\ pc = "down" /\ ids < MaxIds
  /\ Publish([dir EXCEPT !.gen = ids, !.mark = dir.legacy,
                         !.prefix = IF dir.legacy = 0 THEN 0 ELSE OldPrefix])
  /\ ids' = ids + 1 /\ pc' = "replay"
  /\ UNCHANGED <<journal, jmark, source, used, excused, rewound>>
Mount ==
  /\ pc = "down"
  /\ IF dir.gen # 0
     THEN UNCHANGED <<dir, lost, ids>>
     ELSE /\ ids < MaxIds
          /\ Publish([dir EXCEPT !.gen = ids, !.mark = dir.legacy,
                                 !.prefix = IF dir.legacy = 0 THEN 0 ELSE OldPrefix])
          /\ ids' = ids + 1
  /\ pc' = "replay"
  /\ UNCHANGED <<journal, jmark, source, used, excused, rewound>>

RefusesLevel == journal.mark # 0 /\ dir.mark >= journal.mark    \* mutant: not strict
NeverRefuses == FALSE    \* mutant: no cross-check of anchor and journal
MustRefuse ==
  \/ dir.foreign
  \/ IF journal.mark # 0
     THEN \/ journal.gen # dir.gen
          \/ dir.prefix # 0 /\ dir.prefix # journal.prefix
          \/ dir.mark > journal.mark
     ELSE dir.flag

(* Everything up to the creation of the journal only reads.                *)
Replay ==
  /\ pc = "replay"
  /\ IF MustRefuse
     THEN pc' = "refused" /\ UNCHANGED <<dir, lost, jmark>>
     ELSE /\ pc' = "seed"
          /\ jmark' = journal.mark
          /\ IF dir.entry THEN UNCHANGED <<dir, lost>>
             ELSE Publish([dir EXCEPT !.entry = TRUE])
  /\ UNCHANGED <<journal, source, ghost>>

(* An unclean tail may have licensed one block past the last valid record. *)
NoFloor == 0    \* mutant: resume at the last valid record
TailFloor == IF journal.torn THEN Larger(jmark, 1) + Block ELSE 0
SeedTo == Larger(Sources(dir), TailFloor)
SeedPrefix ==
  IF jmark # 0 THEN journal.prefix
  ELSE IF dir.prefix # 0 THEN dir.prefix
  ELSE IF dir.witness # 0 \/ dir.legacy # 0 THEN OldPrefix ELSE 0
NeedsSeed == SeedPrefix # 0 /\ SeedTo > jmark

Seed ==
  /\ pc = "seed"
  /\ IF ~NeedsSeed THEN pc' = "lift" /\ UNCHANGED <<journal, jmark>>
     ELSE IF Throws(SeedTo) THEN pc' = "full" /\ UNCHANGED <<journal, jmark>>
     ELSE pc' = "lift" /\ Append(SeedPrefix, SeedTo)
  /\ UNCHANGED <<dir, lost, source, ghost>>

(* The anchor is brought up to the journal and told that there is one.     *)
NeedsLift == jmark # 0 /\ (dir.mark < jmark \/ ~dir.flag)
Lift ==
  /\ pc = "lift"
  /\ IF NeedsLift
     THEN Publish([dir EXCEPT !.prefix = journal.prefix, !.mark = jmark, !.flag = TRUE])
     ELSE UNCHANGED <<dir, lost>>
  /\ pc' = "retire"
  /\ UNCHANGED <<journal, jmark, source, ghost>>

Retirable(m) == m # 0 /\ jmark >= m
RetireWitness ==
  /\ pc = "retire" /\ Retirable(dir.witness)
  /\ Publish([dir EXCEPT !.witness = 0])
  /\ UNCHANGED <<journal, pc, jmark, source, ghost>>

RetireLegacy ==
  /\ pc = "retire" /\ ~Retirable(dir.witness) /\ Retirable(dir.legacy)
  /\ Publish([dir EXCEPT !.legacy = 0])
  /\ UNCHANGED <<journal, pc, jmark, source, ghost>>

-----------------------------------------------------------------------------
(* createSendNonceSource.                                                  *)

(* Resume at the durable mark; a fresh prefix only when there is no send   *)
(* state.                                                                  *)
ResumeBelow ==    \* mutant: the last counter the mark covers, whether or not there is a mark
  /\ pc = "retire" /\ ids < MaxIds
  /\ counter' = dir.mark - 1 /\ reserved' = counter' /\ pc' = "claim"
  /\ prefix' = ids /\ ids' = ids + 1
  /\ refill' = "idle" /\ target' = 0 /\ poisoned' = FALSE
  /\ UNCHANGED <<disk, jmark, used, excused, rewound>>
Resume ==
  /\ pc = "retire" /\ ~Retirable(dir.witness) /\ ~Retirable(dir.legacy)
  /\ counter' = Larger(dir.mark, 1)
  /\ IF dir.prefix # 0 THEN prefix' = dir.prefix /\ ids' = ids
     ELSE ids < MaxIds /\ prefix' = ids /\ ids' = ids + 1
  /\ reserved' = counter'
  /\ pc' = "claim"
  /\ refill' = "idle" /\ target' = 0 /\ poisoned' = FALSE
  /\ UNCHANGED <<disk, jmark, used, excused, rewound>>

(* claimSend: the append, then the anchor.                                 *)
ClaimAppend ==
  /\ pc = "claim"
  /\ IF Throws(counter + Block)
     THEN pc' = "full" /\ UNCHANGED <<journal, jmark>>
     ELSE pc' = "claimed" /\ Append(prefix, counter + Block)
  /\ UNCHANGED <<dir, lost, source, ghost>>

ClaimAnchor ==
  /\ pc = "claimed"
  /\ IF counter + Block <= dir.mark
     THEN pc' = "refused" /\ UNCHANGED <<dir, lost, reserved>>
     ELSE /\ pc' = "running"
          /\ reserved' = counter + Block
          /\ Publish([dir EXCEPT !.prefix = prefix, !.mark = counter + Block,
                                 !.flag = TRUE])
  /\ UNCHANGED <<journal, jmark, prefix, counter, refill, target, poisoned, ghost>>

(* next(): hands out one nonce, and starts a refill when the block runs    *)
(* low.                                                                    *)
Emit ==
  /\ pc = "running" /\ ~poisoned /\ counter < reserved
  /\ used' = used \cup {<<prefix, counter>>}
  /\ counter' = counter + 1
  /\ IF reserved - counter' <= Threshold /\ refill = "idle"
     THEN refill' = "append" /\ target' = counter' + Block
     ELSE UNCHANGED <<refill, target>>
  /\ UNCHANGED <<disk, pc, jmark, prefix, reserved, poisoned, ids, excused, rewound>>

(* next() past the reservation throws, and asks for a refill all the same. *)
EmitRefused ==
  /\ pc = "running" /\ ~poisoned /\ counter >= reserved /\ refill = "idle"
  /\ refill' = "append" /\ target' = counter + Block
  /\ UNCHANGED <<disk, pc, jmark, prefix, counter, reserved, poisoned, ghost>>

(* raiseSend: the append, then the anchor, then the reservation.  Only a   *)
(* refusal poisons the source.                                             *)
RefillAppend ==
  /\ refill = "append"
  /\ IF Throws(target)
     THEN refill' = "idle" /\ poisoned' = TRUE /\ UNCHANGED <<journal, jmark>>
     ELSE refill' = "anchor" /\ Append(prefix, target) /\ UNCHANGED poisoned
  /\ UNCHANGED <<dir, lost, pc, prefix, counter, reserved, target, ghost>>

RefillAnchor ==
  /\ refill = "anchor"
  /\ refill' = "idle"
  /\ IF target < dir.mark
     THEN poisoned' = TRUE /\ UNCHANGED <<dir, lost, reserved>>
     ELSE /\ Publish([dir EXCEPT !.mark = target])
          /\ reserved' = Larger(reserved, target)
          /\ UNCHANGED poisoned
  /\ UNCHANGED <<journal, pc, jmark, prefix, counter, target, ghost>>

(* An I/O error: nothing the bridge knows of moves, whatever reached the   *)
(* disk.                                                                   *)
RefillFailsRaised ==    \* mutant: reserve() raises before its write is known to have landed
  /\ refill # "idle"
  /\ refill' = "idle" /\ reserved' = Larger(reserved, target)
  /\ UNCHANGED <<disk, pc, jmark, prefix, counter, target, poisoned, ghost>>
RefillFails ==
  /\ refill # "idle"
  /\ refill' = "idle"
  /\ \/ refill = "append" /\ journal' \in Interrupted(prefix, target)
        /\ UNCHANGED <<dir, lost>>
     \/ refill = "anchor" /\ target >= dir.mark
        /\ Publish([dir EXCEPT !.mark = target]) /\ UNCHANGED journal
     \/ refill = "anchor" /\ UNCHANGED disk
  /\ UNCHANGED <<pc, jmark, prefix, counter, reserved, target, poisoned, ghost>>

(* close() refuses new nonces and waits for the refill.  Its own flush     *)
(* would raise the anchor to `reserved`, where it already is               *)
(* (LicenceIsDurable).                                                     *)
Close ==
  /\ pc = "running"
  /\ pc' = "closing"
  /\ UNCHANGED <<disk, jmark, source, ghost>>

Closed ==
  /\ pc = "closing" /\ refill = "idle"
  /\ Forget
  /\ UNCHANGED <<disk, ghost>>

-----------------------------------------------------------------------------
(* Crashes.                                                                *)

(* What the journal may be when everything stops now.                      *)
StoppedJournals ==
  IF pc = "seed" /\ NeedsSeed THEN Interrupted(SeedPrefix, SeedTo)
  ELSE IF pc = "claim" THEN Interrupted(prefix, counter + Block)
  ELSE IF refill = "append" THEN Interrupted(prefix, target)
  ELSE {journal}

(* The process dies, or a start that failed is unwound: the system keeps   *)
(* what was written.                                                       *)
Crash ==
  /\ pc # "down"
  /\ journal' \in StoppedJournals
  /\ Forget
  /\ UNCHANGED <<dir, lost, ghost>>

(* A hard reset takes a suffix of the directory operations, in order, and  *)
(* may take the unforced entry of the journal on its own.                  *)
Reverted ==
  LET kept == lost \cup {dir}
  IN  kept \cup IF \E d \in lost : ~d.entry
                THEN {[d EXCEPT !.entry = FALSE] : d \in kept} ELSE {}

(* What is left of a start that migrated a mark: the entry is gone, and so *)
(* is the anchor that says there is a journal, but the mark is there.      *)
Rewinds(d) == dir.entry /\ ~d.entry /\ ~d.flag /\ Sources(d) # 0

HardReset ==
  /\ \E d \in Reverted :
       /\ dir' = d
       /\ IF d.entry THEN journal' \in StoppedJournals ELSE journal' = EmptyJournal
       /\ excused' = (excused \/ d.gen # dir.gen \/ d.entry # dir.entry)
       /\ rewound' = (rewound \/ Rewinds(d))
  /\ lost' = {}
  /\ Forget
  /\ UNCHANGED <<ids, used>>

(* The directory operations reach the disk by themselves.                  *)
FlushLog ==
  /\ lost # {} /\ lost' = {}
  /\ UNCHANGED <<dir, journal, pc, jmark, source, ghost>>

(* The last record, fsynced as it was, no longer reads back.               *)
Damage ==
  /\ pc = "down" /\ journal.mark # 0 /\ ~journal.torn
  /\ journal' = Torn(journal.before)
  /\ excused' = TRUE
  /\ UNCHANGED <<dir, lost, pc, jmark, source, ids, used, rewound>>

(* The documented recovery: the whole directory is deleted.                *)
Wipe ==
  /\ pc \in {"down", "refused", "full"}
  /\ Forget
  /\ dir' = EmptyDir /\ lost' = {} /\ journal' = EmptyJournal
  /\ excused' = FALSE /\ rewound' = FALSE
  /\ UNCHANGED <<ids, used>>

Process ==
  \/ Mount \/ Replay \/ Seed \/ Lift \/ RetireWitness \/ RetireLegacy \/ Resume
  \/ ClaimAppend \/ ClaimAnchor \/ Emit \/ EmitRefused
  \/ RefillAppend \/ RefillAnchor \/ RefillFails \/ Close \/ Closed
Next == Process \/ Crash \/ HardReset \/ FlushLog \/ Damage \/ Wipe

Spec == Init /\ [][Next]_vars

-----------------------------------------------------------------------------
TypeOK ==
  /\ dir \in Dirs /\ lost \subseteq Dirs /\ journal \in Journals
  /\ pc \in Steps /\ jmark \in Nat
  /\ prefix \in Nat /\ counter \in Nat /\ reserved \in Nat
  /\ refill \in {"idle", "append", "anchor"} /\ target \in Nat /\ poisoned \in BOOLEAN
  /\ ids \in Nat /\ used \subseteq Nat \X Nat /\ excused \in BOOLEAN /\ rewound \in BOOLEAN

(* The nonce the bridge would hand out next was never handed out before.   *)
NextIsFresh ==
  (pc = "running" /\ ~poisoned /\ counter < reserved) => <<prefix, counter>> \notin used

(* No nonce repeats, by this process or by any before it, whatever         *)
(* crashes, lost renames, torn appends and damaged last records lie        *)
(* between them (keys.ts:202-211, "a crash must never let a counter        *)
(* repeat"), unless a reset undid, of a start that migrated a mark, both   *)
(* the creation of the journal and the anchor's note of it; a wipe ends    *)
(* that exception.                                                         *)
NextNonceUnused == rewound \/ NextIsFresh

(* No reset makes a nonce repeat: losing the journal's creation "is        *)
(* bounded and SAFE", it costs a refused start, "never a reused nonce"     *)
(* (keys.ts:651-655, openSendJournal).                                     *)
LostEntryIsSafe == NextIsFresh

(* What the process may hand out is licensed on disk: by the journal,      *)
(* whose record is fsynced before, and by the anchor, so that close() has  *)
(* nothing left to flush (keys.ts:2386, 2406, 2479).                       *)
LicenceIsDurable ==
  pc \in {"running", "closing"} =>
    reserved <= jmark /\ jmark <= journal.mark /\ reserved <= dir.mark

(* The anchor never leads the journal while a bridge is up: "it can never  *)
(* legitimately trail it" (keys.ts:1132-1140).  The lift relies on it.     *)
FloorNeverLeads ==
  pc \in {"seed", "lift", "retire", "claim", "claimed", "running", "closing"} =>
    dir.mark <= journal.mark \/ (journal.mark = 0 /\ ~dir.flag)

(* A start refuses only after a record was damaged or a reset took the     *)
(* generation or the journal's entry (keys.ts:651-655), or over marks      *)
(* carried under two prefixes (keys.ts:1108-1120): a crash, a torn append, *)
(* a failed write or a lost raise of the anchor never stops the next       *)
(* start.                                                                  *)
NoSpuriousRefusal == pc = "refused" => excused

(* No step of the bridge lowers the anchor's floor, nor a mark whose       *)
(* append was acknowledged (keys.ts:26-28, "no write can ever lower the    *)
(* mark"): a retry overwrites at most the record of the append that failed *)
(* before it.                                                              *)
MarkNeverLowered ==
  [][Process => /\ dir'.mark >= dir.mark
                /\ journal'.mark >= journal.mark \/ journal'.mark >= jmark]_vars
=============================================================================
