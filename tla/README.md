# Formal models of the terminal subsystem

This directory holds TLA+ models of the part of the repository that keeps a user's
terminals alive and in view: the **pty-daemon** (`packages/pty-daemon`) that owns the
processes, the **host service** (`packages/host-service`) that decides when a terminal is
created, adopted, killed or reaped, and the **output path** from there to the panes that
show it. One more model, of the **send-nonce counter** of the companion bridge, covers the
one place where a crash at the wrong moment could repeat a nonce. Small instances are
model-checked with TLC; what matters most about the daemon, the lifecycle, the output path
and the counter is proved with TLAPS for every size.

Everything is translated from the source. `PROJECT.json` maps each definition to the
lines it stands for, and lists the runs, the theorems and the hazards behind them.

## The system

    desktop / web / phone ──ws, http──▶ host service ──unix socket──▶ pty-daemon ──▶ shells
                                         │  sessions, SQLite rows,      │  sessions, PTYs,
                                         │  creates, disposes, reaper   │  subscriptions, pauses
                                         └ DaemonSupervisor: spawns, adopts, upgrades it

| component | state it keeps | operations | what is hard |
| --- | --- | --- | --- |
| pty-daemon server (`Server.ts`, `handlers.ts`, `SessionStore.ts`) | session per id, subscribers, pause marks and timers, socket buffers | open, close, list, subscribe, unsubscribe, output, exit, drain, timeout, shutdown | ids recycled while old processes still die; a slow client freezing others; sockets destroyed in mid-delivery |
| terminal lifecycle (`terminal.ts`, `lifecycle.ts`) | `sessions`, `attachResolutions`, `disposeResolutions`, create fence, `terminal_sessions` rows | create, attach, adopt, dispose, exit, daemon disconnect | every operation awaits the daemon several times, on two connections; a kill must survive crashes; a create must survive an old kill |
| reaper (`reaper.ts`) | two-pass memories | list, kill orphans, correct stale rows | acts on rows read before it awaited |
| `DaemonClient.ts` | pending requests, callbacks | request/reply, subscribe, disconnect | replies matched by id and type only; timeouts with late replies |
| upgrade handoff, `DaemonSupervisor` | snapshot, inherited descriptors, manifests, crash circuit | prepare, adopt, ack, roll back, respawn | two daemons share the PTYs for a while |
| terminal output path (`terminal.ts`, `terminal-ws-transport.ts`, the phone's page) | byte offsets, bounded ring, last resize, sockets with their size and visibility, repaint nudge; each pane's position and buffer | attach, broadcast, resize, hide, show, nudge, detach; dial, read, park, rebuild | a pane resumes from a position it counted itself, while the ring evicts, sizes change under it and its old socket lingers |
| companion send counter (`companion/keys.ts`, `crypto.ts`) | journal of marks, anchor, files of earlier builds, nonces in hand | mount, replay, seed, lift, claim, refill, close | renames a reset may undo, records a crash may tear, nonces handed out while their licence is written |
| workspace launch fence | epochs | retire, launch | a launch straddling a retirement |
| chat runtime, terminal agents, the rest of companion, accounts, worker pool, relay and tunnel, watchers | journals, bindings, leases, locks, queues | see `PROJECT.json` | their own races; candidates for later modules |
| routers, databases, applications, CLI, SDK, UI kits | SQL, views | | request handlers and user interface; not modelled |

What makes each correct:

- **pty-daemon**: an id names at most one session and a live one keeps it; a descriptor
  that is open can be reached through its id; a PTY is paused only for a connected client,
  and not for ever; a timer runs exactly for the clients that hold one paused.
- **terminal lifecycle and reaper**: the session in memory belongs to an active row; a kill
  is not undone by work begun before it; a row says "disposed" only of a PTY that is dead or
  whose kill is on its way; what no row claims is killed; a row whose kill is unconfirmed
  does not stay so.
- **DaemonClient**: a request is settled by its own answer (it is not, see below).
- **handoff**: one reader per PTY, and every session survives in exactly one daemon.
- **output path**: a reconnecting client misses no byte and sees none twice, or is told,
  and then has its program redraw; the PTY has the smallest size on screen.
- **send counter**: a nonce is handed out once, whatever the disk forgets; a start refuses
  only what it cannot explain.

## Modules

| module | models |
| --- | --- |
| `PtyDaemon` | the daemon: one action per event handler |
| `SessionRegistry` | the abstract specification: ids, owners, ended sessions; `PtyDaemon` implements it |
| `PtyDaemonProofs` | the theorems about `PtyDaemon` |
| `MCPtyDaemon` | its instances (symmetry) and three configurations |
| `TerminalLifecycle` | one terminal id in the host service, with the wire and the daemon as that id sees them, the reaper, and failures |
| `TerminalLifecycleProofs` | the theorems about `TerminalLifecycle` |
| `TerminalConfirmProofs` | the theorem about what a confirmed dispose leaves behind |
| `MCTerminalLifecycle` | its instances and five configurations |
| `TerminalOutput` | one terminal's output path: the host's session and sockets, and the panes at the other end |
| `OutputStream` | the abstract specification: what a screen may show of a stream; `TerminalOutput` implements it |
| `TerminalOutputProofs` | the theorems about `TerminalOutput` |
| `OutputStreamProofs` | that it implements `OutputStream` |
| `MCTerminalOutput` | its instance: a desktop pane, a phone and a set of budgets; two configurations |
| `SendNonce` | the send-nonce counter: its files, its start, its refills, and the faults of a disk |
| `SendNonceProofs` | the theorems about `SendNonce`: its marks and nonces |
| `SendNonceStartProofs` | the theorem about what a start refuses |
| `MCSendNonce` | its instance and two configurations |

Composition: `TerminalLifecycle` contains the daemon as one id sees it, and takes attaches
as requests; `TerminalOutput` starts where such an attach has succeeded and takes the
session's beginning and end (`Adopt`, `DaemonDisconnect`) as events.

### PtyDaemon

Node runs one handler at a time, so an action is one handler run to completion. A session
and its PTY live and die together, so both are named by the PTY; `store` maps an id to it,
and `home` remembers the id a PTY was opened under. Clients name sessions by id only
(`subscriptions`, `pausedSessions`), and that mismatch is the subject. `Deliver` writes one
or two frames to every subscriber, marks the congested and pauses the PTY; crossing the cap
destroys the socket in the middle of it. `ExitReported` is the exit callback, with its
"is this still the session the id names" return. `CloseSession` leaves marks and
subscribers behind, as the code does. A PTY already disposed may still emit
(`TrailingOutput`), as ConPTY does. Frames from a socket the server destroyed are still
served until its `close` event, since the dispatch loop does not stop.

Left out: input, resize and colour replies (no state modelled here), what the replay
buffer contains (a replay is zero or one frame), and the upgrade handoff.

### TerminalLifecycle

Every map in the code is keyed by terminal id and no operation relates two ids, so one id
is modelled; `OthersAlive` says whether the daemon also lists others, which the reaper
does look at. An action is the code between two awaits: a create is `BeginOpen` (or
`BeginAttach`, `BeginAdopt`), `StartCreate` at the head of the id's queue, `AskDaemon` after
the environment is resolved, then its continuation after each reply, up to `Commit`
(row upsert, `sessions.set` and subscribe in one turn). `Settled` is the microtask rule:
a continuation whose promise is resolved runs before the next socket or timer event.

- The fence is `lifecycleSeq`, `createsInFlight` and `lastDisposeSeq`, as in the code; an
  attach holds two units of create work, its own and its create's.
- The stamp (`disposeRequestedAt`) is a boolean: disposes of an id are coalesced, so the
  value a dispose read can only have been cleared, not replaced, while it runs.
- Requests and replies on the shared `DaemonClient` travel in order and are matched by kind
  only, as `requestSession` does. `closeDaemonSessionById` uses another connection, so
  `CloseById` happens at any time after it was sent, and its answer (`byIdClosed`,
  `byIdFailed`) reaches the host at any time after that.
- One chunk may carry several frames. `DaemonClient` hands out all of them before any
  continuation runs, so `Receive` does not wait for `Settled`: a frame may find no waiter, or
  a later one.
- The daemon here is the store entry of this id; `PtyDaemon` has the whole of it.
- Failures spend `faults`: a timeout, a kill or insert that fails, a close that does not
  reach the daemon, a lost connection, a daemon crash, a host restart.
- `wish` and `dispose.target` are history: the last instruction of the user, and the PTY
  alive when a close was asked for. A `Kill` (`killSession`) writes a stamped, disposed row
  when the terminal has none, so it has a row even when it meets the terminal's first create
  in flight; a `Dispose` stands for the entry points that start from a session or a row (the
  DELETE route, which answers 404 without a session, a websocket's message, teardowns).
  `wish` becomes "killed" for a kill that owns its dispose and has a row: one that joins a
  dispose in flight, or that the host forgets in a restart before it stamped the row, is not
  claimed (both are listed under hazards).

Left out: the workspace launch fence, agent bindings, broadcasts, rows without a workspace,
port scanning, the rollback when subscribing throws, disposes by callers that read a list
of rows before an await, and websocket clients, who appear as requests. The age floor and
the cap of the stale-row correction are nondeterministic (`KeepRow`, `NoteAbsent`).

### TerminalOutput

Host and panes share nothing but messages, so an action is one event: an output chunk, a
message, a timer, a socket's close, or a pane's own step. `inbox` and `outbox` are the two
directions of a websocket. A pane dials into one of two slots, because the host may still
hold the socket of the dial before; what it sends there reaches nobody (`Sent`).

- `Output` is `deliverOutput`: retain and evict, then the broadcast loop, in which a socket
  that closed or does not drain is detached, which may resize the PTY in mid-loop and leave
  hidden clients behind, before or after their turn (`late`).
- `Apply` is `applyEffectiveDims`, `Detach` is `detachSocket` for a set of sockets, `Answer`
  is `sendSeqAttach`: exact, tail or reanchor.
- `nudge` is the armed `pendingRepaintNudge`, `restoring` the restore timer of
  `nudgeRepaint` while no resize has voided it, `kernel` the size the PTY has meanwhile.
- A desktop pane counts a chunk when it arrives, the phone when it has parsed it (`Paint`).
  `Park`, `Unpark` and `Reload` are the desktop's persisted buffer with its position. A pane
  parked after output but no position ever came keeps its socket (`Unplaced`).
- `painted`, `kept`, `layout`, `owed`, `missed` and `muddled` are history.

`OutputStream` says what this is for: a screen shows a run of one stream without gap or
repeat, and may jump to another position only if it does not know its own, shows another
session, or what it missed is gone or was laid out for another size.

Two things the code does are kept apart by history variables, so that what holds otherwise
can be stated and proved without assuming them away:

- *A phone takes a position early* (`muddled`). The page dials, and obeys `synced`, at once,
  whatever chunks it has yet to parse, and counts these on top when they are parsed. From
  then on its position may be off the end of its buffer, by which the next exact catch-ups
  repeat or skip. `CountersAgree`, `NobodyFallsBehind` and the refinement are about every
  desktop pane and every phone this has not happened to; `SeqDescribesBuffer`, the page's own
  claim, is refuted by the run `output_phone`. The parser must lag behind a whole reconnect
  for it (heavy output, or a page throttled in the background).
- *A resize hits the nudged size* (`missed`). A nudge takes a row, a client resizes to
  exactly that size, the kernel sees no change, sends no SIGWINCH, and the restore is void,
  although "changed dims deliver the repaint SIGWINCH naturally" (`terminal.ts:5396`). Sizes
  are one row apart in the run, so this happens there: the clients that still wait are
  `missed`, and `RepaintIsComing` says that nobody else is left without. As soon as the
  program redraws for any reason they are redrawn too.

Left out: clients that dial without a position, exited sessions, sockets that move to a
replaced session object (their box stays with the old one, terminal.ts:5249), the phone's
own snapshots, focus, colours, titles and input.

### SendNonce

`dir` is what the directory names, `lost` the earlier contents a hard reset may bring back
(on Windows `syncDirectory` does nothing), `journal` the file as `replaySendJournal` reads
it. A start goes through `Mount`, `Replay`, `Seed`, `Lift`, `RetireWitness`,
`RetireLegacy`, `Resume`, `ClaimAppend`, `ClaimAnchor`, each one durable step; then `Emit`
hands out nonces while `RefillAppend` and `RefillAnchor` license the next block. `Crash` may
come between any two, and may tear the append under way; `HardReset` also undoes renames.
`Damage` spoils the last record; `Wipe` is the recovery the refusal asks the user for.

Left out: two processes over one directory (the bridge reserves its port before it opens
the anchor, `companion/index.ts:498`; `raiseSend` writes its mark before it checks the
owner), the epoch and the device index.

An install may begin with an anchor, a pre-anchor file, a witness, or any mix of them, with
marks in any order (`OldDirs`), even under two prefixes (`foreign`), which every start
refuses. `rewound` records that a reset took, of a start that migrated a mark, both the
creation of the journal and the anchor's note of it, while the mark survived: what is left
looks like an install that never had a journal, and the next start resumes at the old mark
under the old prefix. `NextNonceUnused` excepts that case, and the run `send_nonce_reset`
shows it against `keys.ts:651`, which says the loss of the entry means "never a reused
nonce".

## Runs

| run | instance | shows |
| --- | --- | --- |
| `daemon` | 2 clients, 2 ids, 2 PTYs, pause above 1 frame, cap 2, bursts of 2 | types, `NoStrandedPty`, `NoOrphanPause`, `PauseHasDeadline`, `NoStaleDeadline`, `LiveSessionStays`, `ImplementsRegistry` |
| `daemon_live` | 2 clients, 1 id, 2 PTYs, fair; no output after a PTY is disposed | `PauseEnds`, `ClosedSessionLeaves` |
| `daemon_timeout` | as `daemon`, 1 id | violates `OnlyBlockersTimeOut` |
| `terminal` | 1 opener, attach, adopt; 2 PTYs; 2 sequence numbers; 1 fault | types, `SessionOwnsRow`, `KilledStaysDead`, `ConfirmedIsDoomed` |
| `terminal_live` | 1 opener; 1 PTY; 2 sequence numbers; 1 fault; fair | `LeftoversGo` |
| `terminal_confirm` | 2 openers; 3 PTYs; 3 sequence numbers; 1 fault | violates `ConfirmedIsDead` |
| `terminal_reap` | as `terminal`, 3 sequence numbers, no fault | violates `ReaperSparesLive` |
| `terminal_limbo` | fair, no other terminal alive | violates `LimboEnds` |
| `terminal_output` | a desktop pane and a phone; ring of 1; sizes 2 and 3; eight budgets | types, `CountersAgree`, `NobodyFallsBehind`, `ExactFits`, `SmallestVisible`, `RepaintIsComing`, `NudgeIsUndone`, `ImplementsStream` |
| `output_phone` | as `terminal_output` | violates `SeqDescribesBuffer` |
| `send_nonce` | blocks of 2, refill below 1, ceiling 7, old marks 2 and 4, 2 fresh names, renames may be lost | types, `NextNonceUnused`, `LicenceIsDurable`, `FloorNeverLeads`, `NoSpuriousRefusal`, `MarkNeverLowered` |
| `send_nonce_reset` | as `send_nonce` | violates `LostEntryIsSafe` |

**Bounds.** Two PTYs on one id are a session and the one that recycles it, which is what
every stale exit, mark or close needs; two clients are one that holds a pause and one that
must not lose it; a pause above 1 and a cap of 2 let one burst congest, overflow, or do
both to different clients. `daemon_live` tightens them to 0 and 1, so that every delivery
congests, and sets `TrailingOutput = FALSE`: it asks what becomes of a pause or a closed
session, not what a disposed PTY may still emit, which `daemon` does. Two sequence numbers
are a create and a dispose or an attach that overlaps it, and more of each after a host
restart, which starts the count again; one fault at a time is what the code claims to
survive. `terminal_reap` has three numbers (a create, an attach, a dispose) and no fault,
`terminal_limbo` one and one; `ConfirmedIsDead` takes two openers, three PTYs and a fault,
because the answers must first run ahead of the requests. Within the bounds of `terminal`
nothing shows it, which is one reason why what replaced it, `ConfirmedIsDoomed`, is proved.

`terminal_output` starts from one of eight budgets, so that each corner is searched to its
end without their product: a desktop pane that moves twice (park, rebuild, refit) between
two dials; a phone between two dials that moves once, or is written two bytes (both at once,
539 thousand states, were run to the end by hand); both together with the phone hiding and
coming back, once as the smaller and once as the larger, since only the first resizes and
only the second is nudged; two bytes against a ring of one; a daemon lost and adopted
again; three dials over two sessions. Two bytes are one retained and one evicted; two dials
per pane are a socket and its successor. Sizes 2 and 3 are one row apart, which is what it
takes for a resize to hit the size a nudge has given the PTY.

In `send_nonce`, blocks of two with a ceiling of seven give three blocks and the refusal at
the ceiling. Two fresh names are a generation and a prefix: one install that starts from
nothing, or one that has both, is wiped and starts over once. What comes after a second wipe
is covered by the theorems only.

**Fairness.** In the daemon: a destroyed socket's `close` event comes and an armed timer
fires (Node), a signalled process dies (`TreeKiller` escalates to SIGKILL) and its exit is
reported. Nothing is assumed of clients, who may stop reading for ever. In the host:
continuations run, the connection carries frames, the interval starts reap passes, the
supervisor respawns the daemon (its circuit opens only after more crashes than the budget
of faults), and a pass that may correct a row in the end does: rows grow older than the
floor, and the cap takes the oldest first. This last one is strong fairness, since each
pass enables it anew; the rest is weak and shared, one condition for the event loop's
continuations, one for the connection and the supervisor, one for the reaper. Nothing is
assumed of users, nor that a shell ends.

Nothing in `TerminalOutput` and `SendNonce` is fair: what they promise is safety.

**Deadlock** is checked by every run of the daemon and the lifecycle that expects to pass;
the output path and the counter stop when their budgets are spent. A daemon whose sockets
are gone after a shutdown may stop (`Stopped`).

**Mutants.** Each property of a passing run has one: an operator such as
`DisposedAfterUnfenced` beside `DisposedAfter`, marked "mutant", which put in its place
breaks the property. They are never used by a specification.

## What the violated runs say

- `daemon_timeout`: a client whose only paused terminal was closed is still disconnected by
  the pause timer, though a comment says it is left alone: the mark goes with the session's
  own exit, or never when the id is recycled first.
- `terminal_reap`: the reaper's forward walk uses rows read before it awaited earlier
  orphans, so it can kill a terminal re-created meanwhile. The reverse walk is fenced.
- `terminal_confirm`: a create that timed out leaves an answer behind, which settles the
  next create of the id; from there on each answer settles one request too early. An
  "unknown session" meant for a subscribe or an earlier close then confirms a dispose whose
  close the daemon has not read, and the row is marked disposed, with what that licenses,
  while its PTY is alive. The close is still under way and kills it.
- `terminal_limbo`: on a host with no other terminal, passes return on the empty list, so a
  kill left unconfirmed over a dead PTY is not settled.
- `send_nonce_reset`: an install of an earlier build is mounted, its journal created and
  seeded, the anchor lifted, a block claimed, a nonce handed out. A hard reset where
  `syncDirectory` is a no-op takes the journal's entry and the anchor's renames together. The
  next start sees the earlier install again and repeats the nonce.
- `output_phone`: a phone receives a byte, loses its socket, and dials again before the byte
  is parsed, with a position that does not know it. The byte is painted, `synced` then sets
  the position back below what the buffer holds, and the catch-up repeats it.

Three more things the models showed contradict no line, or have no run of their own: a
close by id that was delayed past a new create of the id kills the new PTY, whose row its
exit marks as ended (hazard at `terminal.ts:3517`); an error frame for an earlier request
may settle a create's open, so that the create fails and the daemon then opens the PTY,
which the reaper kills two passes later (`DaemonClient.ts:523`); and a resize to the nudged
size leaves a client without its repaint (`missed`, above, `terminal.ts:5396`).

## Proofs

### The daemon

`PtyDaemonProofs` proves, for any sets of clients, ids and PTYs and any thresholds within
`NoneAssumption` and `FlowAssumption`:

- `InvariantsHold`: the inductive invariant `IInv`;
- `TypeCorrect`, `NoPtyIsStranded`, `NoPauseIsOrphaned`, `PausesHaveDeadlines`,
  `DeadlinesHavePauses`: the invariants of the run `daemon`, from it;
- `LiveSessionsStay`: the action property `LiveSessionStays`;
- `DaemonImplementsRegistry`: `Spec => Registry!Spec`, step by step.

None of these invariants is inductive by itself. `IInv` adds `FlagsAgree` (what a PTY's
process state says about its exited and disposed flags), `StoreAgrees` (a stored PTY was
opened under that id, so no two ids share one) and `LinksAgree` (connections, sockets and
marks: a client outside `conns` holds nothing that counts). With them, each action is one
lemma; the ones that move marks (`Deliver`, `Drain`, `DropConn`, exits) carry the argument:
a PTY is resumed for a client only when no *other* connected client holds a mark on its id,
and a stored PTY's id identifies it.

### The terminal lifecycle

`TerminalLifecycleProofs` proves, for any openers, PTYs, sequence numbers and number of
failures (`NamesAssumption`, `BoundsAssumption`, `RowAssumption`: names are distinct, bounds
are numbers, no row is `None`):

- `Invariance`: the inductive invariant `IInv`;
- `TypeCorrect`: the type invariant, in which `createsInFlight \in Nat` is the part with
  content: no return of a create ends more work than was begun;
- `KilledIsFinal` and `LiveOwnsRow`: `KilledStaysDead` and `SessionOwnsRow`. The first covers
  the kill of a first create in flight, whose row is the tombstone of the kill.

A kill is final because of two mechanisms, and the invariant has a part for each. The fence:
a dispose sets `lastDisposeSeq` above the numbers of all creates in flight, and the mark is
forgotten only when the last of them has ended. That needs `Queueing`: the queue holds
exactly the creates that are in flight, each once, its head alone has been started, and
`createsInFlight` is their number, with one more for the attach that keeps a unit of its own
across its respawn. The stamp: an adopt may begin *after* the kill and is behind no fence,
but it can only come to `listed`, where it re-reads the row (`Holding`). `KillInv` says the
rest: after a kill the session is out and the row disposed, or the dispose still waits for
an attach, in which case an adopt may commit and the dispose takes its session out when it
resumes. `SessionOwnsRow` is inductive relative to this: each of the writes to a row that is
not a create's own re-reads what makes it harmless to a live session.

`TerminalConfirmProofs` proves, from `IInv` and under the same assumptions,

- `ConfirmedKillLands`: the action property `ConfirmedIsDoomed`.

It is what is left of `ConfirmedIsDead`. An invariant for that one must say that no spare
error frame is under way when a close is sent, and it is not preserved: a create that timed
out leaves a frame too many, which is the trace of `terminal_confirm`. So the proof says
nothing of the answers at all and follows the requests. `CloseOwed`: while a dispose waits
for its close, or has just been told of it, and the PTY it names lives, a close is among the
requests. Requests are only appended to and taken from the front, and taking a close kills
what the id names; no step makes a dead PTY the target again, because a spawn is always a
new one (`Named`); and a connection that is lost with its requests fails the dispose in the
same step. A dispose by id has no request on this connection; its own answer comes after the
kill (`ByIdDone`), or no daemon was up, in which case nothing is alive (`Down`).

### The output path

`TerminalOutputProofs` and `OutputStreamProofs` prove, for any panes and phones, any sizes
above one with a largest, any ring and any budgets (`OutputAssumption`):

- `Invariance`: the inductive invariant `IInv`;
- `TypeCorrect`, `PositionsMatchScreens`, `NobodyIsLeftShort`, `CatchUpFits`,
  `SizeIsSmallest`, `NudgeComesBack`, `RepaintComes`: the invariants of the run
  `terminal_output`;
- `OutputImplementsStream`: `Spec => Stream!Spec`.

None of them assumes anything of the phone's parser or of the sizes: the properties
themselves leave out the `muddled` phones, and `RepaintIsComing` the `missed` clients. The
clauses about a pane in the invariant are about panes that are not muddled, and a pane whose
queue is empty when it dials or is told its position does not become so.

The properties compare a screen with the host's stream, and between the two are messages,
so the invariant follows a byte the whole way. `Screen` and `Queue` say that what the
phone's page has yet to parse continues what its screen shows. `Orderly` says the same of
the messages under way: each run of bytes begins where the message before it ended
(`Follow`), an exact answer names the pane's own position (`Resume`), and a re-anchor finds
a pane that knows no position or one that is `Gone` (`Moved`): another session's, evicted,
or before the last resize. Nothing the host does takes `Gone` back while the re-anchor
travels, which is why the abstract `Jump` is justified when the pane reads it and not only
when the host sent it. `InStep` says that the end of all this is where the host believes
the socket to be: at the stream's end, or, for a hidden client left behind, not past the
last resize, so that the re-anchor it gets when it comes back is justified too. `HostInv`
ties sockets, sizes and nudges together; its clause about `layout` is `ExactFits` in
inductive form.

Then each action is one lemma. The hardest is `Output`: its detaches may resize in the
middle of the broadcast, and whoever does not get the byte must be detached, or left behind
by that resize. `RepaintComes` needs one fact more (`Coming`): a nudge under way has the
kernel at another size than the session believes, so that its end, or a resize that voids
it, does send a SIGWINCH, unless the resize is to the nudged size, in which case whoever is
owed a redraw is `missed`. In the refinement, an exact `ReadSynced` is a stutter, any other
a `Jump`, and one that muddles a phone gives the phone up (`lost`); resizes and output are
`Produce`, `ReadBytes` (`Paint` on the phone) is `Show`, `Park` and `Reload` are `Keep` and
`Restore`.

### The send counter

`SendNonceProofs` proves, for any block, threshold, ceiling and marks of earlier installs
within `CounterAssumption`, and any number of crashes, resets and wipes:

- `TypeCorrect`: the type invariant;
- `NonceNeverRepeats`, `LicencePrecedesUse`, `FloorTrails`, `MarksOnlyRise`: the other
  properties of the run but one. `MarkNeverLowered` is about the steps of the bridge; resets,
  damaged records and wipes lower marks, and the other properties say what that may cost;
- `RefusalsAreJustified` (in `SendNonceStartProofs`): the last one, `NoSpuriousRefusal`;
- `ForcedNonceNeverRepeats`: under the hypothesis `~LosesRenames`, i.e. where `syncDirectory`
  is real, `LostEntryIsSafe`, so that no nonce ever repeats.

`NextNonceUnused` speaks of the running bridge only; what makes it inductive is what the
disk must say while no bridge runs. `Covers` says that a mark lies above every nonce handed
out under a prefix, `Sound(journal)` that the journal, if it has a valid record, covers its
prefix (and, torn, that one more block above the last valid mark does), `SourcesCover` that
a directory whose anchor does not know of a journal, the present one or one a reset can
bring back, either has marks that cover what was handed out or comes with a journal that is
past them (`Past`), and `SourcesKept` that nothing is deleted before the anchor knows.
`MountedMemory`, `SourceMemory` and `RunningMemory` carry the same through the steps of a
start. Each durable step is one lemma; `Crash` and `HardReset` then need nothing but these
facts about the disk. The facts claim nothing of an install that was rewound (`Below`), and
`HardReset` sets `rewound` exactly where the journal that was past those marks goes too.

`NoSpuriousRefusal` is about what a start *finds*, so its invariant is about pairs: the
anchor and the journal at this moment agree (`Agrees`: the same generation, no other prefix,
a floor not above the mark, and an anchor without a journal does not say there was one), and
so would the journal with every earlier anchor a reset may bring back, since within a
generation the anchor only gained (`Older`, `Ordered`). A torn append, a failed write or a
lost rename then leads from one agreeing pair to another; what does not is exactly what sets
`excused` (`Expected`).

### Only model-checked

Liveness (`PauseEnds`, `ClosedSessionLeaves`, `LeftoversGo`), which rests on
fairness and ENABLED and is out of the prover's reach, as are inductions over data and
recursive operators (none is used here). Every other property of a run that passes is stated
by a theorem.

## Not modelled

The components `PROJECT.json` lists as not modelled: the upgrade handoff, the daemon client
singleton and the supervisor (their races are under hazards), the launch fence, terminal
agents, the chat runtime, the worker pool, relay and tunnel, watchers, accounts, the rest
of the companion bridge, and everything that is a request handler over SQL or user
interface. The repository is large, mostly applications, and the models take its stateful
core one subsystem at a time.

## Plan

Done: `PtyDaemon`, `SessionRegistry`, `PtyDaemonProofs`; `TerminalLifecycle`;
`TerminalOutput`, `OutputStream`, `TerminalOutputProofs`, `OutputStreamProofs`;
`SendNonce`, `SendNonceProofs`, `SendNonceStartProofs`; `TerminalLifecycleProofs`,
`TerminalConfirmProofs`. Next, in order:

1. `DaemonHandoff`: predecessor and successor, snapshot, ack, rollback, socket path.
   Properties: one reader per PTY, no session lost; abstract specification: one daemon.
2. `DaemonClient` with `daemon-client-singleton`: two callers of `getDaemonClient`, request
   correlation, timeouts with late replies.
3. `LaunchFence`: workspace retirement epochs, composed with the lifecycle's commit.
4. `WorkerPool`, the chat runtime's journal and stream, and the tunnel, as far as they go.
