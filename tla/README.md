# CoreDeck in TLA+

CoreDeck connects a USB macropad to Claude Code sessions: a daemon (`coredeck`)
owns the device and serves HTTP and WebSocket, wrappers (`coredeck-claude`) run
`claude` under a PTY and register with the daemon, and Claude Code calls the
daemon through hooks. The modules here model the permission prompts, which decide
what Claude may do and are the most concurrent part, and around them the wrapper
registry, the link to the device, the mode LED, what is shown of a session, the
programming of the soft keys, and the pure algorithms of protocol, streams and
settings.

Paths are relative to `src/crates/coredeck/src/` unless they say otherwise.

## 1. Inventory

| component | state | operations | what is hard | what makes it correct |
|---|---|---|---|---|
| alert slot, `alerts.rs` | `alert_state`, `pending_queue`, `idle_queue` (three mutexes) | install, queue, promote, cancel by session or tool, clear by id, reset on disconnect, resync, follow the tab list | every hook, every wrapper connection and the event loop run these at once; the lock is released between freeing the slot, clearing the device tab and promoting | no prompt lost or doubled; the next one is always promoted; the device shows what the daemon holds |
| permission hook, `hooks.rs:1168-1420` | a parked task with a oneshot receiver | gate, park, time out after 300 s, settle, enroll, reply | timeouts race answers and promotions; the HTTP client may go away at any await | every hook is answered, with what its user said |
| other hooks, `hooks.rs` | session table | about twenty events; cancel alerts of a session that moved on | they arrive in any order, in parallel | a cancelled alert is one of that session |
| enrollment, `wrapper.rs:1014-1100` | `yolo_opt_in`, `yolo_opt_out` (two mutexes) | mark in, mark out, clear, drop, test | two sets, several writers, a switch on the device | a wrapper is not in both; nobody is approved without agreement |
| HID event loop, `main.rs:656-960` | `device_status` | keys, connect, disconnect, state reports, encoder | handles events one by one, long after they happened | a key settles the prompt that was in front when it was handled |
| wrapper registry, `wrapper.rs` | `wrappers`, connection tokens, `active_session_id` | register, replace, exit, bind session, focus, cycle, tab list | reconnects race the close of the older socket | tab order agrees with the device; a live wrapper is never dropped |
| mode synchronisation, `wrapper.rs:913-1010`, `main.rs:754-802` | `mode`, `mode_initialized` | mode-button tap, hook-reported mode, Shift+Tab injection | the device echoes what it is sent | one tap cycles once |
| HID link, `hid/device.rs`, `hid/protocol.rs` | device handle, `connected`, framing, last display payload | ping thread, hotplug callback, reconnect, send and drain | three threads open and close one handle | flag, handle, framing and what was last sent tell the same story; each loss is reported |
| exclusive client, `ws.rs`, `rpc.rs` | `ws_client` | take over, relay, release; REST handlers refuse meanwhile | lock checked before the upgrade, taken after it | one client at a time; release frees only one's own lock |
| session table, `state.rs`, `hooks.rs` | per-session phase, tool, task, tokens | touch, start, tool, stop, end | late hooks after the end; entries keyed by session with parallel requests | what the device shows of a session is what Claude does; a session at rest is shown at rest |
| wrapper state, `wrapper_state.rs` | map and JSON file | set mode, load | snapshot under the lock, write after it | the file follows the map |
| PTY wrapper, `../../coredeck-claude/src/main.rs` | PTY, socket, focus and title parsers | forward, reconnect, register, strip focus reports, sniff titles | escape sequences split over reads; reconnect loop | bytes are neither lost nor invented |
| hook installation, `hooks.rs:2060-2300`, `setup.rs` | the user's `settings.json` | merge, remove managed blocks | user hooks in the same file | user hooks survive |
| keymap and presets, `keymap.rs`, `presets.rs`, `rpc.rs` | the device's key assignments, a preset file | read, set, reset, apply a preset | answers that come late, clients in between, power loss | a preset arrives whole |
| updates, tray, spawn, raise | caches, native UI | polls, OS calls | little | not modelled |

Interaction: hooks and wrapper connections are tokio tasks sharing `DaemonState`;
each ends by emitting a tab list (`emit_tab_list`), which reconciles the live
alert (`refresh_for_tabs`). The HID reader thread talks to the event loop through
an unbounded channel. A hook parked on its prompt is woken by its oneshot sender,
which sits in the slot, in the queue, or in the hands of a task.

## 2. Modules

| module | what it models |
|---|---|
| `Deque` | `VecDeque` with distinct entries, as a set and an order (what proofs need); `Prompts`, `Wrappers` and `Sessions` use it |
| `AlertSlot` | the slot, its queues, and the routines all tasks share: promotion, idle notices, tab-list reconciliation |
| `PermissionHook` | `handle_permission_request` and the enrollment marks |
| `ProgressHooks` | every other hook as far as alerts see it; wrappers that join, exit, gain and lose focus |
| `EventLoop` | the event loop: keys, the Claude button, connect, disconnect, the Auto-approve switch |
| `Prompts` | all of the above composed, with the user, the device and the HTTP clients; types, invariants, fairness |
| `PromptDesk` | abstract specification: what the daemon promises about prompts |
| `PromptClaims` | a sentence of the documents that some interleaving contradicts |
| `PromptsTypes`, `PromptsSafety`, `PromptsPromise` | theorems and proofs about `Prompts`: its types, what waits and what shows, its refinement of `PromptDesk` |
| `Wrappers` | the registry and its clients: connections, bindings, the active session, restarts of the daemon |
| `DeviceLink` | the threads and tasks that open, ping, tear down and write to the device, and the status they keep |
| `DeviceLinkProofs`, `WrappersProofs`, `ModeSyncProofs`, `SessionsProofs`, `DeviceClientsProofs` | theorems and proofs about the modules they are named after |
| `ModeSync` | the permission mode in Claude, on the LED, in the daemon and on disk |
| `Sessions` | one Claude session and what the daemon tells of it from its hooks |
| `DeviceClients` | apps and REST calls that program the soft keys, the exclusive lock, the device's memory |
| `PtyStreams`, `Packets`, `HookSettings`, `TaskLine` | pure algorithms: stream filters, packet framing, settings merge, text shortening |
| `MCPrompts`, `MCSessions`, `MCDeviceClients`, `MCAlgorithms` | instances for TLC; `MCAlgorithms` also holds the reference definitions |

`Prompts`, `Wrappers`, `DeviceLink`, `ModeSync`, `Sessions` and `DeviceClients`
each own a part of the daemon's state and are checked apart; they meet at
`emit_tab_list` (a push in `DeviceLink`, the reconciliation in `AlertSlot`), at the
active session (`Wrappers`, read by `ModeSync` and `Prompts`), and at the
connection events (`DeviceLink` sends them, `EventLoop` acts on them). Each module
allows at such a place whatever the other may do: `Prompts` lets any registered
wrapper be the active one, and lets tab lists be emitted and the device go at any time.

### Prompts

* **A thread is a task.** One per permission request, one per idle notice (the
  hook that raises it), one for the event loop, and `Hooks` threads that take one
  job after another (another hook, or a wrapper's connection). A **step** is what
  the code does under one hold of a lock, together with the reads that follow it
  before its next write; any other thread may run between two steps. Device calls
  made under the alert lock belong to the step; those made after its release are
  steps of their own. `pc` names where a task stands, `ret` where the routine it
  is in returns to, `hand` the alert it popped or copied.
* **The slot** is `slot` (`None`, a request, a notice) and `slotTab`. The id of an
  alert is the request or notice it was made for; as ids are unique in the code
  (`next_alert_id`), comparing them is comparing alerts.
* **The oneshot** of request `r` is `answer[r]`: `unsent`, `open` (parked, nobody
  answered), `allow`/`deny` (sent), `dropped` (the sender is gone), `closed` (the
  receiver is gone).
* **A key** is classified against the alert in front in one step (`TakeKey`, which keeps it in `aim`)
  and applied in a later one (`Decide`), if that alert is still in front (`Meets`, alerts.rs:994).
* **The device** is `screen`, a set of `<<tab, alert>>`, and `hidUp`. Unplugging
  keeps the alerts (a dead link) or loses them (a pulled cable). **Events** queue
  in `inbox`.
* **Promotion** is `try_install_next_pending`: `Pop` or `PopNothing`, `Check`
  (closed receiver, enrollment), `InstallNext`; then `promote_queued_idle`:
  `TakeIdle`, `Place`, `Requeue`. **Reconciliation** is `Emit`, `Prune`,
  `Relock`, `Move`: two looks at the slot with the lock released in between, as in
  the code.
* **Aborted calls.** When the HTTP client goes away the server drops the handler
  where it waits. `Hangup` does so while it is parked, `Abandon` at any other
  await; what the handler holds is dropped, and the rest of it is never run.
  `Hooks` threads also stand for wrapper connections, which are no HTTP calls,
  and are not abandoned.
* **Left out**: each session has one wrapper. On the switch's ON any registered wrapper may be
  the active one. Labels, texts, tool summaries and `pending_permissions` (no reader in this
  part) are left out. Failing device writes on a connected device are left out: a failing write
  and an absent device take the same branch. SessionEnd cancels the live prompt and sweeps the
  queues; it is covered by `Progress` and `Submit`, PostToolUse of AskUserQuestion by `Submit`.
  In `wrappers`, which has no notices, a prompt submitted is no more than a tool begun, and is
  left to `notices`. The first state report after a connect may be read before or after the
  connect event. A REST client that shows its own alerts on the device is not modelled.

### Wrappers

`entry` is `state.wrappers` (a connection's number stands for its token and sender), `active`
and `recent` (a `Deque`) are `ClaudeState`'s, `up` and `down` the frames of each connection,
`phase` its task in the daemon; `link`, `cache` and `unsent` belong to the wrapper process.
`set_active_wrapper` takes two locks, `LookUp` and `Promote`; `cycle_active` goes through
`Turn`, `FromActive` (which session is active) and `Choose` (where that one is in the list), two
locks again; `swap_to_previous_session` through `Swap` and `Find`. Wrapper ids are numbers in
the order of their start times, as tabs are. A connection's end is seen after all its frames
were read, or some of them lost. `Restart` empties the daemon's tables and breaks every
connection. *Timing assumption*: the reconnect backoff of a second or more lets the daemon read
the Register of an older connection first. `register_session` answers 404 for an absent wrapper
and nobody repeats the call (`lost`).

### DeviceLink

`reader` is the ping thread, `watcher` the hotplug thread (`watch` says whether it gets notices
or polls). A teardown is four stores, in each of the two threads: `close` (the handle), `flag`,
`reset` (framing, last payload), `tell` (the event). `hid` is the lock of the HID manager during
`open_device`; `Open` and `Opened` are its two ends, with the protocol probe between. `emit` is
the snapshot each task in `emit_tab_list` has yet to push, 0 for an empty list, which is never
pushed (wrapper.rs:479). `working` says whether some session is active with its wrapper
connected: it changes at any time, and only then does the display ticker tick (wrapper.rs:655).
`Noticed` is what the operating system tells the watcher. *Timing assumption* `SlowProbe`:
opening and probing (an enumeration and at least one round trip to the device) take longer than
the four stores of another thread's teardown that has begun. With `SlowProbe = FALSE` the
teardown may erase what the open has just set, and `LinkIsCoherent` fails.

### ModeSync

`led` is the firmware, `claude` each Claude, `known` `SessionState.permission_mode`,
`last` and `disk` the store of `wrapper_state.rs`, `status` the event loop's.
`Tap`, `Poll`, `Handle`, `Inject` is the way from the button to Claude; `Hook`, `Store`,
`Flush`, `Read`, `Record`, `Write`, `Drain` the way back. `Drain` drops reports, as
`drain_response` does: a tap's too if one comes while it drains, and the run has such taps. Two history
variables say how far the statements go: `missed`, that the LED stands where a tap put it whose report
was dropped, and `turns`, how often Claude's mode has changed since a hook last brought news of it. With
`Overlap`, taps may come, and the active session change, between the record of a sync and its write, and
syncs may overlap and begin with reports unheard; the run has it FALSE, because the code then does
loop (section 5).

### Sessions

Claude is one part of the state (`work`, `running`, `used`, `tasks`, `doing`, `jobs`, ...), the
daemon's `SessionState` the other, and `call` is the hook between them: Claude waits for its
answer. `session` is `Blank` while the table has no such session (`~known`); `session.monitors`,
the monitor ids kept up to `MonitorCap` (hooks.rs:1145), is a `Deque`; `started`, a history
variable, is all that was ever started in the background, in order. A question to the user
blanks the summary line (`Summary`). A hook is two locks, `Touch` and a handler. *Assumed of
Claude*: an interrupt fires no hook; `idle_prompt` comes a minute after a turn, when ticks on
their way were handled; no compaction before the first turn; an automatic compaction at rest
comes right after Stop. Other sessions do not interfere: the table is a map by session id.

### DeviceClients

`client` is the lock of `ws.rs`, `app` and `job` where apps and calls stand, `hid` the lock of
the HID manager, which a job keeps from its first key to its last. Commands and answers pass
through `pending` and `replies`: an answer that comes after its command timed out waits there
for the next command, unless the reader thread (`Poll`) takes it. `Flaw` gives each preset the
key, if any, whose assignment the device could not store: `Reject` ends the job there
(rpc.rs:692). `Short` are the values whose answer is too short to name its key. `keys` and
`saved` are the device's memory and EEPROM. *Assumed of the device*: it works commands in order.
A power cycle fails the job that has the HID manager. `wrote`, a history variable, is the write
a client has just seen complete, with nothing left for the device to do.

### Algorithms

`MCAlgorithms` grows an input symbol by symbol, so every input up to the bound is a state, and
compares what the algorithm makes of it with a definition that looks at the input as a whole:
`FocusStripper` and `OscSniffer` with positions in the stream, `read_response` with first and
last chunk, chunking with its inverse, the settings merge with the user's blocks, the text
shortening with the width of the display. Entries of a settings file are `Ours`, `Alike` (what
the code takes for its own by its text), or any other, and a hook list may be `Odd`, no list at
all. A probe may be `refused`, answered with an error status.

## 3. Plan

Done: the slot and its hooks, their composition and abstract desk with nine theorems, the
refinement among them; the registry with six, sessions with four, link, modes and
clients with two each; algorithms. What could follow, in this order:

1. `Wrappers` with two wrappers bound to one session, and `register_session` calls that overlap.
2. `DeviceClients` with the display and alert commands of `ws.rs`, composed with the
   pushes of `DeviceLink`.
3. What the screen shows with several sessions: a statement that names the alerts
   `refresh_for_tabs` has moved to a wrong tab, and excludes all others.

## 4. Runs

| run | bounds | shows |
|---|---|---|
| `two_sessions` | a prompt and two notices of two sessions, `IdleCap` 2 | no notice is forgotten, a session queues one |
| `notices` | two notices, one thread for focus reports and for hooks of sessions that move on, F20 | the same under focus, hooks and keys |
| `switch` | two prompts that ask for enrollment, the switch | `ExclusiveUnlessMarking`, `ScreenIsHonest`, the desk's promise |
| `answers` | two parallel prompts, plug and unplug, hang-ups, fairness | `OneHolder`, `NobodyStranded`, `NoPhantomWhenQuiet`, every hook ends |
| `wrappers` | two prompts of two sessions, one thread for hooks of tools, exits, tab lists; aborted calls | types, the desk's promise |
| `registry` | 2 wrappers, 3 sessions started, 2 connections each, 1 focus report, turn or tap, 1 restart | registry, bindings, swap, knob |
| `link` | 2 emitters, 2 edits, 2 plug changes, 1 silent break, threshold 2 (3 in the code), both kinds of watcher, sessions at rest and at work | coherence, status, dead links, display |
| `modes` | 2 sessions, 3 modes, 2 taps, 2 Shift+Tabs, 1 change of the active session | taps and LED |
| `sessions` | 2 turns, 2 tools per turn and at a time; 1 task, a shell and 1 compaction, or 3 monitors, a shell and an artifact, ids of 2 monitors kept (32 in the code) | tab, headline, counters, background |
| `clients` | 2 apps, 2 calls, 2 presets, one of them with a key that cannot be stored, 2 keys, 3 jobs, 2 late answers, 1 power cycle; symmetry in apps and in calls | presets and reads |
| `algorithms` | inputs of 4 to 7 symbols | six algorithms |
| `approved_when_off` | three prompts, the switch | section 5 |

The runs of `MCPrompts` have two sessions `s1`, `s2` (tabs 0 and 1), `PendingCap` 1 (2 in
`approved_when_off`, 4 in the code) and `IdleCap` 1 or 2 (16 in the code), so that full queues,
refusals and evictions occur with three alerts. `MaxInbox` bounds the channel between HID thread
and event loop: an event is added only while fewer than 1 (2 in `answers`) are waiting; a
reconnect adds two. Jobs of `Hooks` threads repeat without bound. In `registry`, two connections
per wrapper are what old and new connection can get wrong; a third only repeats it. In `link`,
two plug changes are a pull and a return, each with teardowns in both threads and a break before
it. In `modes`, four changes of a mode that has three values let it come round between two
hooks, and more. In `sessions`, each behaviour is of one of two mixes (`mix` in `MCSessions`):
tasks and compactions, or background jobs; in the second the third monitor takes the place of
the first one's id. `CHECK_DEADLOCK FALSE`: a daemon whose prompts are all answered really has
nothing to do; the same holds of a run whose bounds are used up. `link` checks deadlock: the
reader thread polls for ever.

What the properties say and why they could fail:

* `OneHolder`: the sender of a parked prompt is in exactly one of slot, queue and
  tasks' hands. Ten places move it.
* `NobodyStranded`: an empty slot with a queue behind it has a task on its way to
  promote. The task that frees the slot makes a device call and purges queues
  first, others may install and free again meanwhile.
* `NothingWaitsWhenQuiet`: nor is a notice forgotten. A notice is queued after the
  slot's lock was released; what saves it is the tab list that ends its hook.
* `OneNoticePerSession`: notices are replaced, evicted, taken and put back by several tasks.
* `ScreenIsHonest`: the device shows the live alert, or one that is about to be
  cleared by the task that freed it. Stated for the alerts of a single session: with two,
  `refresh_for_tabs` itself moves alerts to wrong tabs (section 5).
* `NoPhantomWhenQuiet`: after `resync_device` nothing old stays on the device.
* `ExclusiveUnlessMarking`: opt-in and opt-out overlap only between the halves of a mark.
* `KeepsThePromise` (`Desk!Spec`): a key settles the prompt that was in front when it was
  classified, or none; two steps, between which another prompt may have taken its place; nothing
  but enrollment approves a waiting one; a verdict is never changed; the reply says what the
  verdict says. Mapping: `front` is the request in the slot, `aimed` the one the event loop has
  read a key against, `taken` the one it has in hand, `waiting` the queue and what promoting
  tasks carry, `verdict` is `answer`, `enrolled` is `optIn`. A notice in the slot is an empty
  front.
* `EveryRequestAnswered`: every PermissionRequest hook ends.
* `NewestIsRegistered`, `EveryWrapperReturns`: the end of an old connection must not
  take the entry of a newer one; if it did, the wrapper would stay away although connected.
* `CacheRestoresBinding`, `ReconnectKeepsSession`: after flaps and restarts what the
  wrapper remembers is used, but never against what the daemon knows better.
* `SwapTogglesBack`, `KnobVisitsAll`: the recency list and the active session are
  rewritten by starts, ends, focus and knob, under different locks.
* `LinkIsCoherent`, `StatusFollowsLink`, `DeadLinkIsDropped`, `DisplayCatchesUp`: three
  parties close and open one handle store by store, in any order. `DisplayCatchesUp` speaks of times when
  some session works, `DeadLinkIsDropped` of any.
* `EveryShiftTabIsATap`, `LedShowsClaude`, `Settles`: each direction echoes into the other; an
  echo taken for a tap injects a Shift+Tab, which a hook reports, and so on. `LedShowsClaude`
  excepts an LED whose last tap was dropped, and a session with as many changes since a hook
  last brought news as there are modes; the run reaches both.
* `TabTellsWork`, `RestIsClean`, `HeadlineIsTrue`, `BackgroundIsNamed`, `RestIsNoticed`: about
  twelve hooks write eight fields; which of them belong to the turn, to the session and to the
  compaction shows only in sequences. `BackgroundIsNamed` excepts a monitor after which as many
  newer ones started as ids are kept, and no other.
* `PresetIsWhole`, `ReadsAreTrue`: late answers, clients in between, presets that stop half-way,
  and power loss. A read may be answered by a late reply too short to name its key, and then
  says that the key has its default.

**Fairness.** The tokio runtime polls every task that can go on, its mutexes are fair, threads
are scheduled and timers fire. Hence: in `Prompts` weak fairness of each task (`Timeout` is a
step of its request) and of the event loop; in `Wrappers` of each wrapper's connect loop, of
hooks and of connection tasks; in `DeviceLink` of both threads, of the end of an open and of the
ticker (whose guard, that some session works, owes nobody anything), and strong fairness of the
event loop and of pushes, which wait for a fair mutex; in `ModeSync` of threads and tasks; in
`Sessions` of the handlers, and strong fairness of `Notify`: Claude says that it waits whenever
a turn has ended and the user stays away. Keys, cable, switch, users, breaks and clients are
given no fairness: they owe the daemon nothing.

## 5. What the code does against its own words

`approved_when_off` expects a violation. docs/REST-API.md:354 says that auto-approve
"Requires *all three*" of device, switch and enrollment; the re-check of queued
prompts (alerts.rs:472) asks for the enrollment only.

Windows the models reach, and around which the properties are stated:

* the slot is freed, another task shows the next prompt on the same tab, and the late
  `clear_alert(tab)` wipes it: it is live and unseen (alerts.rs:1068; the comment at
  alerts.rs:553 wants no such prompt);
* between the look-up and the cancellation in `refresh_for_tabs` the alert changes
  hands: the prompt of a present session is cancelled (alerts.rs:1207), or put on
  another session's tab (alerts.rs:1240);
* a key is held against the prompt live when it is handled; while it waited in the
  channel, the one it was meant for timed out (alerts.rs:909);
* an entry popped and pushed back makes the queue longer than `PENDING_QUEUE_CAP` (alerts.rs:506);
* a prompt whose hook timed out between `is_closed()` and the install is shown with nobody
  awaiting it (alerts.rs:450);
* an enrollment is written after Auto-approve went off, or after its wrapper left (hooks.rs:1378-1381);
* a waiting notice is shown although focus arrived after the focus check (alerts.rs:250, 286);
* a sibling that passed the enrollment check is asked again (alerts.rs:472, 496);
* a hook call aborted between freeing the slot and promoting leaves the next prompt
  behind an empty slot until another task promotes, at the latest the next tab list
  (alerts.rs:716). This is why five theorems assume `"abandon" \notin World`;
  `NobodyStranded` is checked in `answers`, which has no aborts but hang-ups of parked calls, and no
  exits of wrappers either: that `refresh_for_tabs` strands nobody is proved and not run;
* `register_session` of a wrapper that is not back yet is never repeated: its session
  stays unbound until the next SessionStart (wrapper.rs:286);
* focus and title are not sent again after a reconnect, and a focus report of an older connection
  counts for the newer (wrapper.rs:212);
* a link dropped after failed pings is opened again only by a client or by a hotplug event
  (main.rs:735); the display waits for the next tick after a connect, and there is none while every
  session rests (wrapper.rs:655): it then stays as it is until a hook or a change of the tab list;
* with `Overlap`, two syncs at once may leave the LED in the older mode (wrapper.rs:913), and the echo
  of one is taken for a tap by the other: the Shift+Tab it injects brings a hook, the hook a sync, and
  so on without end;
* a tap while a command drains the device's reports is lost (hid/device.rs:1053): the LED stays apart
  from Claude, and the daemon's record from the LED, until the next tap or LED write;
* the LED is synced when a hook brings another mode than the last one did: with as many taps and
  Shift+Tabs between two hooks as there are modes, the mode comes round to the one the daemon knows
  and the LED stays elsewhere until the next change (hooks.rs:455);
* two flushes of the wrapper modes may reach the disk in the opposite order (wrapper_state.rs:80);
* two apps may both pass the check of the lock (ws.rs:39), and the first to leave frees it for all;
* a late answer of under two bytes skips the check of its key and reads as that key's default
  (hid/device.rs:759);
* a monitor that still runs after `MONITOR_IDS_CAP` newer ones is shown as a shell (hooks.rs:1145);
* a preset that fails half-way leaves its first keys on the device, unsaved (rpc.rs:693).

Known from the code but outside the models' states: two wrappers bound to one session make the
knob stick at the first of them (wrapper.rs:1197); a tick after SessionEnd makes the session
anew (state.rs:181); one of two parallel tools blanks `current_tool` when it ends
(hooks.rs:1128, reachable in `Sessions`, and left out of `HeadlineIsTrue`); two saves of presets
at once lose one (rpc.rs:743); a focus report cut between its Escape and its bracket reaches
Claude (`../../coredeck-claude/src/main.rs:63`). `HookSettings` shows what of the user's goes
with ours: a block with a command of ours in it, or with one that names our scripts or posts to
a `/hooks/` URL of any host (hooks.rs:2157), a hook list that is no list, and the statusLine.
`LinesFit` is about tools and background work: the line of a task in progress is not cut, and
`decorate_task` adds to it (wrapper.rs:620).

## 6. Proofs

| theorem | states |
|---|---|
| `PromptsTypes!TypeCorrect` | `Spec => []TypeOK` |
| `PromptsSafety!PromptsAreNotStranded` | `Spec => []NobodyStranded`, if `"abandon" \notin World` |
| `PromptsSafety!NothingIsForgotten` | `Spec => []NothingWaitsWhenQuiet`, if `"abandon" \notin World` |
| `PromptsSafety!NoticesAreOnePerSession` | `Spec => []OneNoticePerSession` |
| `PromptsSafety!EnrollmentIsExclusive` | `Spec => []ExclusiveUnlessMarking`, if `"abandon" \notin World` |
| `PromptsSafety!DeviceShowsTheLiveAlert` | `Spec => []ScreenIsHonest`, if `"abandon" \notin World`, `"plug" \notin World` and `OneTab` |
| `PromptsSafety!NoPhantomsAtRest` | `Spec => []NoPhantomWhenQuiet`, if `"abandon" \notin World` and `OneTab` |
| `PromptsPromise!OneHolderOfEverySender` | `Spec => []OneHolder` |
| `PromptsPromise!DaemonKeepsThePromise` | `Spec => KeepsThePromise`: the daemon implements `PromptDesk` |
| `WrappersProofs!RegistryFollowsTheNewest` | `Spec => []NewestIsRegistered` of `Wrappers` |
| `WrappersProofs!BindingSurvives` | `Spec => []CacheRestoresBinding` of `Wrappers` |
| `WrappersProofs!RebindingIsStable` | `Spec => ReconnectKeepsSession` of `Wrappers`, an action property |
| `WrappersProofs!RegistryTypesAreRight` | `Spec => []TypeOK` of `Wrappers` |
| `WrappersProofs!SwapAlwaysTogglesBack` | `Spec => []SwapTogglesBack` of `Wrappers` |
| `WrappersProofs!KnobAlwaysVisitsAll` | `Spec => []KnobVisitsAll` of `Wrappers` |
| `DeviceLinkProofs!LinkStaysCoherent` | `Spec => []LinkIsCoherent` of `DeviceLink`, if `SlowProbe` |
| `DeviceLinkProofs!StatusIsTheLinks` | `Spec => []StatusFollowsLink` of `DeviceLink`, if `SlowProbe` |
| `ModeSyncProofs!ShiftTabsAreTaps` | `Spec => []EveryShiftTabIsATap` of `ModeSync`, if `~Overlap` |
| `ModeSyncProofs!LedShows` | `Spec => []LedShowsClaude` of `ModeSync`, if `~Overlap` |
| `SessionsProofs!TabTells` | `Spec => []TabTellsWork` of `Sessions` |
| `SessionsProofs!RestsClean` | `Spec => []RestIsClean` of `Sessions` |
| `SessionsProofs!HeadlineTrue` | `Spec => []HeadlineIsTrue` of `Sessions` |
| `SessionsProofs!BackgroundNamed` | `Spec => []BackgroundIsNamed` of `Sessions` |
| `DeviceClientsProofs!PresetsAreWhole` | `Spec => []PresetIsWhole` of `DeviceClients` |
| `DeviceClientsProofs!ReadsAreAlwaysTrue` | `Spec => ReadsAreTrue` of `DeviceClients`, an action property |

`FairSpec` implies `Spec` in each module, so the runs' fairness changes nothing here. Each
inductive invariant was checked with TLC on the small instance before it was proved.

The theorems about `Prompts` hold for any sets of requests, notices, hook threads and sessions,
any caps and channel bound, from the named assumptions on the constants (`ThreadsAssumption`,
`SessionsAssumption`, `ToolsAssumption`, `CapAssumption`, `WorldAssumption`):
threads of different kinds are distinct, sessions are finite and ranked by start
time, caps are positive.

*Types.* `TypeOK` is not inductive: that a promoting task writes a request back to
the request queue depends on what it has in hand. The inductive invariant is
`TypeOK /\ TasksRight`, where `TasksRight` says what a task carries where it is (a
request in `check` and `install`, a notice in `place` and `requeue`, an alert in
`move`, a tab wherever one is to be written), what the event loop marks for, and
what a job has yet to purge. For each kind of step there is one lemma for the types,
one that it moves only its own task, and one for `TasksRight`, with one step per
action.

*Queue.* `NobodyStranded` needs, beside types, that a thread which emptied the slot is at a
point from which promotion follows: the event loop at `mark`, `unmark`, `send` with a prompt in
hand, a purging hook with the tab it freed. Every action either leaves slot and queue alone,
makes its thread `Promoting`, or puts something in the slot; a thread stops promoting only with
the queue empty or the slot taken. An abandoned task stops at any point, hence the assumption.
Notices behind an empty slot have more hope: beside the promoting tasks, whoever is at the idle
queue and every hook that is at its tab list (`Attending`). Both invariants are kept by one
lemma per action, `Passed`: a step that leaves something waiting leaves its own task in charge,
or was not in charge of it.

*Notices.* `OneNoticePerSession` is inductive with two facts about the queue, that it is a
well-formed deque (a strict total order of its entries) and finite, which is what makes the
cap a number. `Requeue` is the step with work to do: a notice takes the place of one queued
for its session meanwhile, and at the cap the oldest, of which there is exactly one, goes.
Calls may be aborted.

*Enrollment.* Both sets gain a wrapper only in `Mark`, which leads to `unmark` of
the same wrapper; between the halves no other step of that thread runs, and every
other step only removes.

*Screen.* The two properties about what the device shows are false of some instances, because
of what the code does: with alerts of two sessions `refresh_for_tabs` moves one to the other's tab
(section 5), and an aborted call never clears what it freed. `OneTab` excludes the first: all
alerts are of one session, and if wrappers come and go it is the oldest one, so that its tab `Home`
stays where it is. Any number of prompts, notices and tasks may still meet there, and that is where the
hazard lies: one slot, one tab, and a clear by number. `ScreenRight` says that every tab a task
carries is `Home`, that `refresh_for_tabs` never finds a reason to move, and that each alert on the
device is the live one, or one that a task at `wipe` has yet to clear, or stands there
because the device is away or not yet resynced (`Stale`). `DrawnRight` reduces a step to what it draws
(`Drawn`): either the live alert alone, or nothing new, and then whoever frees the slot
has its tab to clear. `LinkRight` follows the connection events: behind every loss on its
way comes a return, or the device is still away (`Followed`), and the loop resets only
while that is so (`Dropping`). A connection that is handled therefore finds nothing behind
it that would drop the alerts it has just drawn.

*Senders.* `OneHolder` needs one fact more, that the sender of a hook that has not parked is
nowhere (`SendersRight`). The lemma `SendersKept` reduces a step of one task to what it does
with one sender (`Moved`): what was in its reach, slot, queue or own hands, stays there in one
place, or is let go after its hook was answered; other tasks keep theirs. No assumption
on `World`: an aborted call drops what it holds, and with it the hook's wait.

*Promise.* The refinement adds `RepliesRight`: a sender is open only while its hook is parked,
and a hook that has yet to reply has not. For each step of `PromptDesk` a lemma says which
change of the daemon's state it stands for (`ShowStep`, `AnswerStep`, `WithdrawStep`, ...), and
for each kind of task one goes through its actions and cites the desk's step, or none.
`WaitingSplit` is what keeps this short: what waits is the queue, what this task has in hand,
and a rest that the step does not touch. `DaemonKeepsThePromise` joins them to `Init =>
Desk!Init` and `[Next]_vars => [Desk!Next]_desk` under the invariants.

*Registry.* The three properties are inductive only together with what the frames on
their way say. `RegistryInv` adds: connections are opened one after another and only
the last can be unregistered (`ConnsInOrder`: the backoff lets the daemon read an
earlier Register); what an unregistered connection has sent begins with a Register that
says what the wrapper still remembers, and nothing was sent to it (`RegisterComesFirst`);
a wrapper hears of its own earlier sessions only (`OnlyPast`); an entry names a served
connection (`EntriesAreLive`); a session being told is bound (`ToldIsBound`). So the connection
that registers is the newest; one that ends and owns the entry has no older one
behind it that counts as newest; and what a wrapper reads is either old or bound.
The theorems hold for any finite set of wrappers and any bounds, from `WrappersAssumption`.

*Active session and knob.* `ActiveInv` adds the types to `RegistryInv` and, with `ActiveRight`,
that entries name sessions of their own wrapper, that a start which was sent has a session, and
that the active session heads the recency list. `RecalledRight` is about
`promote_recent_locked`: the session comes first, and no more stay than the cap allows, because
no two have as many before them. For the swap, the session before is the next in that list that
some wrapper is bound to; brought to the front, it has the active one right behind it. For the
knob, a set of wrappers closed under turns has a greatest and a least member; the neighbour of
the greatest is the least of all, so that the set reaches both ends, and one missing in between
would be the neighbour of the one before it. `FirstExists` gives these proofs their least
elements: a finite set with a strict order has one, since the sets of what stands before its
elements are well-founded under inclusion. Each session is of one wrapper here; with two
wrappers bound to one session `KnobVisitsAll` is false (section 5).

*Link.* `LinkInv` adds to `LinkIsCoherent` what holds in the middle of a teardown and of
an open: the handle is closed before the flag falls, and from a thread's `flag` step to
its end there is no handle, because nobody opens a link whose flag is set and a probe ends only when no
teardown is under way (`SlowProbe`); a connected link without a handle is one at whose
`flag` step a thread stands; a link that is not connected has lost framing and payload or stands before
`reset`; whoever probes does so with the flag down. Two threads may tear the same
link down at once: `TeardownKeeps` treats a step of one whatever the other is at, and both
threads' lemmas cite it. The theorem holds for any set of emitters, any bounds and
threshold, from `DeviceLinkAssumption`. For the status, `StatusInv` adds that the last word on the
connection, among the events on their way or, if there is none, in the status, is how the link is
(`Says`), unless a thread stands between the flag and its event: sending a word makes it the last,
handling one keeps it, and two teardowns at once only say the same thing twice.

*Modes.* `InStep` follows the reports. Every report on its way and every Shift+Tab injected or
owed is of a tap, but for one report, the oldest, that repeats what is on record; the last
report is what the LED shows, unless it is being written; and at most one syncer is between
record and drain, with every report handled when it began (`~Overlap`); what is dropped unheard
sets `missed` until the LED is next written or tapped. `InOrder` follows the modes. `NewsKept`:
Claude's mode is the one the daemon knows, turned on as often as `turns` says, which up to one
round is a number and not a remainder. `AimIsKnown` and `RecordIsKnown`: unless a syncer has yet
to read what to aim at, what it is about to record, and then what is on record, is the mode
known of the active session, or else a Shift+Tab is on its way there or Claude has turned since.
At rest, Claude's mode is the known one by `Told` and less than a round; so `turns` is 0, and
record, LED and Claude agree. The proofs bound neither taps nor Shift+Tabs: `MaxTaps` and
`MaxKeys` may be anything. `~Overlap` is needed: without it both statements are false, and TLC
shows how (section 5).

*Sessions.* `TableRight` says, for each hook call that Claude may be waiting for, what the
daemon's record holds of Claude's state while the call is under way: the task list up to the
task the call is about, the pinned task up to the one it starts or completes, the headline, and
the phase a compaction returns to. Every call of Claude and every handler has a lemma. From
`SessionsAssumption`: the names of tasks are not those of the two headlines, and "none" is no
name.

*Background.* `JobsKnown` says that each of Claude's monitors is among the ids the session has
noted, or the hook that notes it is under way, or as many newer monitors have started as ids are
kept (`Forgotten`); that nothing else is among the ids; and that the background line shows each
job as what it is or a forgotten monitor as a shell. `IdsInOrder` makes the step at the cap
work: the ids are in the order their monitors started, so the one that goes is the oldest, and
all others and the new one, `MonitorCap` (`MONITOR_IDS_CAP`, 32, hooks.rs:108) together, are
newer (`GoneIsForgotten`). Newer monitors only get more (`NewerGrows`).

*Clients.* `ClientsRight` looks ahead: `WillBe(k, v)` says what key k will be once the device has worked
off the commands on their way, from the last of them that writes it (`LastWrite`). A job that applies
a preset holds the HID manager, so of each key it has written the last write is its own,
whatever commands of timed-out jobs are still ahead; its last command saves them all. That is
why `PresetIsWhole` needs no care about which answers the job took for its own. For reads,
`OneAtATime` says that as long as no answer has come late there is one command or one answer between
client and device, and it is that of whoever waits.

*Model-checked only.* All liveness (`EveryRequestAnswered`, `EveryWrapperReturns`,
`DeadLinkIsDropped`, `DisplayCatchesUp`, `Settles`, `RestIsNoticed`), as fairness and ENABLED
are beyond the prover. The pure algorithms of `MCAlgorithms`: what a recursive function or a
fold computes for every input needs induction over data, whose theorems the provers cannot
instantiate; they are checked on every input up to a bound. Where finite sets and orders were
enough, as in the deque, the recency list and the knob, well-foundedness stands in for
induction. `approved_when_off` is a violation. Not stated at all for several sessions is what
the screen shows.

## 7. Not modelled

`updates.rs` (a daily poll of a web page, whose only effect is a row of the tray menu), `setup.rs`
but for the settings merge, `spawn.rs`, `raise.rs`, `tray.rs` (operating-system calls
and native UI), the JSON types of `coredeck-protocol`, the tables of `keymap.rs`, the file
of `presets.rs` (a sequential load, edit and save). Of `rpc.rs` the theme calls,
which have the shape of the soft-key calls with one command each, and the handlers that only
forward one call; of `ws.rs` the display, alert, mode and brightness commands and the
forwarding of events; of the hooks tokens, costs and rate limits, wording, and the
forwarding to a WebSocket client; of `coredeck-claude` the pseudo terminal, signals, ssh
and the choice of a wrapper id; soft-key pass-through of the event loop.

## 8. Running

```
tlc -workers 2 -config switch.cfg MCPrompts.tla
tlc -workers 2 -config registry.cfg Wrappers.tla
tlapm DeviceLinkProofs.tla
```

The modules with proofs are `PromptsTypes`, `PromptsSafety`, `PromptsPromise`,
`DeviceLinkProofs`, `WrappersProofs`, `ModeSyncProofs`, `SessionsProofs` and
`DeviceClientsProofs`; each is checked by itself.

Modules of the runs: `MCPrompts` for `two_sessions`, `notices`, `switch`, `answers`,
`wrappers` and `approved_when_off`; `Wrappers` for `registry`, `DeviceLink` for `link`,
`ModeSync` for `modes`, `MCSessions`, `MCDeviceClients` (`clients`) and `MCAlgorithms`.
