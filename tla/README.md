# A TLA+ verification of ezbeq

ezbeq is a small server that loads bass-EQ filters from a catalogue into audio
DSPs. It keeps, for each device, a *picture* of it: which filter is loaded in
which slot, gains, mutes, the master volume. The picture is saved to a file, sent
to browsers over a websocket, and - because most of these devices cannot tell
which filter they hold - is often the only record of what is loaded. The
central question of this project is therefore: **does the picture say what the
device does?** It is asked of a program with a pool of request threads, a reactor
thread, executors whose jobs outlive the callers that gave up on them, child
processes, websockets that drop, remote controls, and hardly a lock.

## The system

| Component | State it keeps | Operations | Hard about it | What makes it correct |
|---|---|---|---|---|
| Device state persistence (`device.py`, `PersistentDevice`) | `_current_state`, `__hydrated`, `<name>.json` | `state(refresh)`, `_hydrate`, `_persist`, `_broadcast` | calls on many threads, one shared temporary file, crashes | the file is always a whole state; memory, file and browsers agree |
| Minidsp (`minidsp.py`) | `MinidspState`, a single-worker executor, the DSP behind the `minidsp` command | load / clear filter, raw biquads and commands, activate, gain, mute, master volume, status, websocket messages | timeouts leave jobs queued, commands land on the *active* slot which anyone may change, command files fail half way | a title shown means the filter is loaded; gains shown are in force; every request ends |
| CamillaDSP (`camilladsp.py`) | one slot, `__config_updater`, a websocket to the DSP | load / clear, channel gains, master; handlers for each reply | replies do not say which request they answer, test-and-set without a lock, reconnects | title, gains and master match the DSP; an update always ends |
| Composite device (`composite.py`) | references to its members' states, a pool, member devices | every device operation, fanned out under one shared deadline | members that finish late or never | the state shown follows the members; a member's failure hides no other's success |
| Catalogue (`catalogue.py`) | versions in memory, an SQLite database, downloaded files, version files | poll, download, insert, prune, search, send in chunks | crashes between commits, prune against insert, several threads | a reader sees whole versions; the newest loaded version survives pruning |
| Websocket server (`apis/ws.py`) | clients, level subscribers, providers; timers of the devices | register, unregister, broadcast, subscribe, levels, catalogue in chunks | request threads walk over lists the reactor changes, a registration that a broadcast overtakes, loops that end or multiply, chunks out of order | no client keeps an outdated state; levels come as long as somebody listens and no longer; the catalogue arrives whole |
| HTP-1, Q-SYS, StormAudio, REAPER, J River | one slot (J River: one for each zone) | load, clear | sends that are discarded, answers that are not looked at | the title is shown only if the device took the filter |
| Command generation and allocation (`minidsp.py`, `iir.py`) | none; the biquads and gains of the DSP | filters, biquads and gains to commands | routes, groups and channels of a dozen device types, what an earlier load left | every filter is once in the way of every signal, and nothing else is |
| Configuration checks (`device.py`, `composite.py`, `config.py`) | the rules for each member, the hidden members | check, build, translate | several ways to skip an operation, slots under other names | a configuration that is accepted drives each device once, in balance, in the slot shown |
| REST API, start-up, user interfaces | none of their own | routes, marshalling | - | - |

How they interact: a route of the REST API runs on a thread of twisted's pool
and calls an operation of a device. The device loads its state if this is the first
call (`_hydrate`), performs the operation, and whatever came of it saves and
broadcasts the state (`_hydrate_cache_broadcast`). Devices talk to hardware
through an executor and child processes (Minidsp), through a websocket handled by
the reactor thread (CamillaDSP, HTP-1), or synchronously. Messages from the devices
arrive on the reactor thread and enter the same operations. A composite device
calls the operations of its members from a pool of its own.

`PROJECT.json` lists what can go wrong in each of these at which line
("hazards"), with the properties that watch over it.

## Modules

| Module | Models | Used by |
|---|---|---|
| `StateRegister` | abstract specification: a state in memory and one on disk, replaced whole and only by the one in memory | `PersistentDevice` |
| `PersistentDevice` | `PersistentDevice` of `device.py`, system call by system call | `MCPersistentDevice` |
| `MCPersistentDevice` | an instance | `PersistentSerial.cfg`, `PersistentOverlap.cfg` |
| `PersistentDevice_proofs` | theorems about it | |
| `Minidsp` | `Minidsp` on top of `PersistentDevice`, its executor, the DSP, the remote control | `MCMinidsp` |
| `MCMinidsp` | instances | `MCMinidspRequests.cfg`, `MCMinidspRemote.cfg`, `MCMinidspMute.cfg` |
| `Minidsp_proofs` | theorems about it: types, the cache file, titles, gains, the master | |
| `CamillaDsp` | `CamillaDsp`, its protocol and update objects, the DSP and the connection | `MCCamillaDsp` |
| `MCCamillaDsp` | instances | `MCCamillaDsp.cfg`, `MCCamillaDspOverlap.cfg`, `MCCamillaDspStuck.cfg` |
| `CamillaDsp_proofs` | theorems about it | |
| `Composite` | `CompositeDevice` on top of `PersistentDevice`, its pool and members | `MCComposite` |
| `MCComposite` | an instance | `MCComposite.cfg` |
| `Composite_proofs` | theorems about it | |
| `Ordered` | what a query sorts and a list comprehension keeps, without recursion | `Catalogue`, `JRiver` |
| `Ordered_proofs` | lemmas about it | `Catalogue_proofs`, `Devices_proofs` |
| `Catalogue` | `Catalogues` and `DatabaseDownloader`: files, SQLite tables, list in memory | `MCCatalogue.cfg` |
| `Catalogue_proofs` | theorems about it | |
| `Htp1` | `Htp1`, its client factory and protocol, the device and the connection | `Devices` |
| `JRiver` | `JRiver`, the media server and its user | `Devices` |
| `OneSlotDevices` | `Qsys`, `StormAudio`, `Reaper` and the script in REAPER | `Devices` |
| `MinidspCommands` | descriptors, `BeqFilterAllocator`, `MinidspBeqCommandGenerator`, and a DSP that executes the commands | `Devices` |
| `CompositeConfig` | `_validate_composite_configs`, `create_devices`, the rules of `CompositeDevice` | `Devices` |
| `Devices` | these five side by side, one of which is looked at in a behaviour | `MCDevices`, `Devices_proofs` |
| `MCDevices` | an instance | `MCDevices.cfg` |
| `Devices_proofs` | theorems about `Htp1`, `JRiver`, `OneSlotDevices`, `MinidspCommands` and `CompositeConfig` in it | |
| `WsServer` | `AutobahnWsServerFactory`, the loops that poll levels, the catalogue in chunks | `MCWsServer.cfg`, `WsServer_proofs` |
| `WsServer_proofs` | theorems about it | |

`PROJECT.json` maps every definition to the lines it stands for.

### PersistentDevice

A thread's position (`pc`) runs through `load`, `merge` (`_hydrate`), `func` (the
operation), `open`, `dump`, `close`, `replace` (`_persist`) and `message`, `send`
(`_broadcast`). Everything between two positions is atomic; everything else
interleaves. `cur` is `_current_state`, `json` and `tmp` are what the two
file names are bound to, `content` what is in the files. File names are bound to
inodes because that is what makes the difference when one thread
renames a file that another has open. An operation is reduced to the state
it leaves, or to raising. `Restart` may happen anywhere.

What `_merge_state` restores is not the same for all devices: `minidsp.py:197-202` the slots, `camilladsp.py:144-158` all
but the mute, `qsys.py:57-65` nothing, as it looks for another id than the one that is saved. A state is therefore a pair
of a part that is `kept` and a part that is `live`, from what `_load_initial_state` returns (any of `Initial`); `Restored` is the merge. With
`Kept` or `Live` of one value it is a device that restores nothing, or everything.

So a refresh (`GET /api/2/devices`) that loads the state again and tells nobody leaves the `live` part of memory different from
the file and the clients. `CopiesAgree` says that this is the only difference (`reloaded`) and that what is `kept` agrees all the same.

Assumed of the file system: opening for writing truncates at once, the text reaches
the file when it is closed (states are smaller than the buffer), renaming is atomic. If
the second of two writers of one inode has the shorter text, the end of the
longer one stays (`Garbled`).

`Overlap` says whether two calls may be under way at once. With `FALSE`, the module
implements `StateRegister`; with `TRUE` it does not (see Findings).

### Minidsp

State: `dsp` is the hardware (active preset, filter and gains of each slot, master);
`queue` and `stage` are the executor with its one worker and how far it is in
`__do_run`; `pc`, `todo`, `fut`, `seen` are the request threads, the operations of the
request they still have to do, their future and what it read; `cur`,
`hydrated`, `file` are the device's picture and its cache file, `buf` what a thread that saves has written to the temporary file. `crossed`, `tainted` and
`doubt` are history variables which only properties read.

| Code | Action |
|---|---|
| a route of `apis/devices.py` | `Request`: a sequence of operations, done one after the other and dropped at the first exception, as `update` does for a PATCH |
| `MinidspRsProtocol.onMessage` | `Notify`, `HandleMessage` |
| `_hydrate` | `StartHydrate`, `Hydrate` |
| `__send_cmds`: submit, and the result, exception or timeout of the future | `Submit`, `Complete`, `Fail`, `Timeout` |
| no commands can be generated | `Reject` |
| `_persist`, after each operation | `StartSave`, `Dump`, `Replace` |
| `__read_state_from_device` as a job | `ReadStatus` |
| `__do_run`: ask for the slot, select it, apply the commands | `FindSlot`, `FindSlotAgain`, `ChangeSlot`, `Run` |
| `__do_run` raises | `RunFails`, with whatever part of the commands was applied |
| outside | `RemotePreset`, `RemoteVolume`, `RemoteMute`, `Restart` |

A job whose caller timed out stays in the queue with nobody waiting
(`Orphaned`) and runs later. `FindSlot` and `Run` are separate because
they are separate processes on the machine; the remote control may act between them.

Recording the outcome of an operation and saving it are steps of their own, between which other threads act: `Dump` serialises the picture as
it is by then and `Replace` puts it in place. Two saves under way at once write the same temporary file. `PersistentDevice` follows that inode by inode;
here its outcome is taken to be anything it could be: the file holds what one of them wrote, or what it held before, or nothing that can be read, and the
rename may raise, which drops the rest of the request. `crossed` marks these saves, and that the file was last written by one of them. If the device is hydrated,
or the server restarted, while the file is so, the slots are tainted.

Abstracted: a filter is its title; gain and mute of a slot's inputs are one value; `_hydrate` assigns the fresh state and then
merges the file into it, which is one step here (`PersistentDevice` takes it apart). Not modelled: output gains and mutes, which take the same path as those
of inputs; biquads sent to no input; the option `ignoreRetcode`, with which a failing command counts as done and every title would be a guess; the test by which PATCH skips
a mute or volume equal to the one shown. Level polling is in `WsServer`, the commands
an operation is turned into are in `MinidspCommands`.

### CamillaDsp

`toDsp` and `toUs` are the two directions of the websocket, `link` and `stale`
whether it is up and whether the factory still holds a client that is gone,
`updater` is `__config_updater` with the change and the configuration it
made. A request thread goes through `Check` (test for `None`), `Claim` (assign), `Ask`
(send), since no lock makes these one. `OnGetConfig`, `OnSetConfig`,
`OnGetMaster` are the handlers; `Release` is the last line of `on_set_config`,
apart because a request may come in before it. An exception in a handler leaves what it
had not reached yet undone, which is what `onMessage` does by logging it. `Dsp`
answers the commands in order and may refuse them, `Drop` and `Open` lose
and restore the connection; `Open` sends what `on_open` sends.

The state is saved at the end of each call (`Save`) and in each handler that changes it (`Persist`). `Refresh`, `ReadFile` and `Merge` are `state(refresh=True)`, which
any client that lists the devices causes: the state is built anew and what the file has of it merged, which brings back the title, the gains and the volume, but
not the mute. A muted DSP is then shown as not muted until it tells its mute again, with nothing under way; `forgot` says
of volume and mute which a refresh has lost, and `MasterMatches` holds of the other. A refresh that overlaps a change or a save may lose the volume, the title and the gains as well
(`forgot`, `crossed`). A handler whose save meets that of a request thread may find the temporary file renamed already, and raise (`Clash`): like any other exception there it leaves
an update under way for ever, so `LoadEnds` excepts it (`clashed`).

A configuration is its BEQ filter, its channel gain and what it has for a pipeline,
the three things the handlers branch on. Volume and mute of the master are set, asked for and told apart;
gain and mute of channels are one value. The levels loop is in `WsServer`.

### Composite

Every operation is the same `__fan_out`, so there is one, `load`, which leaves its members
showing the value it stands for; `Takers` says which members do not skip it. `pool` is the executor: as many workers as members, tasks
in order. A thread goes through `hydrate` (`_load_initial_state`, if this is the first call),
`start`, then `ops` and `after` (`__fan_out` and `__refresh_members` waiting for
their futures) or, for `state()`, `read`. `Waited` is `wait(..., timeout)`: all futures are
there, or the deadline has passed - which it does not while a member that answers promptly is at work.
When a thread stops waiting its tasks stay in the pool as nobody's
(`Orphaned`).

`update` is a sequence of operations: `rest` are those to come. Each of them saves and broadcasts when it is done
(`Finish`), the first that raises ends the sequence (`NextOperation`), as does an entry that is not in the catalogue
(`UnknownEntry`), and the update saves and broadcasts once more (`Close`).

`CompositeDeviceState` does not hold copies but the state objects themselves. `view` says
for each member whether the object it holds is the one the member still uses (`Live`); if the member
has built another since, because of a refresh, it keeps the value the old one had (`Left`).
`detached` are threads that update a `CompositeDeviceState` which another thread has
replaced: `self._current_state.update_members(self.__read_all_states(...))` looks the state up first.

`late` is a history variable: members that changed when no broadcast was to follow, or could not be
read for the last one. `expected` is the value of the last operation if it was the only one
around and did not fail.

Left out: translation of slots (which is in `CompositeConfig`) and channels; `levels`; the file, which is never read
back (`_merge_state`).

### Catalogue

`json` and `ver` are the files `database.json` and `version.txt`, `rows`, `at` and `meta` the two
tables, `mem` the list of catalogues in memory, `remote` what the web site publishes. A version stands
for its content, so a row that says version 1 and holds the content of version 2 can be told. A
catalogue's `count` is the sequence of contents that were counted, not their number.

| Code | Action |
|---|---|
| `__load_catalogues` | `Start`, and if SQLite lacks something `Commit(Boot)`, `Raise(Boot)`, `Booted` |
| `__reload`, `DatabaseDownloader.__init__` | `Reload` |
| `run`: the two requests, then each file opened (truncated) and written | `Ask`, `Fetch`, `OpenJson`, `WriteJson`, `OpenVersion`, `WriteVersion` |
| `__do_reload` | `Check` |
| `__insert_catalogue`, one commit at a time | `Commit`, `Raise` |
| `__on_catalogue_update` | `OnCatalogueUpdate` |
| `__prune_entries`, one commit at a time | `PruneEntries`, `PruneMeta`, `PruneFails` |
| outside | `Publish`, `Day`, `Crash` |

An insertion keeps the database file open and reads on as it commits, so what it stores is what the file
holds at that moment. The prune pool has one worker; the version a prune keeps is the one that was
latest when it was queued. `Crash` is the death of the process, not of the machine: what was
written stays. `cut`, `unhealed` and `best` are history variables.

Assumed: versions only grow; all databases take the same number of commits; a day does not pass
during a reload or a prune; writing the version file does not fail, other than by a crash. Left out: the throttle of a minute (a reload may start at any time); the
reload at start-up that `sync_load` would make, since the configuration always says no; the search queries. Sending the
catalogue to a browser in chunks is in `WsServer`.

### Htp1

`toDevice` and `toUs` are the two directions of the websocket, `link` is `lost` as long as the factory has not
noticed that it is gone, `clients` is the list of the factory, which keeps a client that closed until a
message fails on it. Every caller, a request thread or the reactor, goes through `Begin` (hydration, and
whether there are channels to send to), `Send` twice (turn the equaliser on, then the filters) and `Settle`
(the title or `ERROR`, saved and broadcast). `OnMso` and `OnMsoUpdate` are the messages of the device; the second calls
`clear_filter` right there, on the reactor thread, so no other message is handled before that ends.

The power state is handled like the input and one value stands for both. Left out: which channels and filters are
sent, `activate`, and a device none of whose channels are configured.

### JRiver

A zone's equaliser (`block`) is a sequence of filters: those of the user, and the section ezbeq appends - a start mark, the
filters of the entry, an end mark. `EndMark` and `StartMark` are where the loop of `remove_beq_filter` leaves its two
indices, `Broken` when it raises, `Again` one round of `__remove_all_beq` and `Removed` what it makes of the block. A title with a
parenthesis or an ampersand (`Awkward`) is loaded, and from then on every call raises: the filters are cut at
each ")" and nothing is escaped, so the marks can no longer be parsed.

A call is `Begin`, `Get` (read the block, remove, append; all before the `try` of the code), `Post` and `Verify` (`set_dsp`, which reads
the block again and compares). A request that fails may have been carried out. `Fail` is the handler: that of
`clear_filter` shows `ERROR`, that of `load_filter` raises itself (`JRiverState` has no `slot`) and the old title stays. In
between the user may `Edit` the block: append a filter, remove one, spoil a section.

Left out: `update`, which fails before the state is loaded and otherwise makes these calls; `activate`; a server
that cannot list its zones (nothing happens then); zones that come and go; the numbers in a filter; an unanswered request that is carried out
later than the next one.

### OneSlotDevices

Three devices with one title, which differ in `kind` only: Q-SYS sends a command to each of its components (`SetComponent`), and an answer
that is an error or late (`Unanswered`) does not count as a failure; StormAudio makes one request and looks at the answer
(`Imported`, `Rejected`, `ImportTimeout`), and its `clear_filter` sends nothing; REAPER is given a text with a version
(`Pushed`, `Retry`, `Refused`), which the script reads and applies at its own pace (`Poll`). `wire` holds requests that were given up and that the
device may handle yet (`Late`). `Settle` is the title or `ERROR`, saved and broadcast.

| Code | Action |
|---|---|
| `load_filter`, `clear_filter` | `Begin`, the requests, `Settle` |
| `_hydrate`, `activate` | `State`, `Activate`; `Remembered` is `_merge_state`, which for Q-SYS looks for a slot of another name and finds nothing |
| `poll_once` of `proq4_apply_filters.lua` | `Poll`, `ScriptRestart` |
| outside | `Late`, `Restart` |

Left out: what is in a payload, the padding to ten filters (a Q-SYS entry with more than ten is sent as it is), a REAPER that is restarted (whether it keeps the text
depends on how it was set).

### MinidspCommands

`layout` is the descriptor: each device type of `make_peq_layout`, with the options that change its routes - the channels to take BEQ of a DDRC-88 or HTx are
any list of `SwChannels` - and those made of a `descriptor` of the configuration (`CustomLayout`, for any list of routes in `Described`). `device` is what each biquad of the DSP holds
(a number for its coefficients, and whether it is bypassed), `gain` and `gains` what the inputs have and what is shown. The operators before the operations are the algorithm:
`Allocated` (`BeqFilterAllocator`), `Filt`, `BiquadsOf`, `GainInputs`, `ClearedInputs` make sequences of commands, and `Run` is the DSP. `LoadFails` and `ClearFails` leave off half way.
The reference they are checked against is `EntryExact`, which says nothing about allocation or order: whichever channel of each route a signal passes, each filter of the entry is in its way
exactly once.

What is assumed of a descriptor is `DescribesDevice`. The code checks little of it: that the keys are there, that the numbers are numbers. The documentation (`src/README.md:440`) asks for
one route of each name, groups for the crossover only, and lists of channels and slots that the device has; a list in which a slot, or a group, is twice, a second route of a name, or a slot
beyond the biquads of its route are left out. The ten slots that it says must be set aside are not assumed: an entry that does not fit is refused (`TooMany`). An HTX or
DDRC-88 takes channels 0 to 7.

A clear shows a gain of 0 for each input of the descriptor, but resets only the inputs of a route that takes BEQ, and by their numbers on the device: `unsure` has the channels
for which these differ, and `ContentsExact` excepts them.

Left out: biquads of a user on devices that have fewer than ten (commands then
address biquads that do not exist); mutes, which go the way of gains; output gains, which nothing resets.

### CompositeConfig

`cfg` is a whole configuration, from `Configurations`. `Start` checks it and builds `specs` (`__build_specs`) and `hidden`; `Ask` is a request for a
slot as the composite shows it (`ShownAs`: `serialise` with the inverted slot map), and `done` are the members that get it, each for the slot
`__translate_slot` makes of it. A mapped composite whose members are a list passes some of the checks or none and then fails on `.get` (`NoRules`); the server
does not start either way.

`SlotMeant` leaves out ids that are shown for two slots (`clear`). The example of `src/README.md:860-862` is one of these, if `side_sub` were primary as it says there: with `slotMap: {'1': '3', '2': '4'}` its slots 3 and 4
are shown as 1 and 2, and so are its slots 1 and 2, which the inverted map does not mention; a user who picks either gets 3 or 4.

Left out: `channelMap`, `mvAdjust`; `primary` of a composite in mirror mode that is not a member is taken for the first member, as in the code.

### WsServer

`clients` is `__clients`, a list because its order and positions matter: a request thread that broadcasts is at position `cursor`, and `Leave` shifts what follows the
client that goes, so that the one that moves up is passed over (`missed`). `Discard` and `RemoveDead` are the test and the removal of `unregister`,
which on a request thread are not one step. `view` says for each client and device whether what it was sent last is the current state. A registration is `Register`, `ReadState`,
`SendState`, since a request may change the state after it was read. The reactor is one thread: while it is in a registration (`reactor`) it handles nothing else.

`linked` are the CamillaDSPs that are connected (`Link`). `Ask` sends two questions: without a connection the first may be dropped, the second raises and the timer is not set
again, whoever listens. `loops` counts the timers of each device. A `Polled` device is a Minidsp without a websocket of its own, `Asked` is CamillaDSP, `Pushed` a Minidsp with a websocket. `SomebodyHeard`
is what `send_levels` returns: the number of clients that were found gone against the length of the list they have been removed from
by then. `silenced` are devices whose last loop ended for that reason, because of a timeout, or because CamillaDSP was not connected.

`LoadNextChunk` runs on any thread and hands the next chunk on before its own is sent; `SendChunk` is the callback on the reactor. `offset`, `ready` and `got` follow one catalogue per run.

Assumed: requests to one device do not overlap (there is one request thread for each).

Left out: the `meta` message; `broadcast_error`; a connection that sends nonsense.

## Properties and runs

| Run | Question | Bounds |
|---|---|---|
| `persistent_serial` | Do memory, file and browsers agree when calls do not overlap, with refreshes and a crash between any two steps? (`NoPartialWrite`, `CopiesAgree`, `StateIsLoaded`, `IsRegister`) | 2 threads, 3 calls or refreshes, 2 values of each part of a state, 3 inodes |
| `persistent_overlap` | And when two calls overlap? *Violated.* | 2 threads, 2 calls |
| `minidsp_requests` | Is what is shown for a slot what the DSP holds, and what is in the file, with timeouts, abandoned jobs, half-applied commands, saves that meet and restarts? (`TitleMeansLoaded`, `TrimsMatch`, `SavedIsShown`) | 2 threads, 2 slots, 2 requests (one kind has three operations), 2 failures or restarts |
| `minidsp_remote` | The same with `slotChangeDelay`, somebody at the remote control and websocket messages; is the master right, and does every request end? (`TitleMeansLoaded`, `MasterMatches`, `RequestsFinish`) | 2 requests or messages, 1 failure, 1 remote change |
| `minidsp_mute` | Is a mute by remote control, after the state was read, shown once its message is handled? *Violated.* | 2 requests or messages, 1 remote change |
| `camilla` | Are title, gains and master right at rest, and do loads end, when configurations are refused, a reading fails, the connection drops, or the state is built anew from the file? (`TitleUncrossed`, `GainsMatch`, `MasterMatches`, `LoadEnds`) | 1 thread, 2 calls (two loads, a change of gains, of the volume, of the mute), 1 trouble (a failing reading, a lost connection or a refresh), 3 kinds of pipeline; the master is muted and quiet at the start |
| `camilla_overlap` | Is a title shown only if it is loaded when two loads overlap? *Violated.* | 2 threads, 2 calls |
| `camilla_stuck` | Does a change of gains end? *Violated.* | 1 call |
| `composite` | After a success, do the members agree? After any call, do clients see what the members show? Does every call end, whatever a slow member does? (`InStep`, `ShownIsCurrent`, `CallsEnd`) | 2 members, one slow and one prompt that skips an operation; 2 threads, one of which makes updates of two operations; 2 requests, 1 task that raises or direct use of a member |
| `devices` | HTP-1: is a title shown that of the filters the device holds, and does a change of input that ezbeq heard of clear them? J River: do the filters of the user survive every call, and is the title the one whole section in the block? Q-SYS, StormAudio, REAPER: does a title say what every part of the device holds? Minidsp: do the commands do what is meant and no more? Configuration: does one that is accepted do what it says? (`Htp1TitleMeansLoaded`, `Htp1ClearedOnChange`, `JRiverOthersKept`, `JRiverTitleMeansLoaded`, `OneSlotTitleMeansLoaded`, `CommandsExact`, `ConfigurationSound`) | 2 failures each. HTP-1: 1 thread and the reactor, 2 entries, 2 inputs, 2 calls, 1 change. J River: 2 threads, 1 zone, 2 entries, one of them awkward, 3 calls, 2 edits. One slot: 2 threads, 2 entries, one invalid, 2 components, 2 attempts, 3 calls. Commands: 3 lists of channels for a DDRC-88 or HTx and 3 descriptors of a configuration, 17 in all, 2 operations. Configuration: 3 devices, 2 composites, 37,632 configurations |
| `ws_server` | Does any client keep an outdated state? Do levels come as long as somebody listens, and stop when nobody does? Does a catalogue arrive whole? (`Informed`, `LevelsKeepComing`, `WholeCatalogue`, `LoopsEnd`) | 2 connections, 3 devices, one of them with requests, one with a connection that comes and goes, 2 loops for each, 3 entries in 2 chunks, 1 prune |
| `catalogue` | Is the version shown as latest whole, with all its meta values? Do clients ever go back? Is the newest version loaded in the end? (`LatestIsWhole`, `MetaIsWhole`, `NeverBack`, `CatchesUp`) | 3 versions of 2 commits and 2 meta types, 1 reload at a time, 2 failures (a request, an exception, a crash), 1 day |

Why the bounds are enough. The hazards of Minidsp are races between what two
callers want of one queue: two threads, one of whose jobs may be abandoned and run
after the other's. A request of three operations does what three later requests do one after the other, so that with it two requests show what an abandoned
job leaves, and its undoing; two failures or restarts show what is made of a file after a failed command. Two slots are
needed for "the other slot". For CamillaDsp two calls, as the first
may end too early and the second take its reply: what on_open asks for is a third exchange in any case, and one trouble is enough to part them. For the composite one call leaves tasks behind and the
other meets them; an update with an operation that a member skips, beside one that all take, has one operation that may fail before another; one slow member is enough to keep a worker, one prompt member to see what it does to others.
For the HTP-1 one call meets what a lost connection or a restart left, the
second call repairs it; a change of input may fall before, between and after.
`devices` puts parts together that share nothing: the kind of part is chosen in the initial state and the rest stays `None`, so that it is five
checks in one. For J River and the devices with one slot two calls overlap and a third
meets what they left; zones share nothing but the cache file, so one is enough; the user spoils one mark and adds a filter.
For the commands two operations are one that leaves something and one that must undo it: every command sets a biquad to a
value that does not depend on what it held, so a third adds nothing. The configurations have each kind of mistake the checks look for, alone and with others.
For the websocket server two connections are one that leaves and one that is passed over; a third in the list was tried and shows nothing else; the broadcasts of two devices have nothing in common but the list.
For the catalogue three versions are one to be pruned, one to be kept and one that comes meanwhile; two commits are
the least that can be cut in half; a day has to pass once for anything to be pruned; one failure can
leave files and tables apart and a second one meets that state.
Counters that only bound
the instance (`MaxRequests`, `MaxFaults`, `MaxRemote`, `MaxCalls`, `MaxTroubles`) are in the guards of the actions they limit. Thread symmetry is
used in runs that check no liveness property. Deadlock is not checked since a bounded
instance stops when its requests are used up.

`tainted` and `doubt` (Minidsp) and `crossed` (CamillaDsp) say when the picture is
*expected* to be wrong, so that the properties can be exact everywhere else:

- a slot is tainted when two requests for it were under way at once, when commands
  landed on the wrong slot because someone switched between the two processes of
  `__do_run`, when the server was killed in a request for it, or when its state was read from a file that overlapping saves had spoilt;
- the gains of a slot, or the master, are in doubt when the last change to them
  failed or somebody used the remote control, until a change or a read succeeds;
- an update of CamillaDSP has crossed when it ended with its own messages still under
  way, or when it replaced one that another thread had started after both had found none. This takes two updates at once, or `on_open`'s `GetConfigJson` crossing the
  update's own when the connection comes up: the configuration is then sent twice
  and answered twice. Or a refresh of the state overlapped a change or a save, and built it from what was in the file before. `GainsMatch` also asks that no reading of the
  configuration failed: without one, the gains shown stay what they were;
- the title of an HTP-1 is in doubt from a call that overlapped another, found no channels to send to (the device has
  not reported its state yet: the code logs "Nothing to send" and shows the title), or whose messages were lost with the connection, to the
  next call that did not. A change of input is `missed` when it was not reported, since `on_mso` takes over the input
  without clearing anything;
- a zone of J River is in doubt when its user changed the section, when calls of it overlapped, or when a load
  failed after it had written; a zone is `overrun` when the user changed it between the reading and the writing of a call;
- the title of a device with one slot is in doubt when calls overlapped or were cut off, when a component of Q-SYS did not take its
  command, when a Q-SYS was restarted (it does not find its title again), and when a request that was given up is handled after a newer one;
- the gains of a Minidsp are unsure on the third input and further when they were set without a channel (commands go to the first two), and after
  a clear on inputs whose own number is not the one they are shown under;
- a client has missed a state when somebody before it left the list during the broadcast, or when the state it was sent on registering was
  older than a broadcast it had got already. The next broadcast makes that good;
- a version of the catalogue is `cut` when the insertion of it was cut short by a crash or an exception. Its
  version file is there already, so it is not loaded again until another version is
  published, and after a restart the rows it has are taken for all of it;
- a start is `unhealed` when it wanted to insert from the files and those were missing, truncated, or of
  another version than the latest in SQLite (the values of one version are then
  stored under another).

Fairness. `Minidsp`: weak fairness of each request thread, including the timer of its
future, and nothing else: the executor, the `minidsp` process and the outside world may stop for ever, and requests still end.
`Composite`: request threads run and so do prompt members; a slow member, while it has a worker, need not answer at all.
`CamillaDsp`: request threads run, the reactor handles what arrived, the DSP
answers, and the factory - a `ReconnectingClientFactory` - reconnects. Connections
are lost at most `MaxTroubles` times. `Catalogue`: the server is started again after a crash, and reloads, being due
every few minutes and running on threads of their own, go on; failures are bounded by `MaxFaults`. The
prune pool need not run. `WsServer`: the reactor ends the event it is at, its timers come due, and a connection that broke is reported closed in the end; nothing is assumed of requests,
clients or the threads that load chunks, nor that CamillaDSP stays connected. `Informed` rests on requests to one device coming one after the other: two that overlap could each
broadcast its message after the other's, and nothing in the code orders them (the hazard at `device.py:404` is of the same kind). `PersistentDevice` states no liveness property.

Every property has a mutant in `PROJECT.json`: a plausible slip in the code it watches,
stated as an operator of the module next to the definition it changes, with which the run fails.

## Findings

1. **The cache file can be empty** (`persistent_overlap`). All calls of a device write the
   same `<name>.json.tmp`. If one opens it while another is about to rename it, the rename
   puts a truncated file in place. A refresh or a restart then loses titles and gains.
2. **A mute by remote control is not shown** (`minidsp_mute`). `on_ws_message` assigns to
   `MinidspState.mute`, a property without a setter; the exception is logged, and an
   active slot that changed in the same message is lost as well. It takes a state that was read before the
   mute: a device that hydrates only then reads the mute of the DSP.
3. **CamillaDSP may show a title that is not loaded** (`camilla_overlap`), because two
   loads both pass the test of `__config_updater` and the reply to the first is credited to the second.
4. **CamillaDSP refuses everything after a change of gains** on a configuration without a
   pipeline (`camilla_stuck`): `create_cfg_for_gains` raises in the reply handler and
   nothing resets `__config_updater`. A change of gains before any gains are known has
   the same effect through `on_set_config`, and so has a save of the handler that meets that of a request (finding 1).

## Proofs

`tlapm` checks these for every value of the constants that meets the named assumptions: `PersistentDeviceAssumption`,
`MinidspAssumption` and `NoFileAssumption`, `CamillaAssumption`, `CompositeAssumption`, `WsServerAssumption`, `CatalogueAssumption`, `DevicesAssumption`. They say that the
special values are not among the ordinary ones, that sets of members are finite, that requests are requests. So the theorems speak of any number
of threads, slots, members, connections, requests, failures and restarts where the runs have two or three. One of them,
`ConfigurationsAreSound`, states in the theorem what it needs: that what is configured has the shape of a configuration.

*PersistentDevice_proofs.* `TypeCorrect` and `StateLoaded` hold with overlapping calls too. They come from
`BaseInv`, type correctness with what each position says: a thread past `load` works with a state,
one at `close` has a file open, and so on; a thread's place must be part of the invariant
because `_persist` writes whatever state another call left.
`WholeFile`, `Agree` and `Refinement` assume `Overlap = FALSE`. Their invariant, `SerialInv`, is
`OneCall` (at most one thread is busy), `InHand` (what that thread has in its buffer and its
file is the current state), `FileWhole` and `Agreement`. `NoPartialWrite` alone is not
inductive: that the rename puts a whole state in place follows from `InHand`.
For the refinement, `func` maps to `Change`, `load` and `merge` to `Reload`,
`replace` to `Save`, `Restart` to `Crash`, and every other step to a stutter.

*Minidsp_proofs.* `TypeCorrect`, from `TypeInv`: `ThreadsOK`, `WorkerOK`, `PictureOK`,
`HistoryOK`, and that a thread that is not idle has an operation to do, and a worker past
its first step a job to run - otherwise `Head` of an empty sequence is all that is known of
the operation. `FileIsCurrent` proves `SavedIsShown` from `SavedInv`: what a thread has written to the temporary file and not renamed yet is the picture as it still is,
unless its save overlaps another - whoever changes the picture goes on to save it, and crosses every save under way (`StartSaveCrosses`).

`TitlesAreTrue` and `TrimsAreTrue` rest on `SlotsInv`. The difficulty is a job that runs after its caller gave up: at rest
the slot must already agree with a queue that has not run yet. `JobsInv` says whose the jobs are: one that somebody waits for is the last thing he handed in and the only one under his name.
`ShownInv` says that the file has what is shown of every slot but those being saved or last written by overlapping saves (`Unsaved`), which is what a restart and a second hydration rely on. `FieldOK`, stated once and used for filters and gains alike, says it by cases: while
nobody is at work on the slot, what is shown is what the DSP holds and no abandoned job for it is left, or nothing is claimed (`ERROR`, or in doubt);
while somebody waits, his job is behind all others for the slot (the queue is first in, first out), and what it will leave is what he will show.

`MasterIsTrue` comes from `MasterInv`. The master may be changed on the DSP at any moment and is read by jobs that may be abandoned, so
the invariant follows one reading from the worker to the picture (`AskInv`, `ReadInv`), a message from the DSP to its handler (`MessageInv`), says that
only one user of the master is under way as long as it is not tainted (`OneUser`, `AloneInv`), and what is true when none is (`RestInv`). A device
that has not read the DSP yet is `ColdInv`.

*CamillaDsp_proofs.* `TypeCorrect`; `MasterIsTrue`, for volume and mute each on its own, from `Followed` (on its way to the DSP every change of it has a question behind it) and
`AnswersRight` (when no question is on its way, the last answer on its way back is the truth); with none on its way back either, what is shown is (`MasterInv`). The volume is also in the file and in what a
refresh has read of it, so `VolumeIs` says of each place a refresh may take it from that it is right, and that no save and refresh overlap until it is given up (`forgot`); the mute is in memory only.
`TitleIsTrue` and `GainsAreTrue` come from
`UpdateInv`, which is asked as long as nothing crossed: at most one exchange is under way, and each message of it is tied to the updater that caused
it - the configuration set is the one it made from the configuration read (`SetsOK`), the answer is about that (`AnswersOK`), the reading is of what the DSP
holds (`ReadingsOK`), and title and gains are the same in memory, in the file and in what a refresh has read (`ViewsOK`). Replies do not say what they answer, so this correspondence is all there is to go by.

*Composite_proofs.* `TypeCorrect`. `MembersAgree` proves `InStep` from `StepInv`: who waits for a task of an operation has one for each member, still pending;
while the only operation around is under way, all such tasks are its own, and members that are done show its value. Late tasks of calls that gave up are
nobody's, which is why an operation counts as alone only if it found none. `BroadcastsAreCurrent` proves `ShownIsCurrent`: unless somebody is going to broadcast, a change of a member
is marked in `late`; that a task somebody waits for means a broadcast to come is the first half of `StepInv`.

*WsServer_proofs.* `TypeCorrect`, with no client twice in the list. `LevelsCome` (`LevelsKeepComing`) is about loops that end and start; `BroadcastsReach`
(`Informed`) follows a broadcast through a list that shrinks: who is before the cursor has the state, who is behind it will get it, or was passed over.
`CatalogueArrives` (`WholeCatalogue`): chunks loaded, waiting and sent are disjoint and cover what is before the offset, for any sizes.

*Catalogue_proofs.* `TypeCorrect` holds for any number of reloads that overlap; it takes `Stamped`, that no two versions are stored with the same time,
for a start to be able to sort them. `LatestFound`, `MetaFound` and `NeverOlder` are about behaviours in which no two reloads overlap
(`Spec /\ []Apart`): with two at once TLC finds the properties violated, and nothing in the code but a throttle of a minute keeps them apart (hazard `catalogue.py:598`).
They rest on one invariant, since none of the three is inductive without the others. At its heart is `Sound(v)`, what is to be true of a version that may be shown as the latest: nothing newer was
seen, it has rows unless it was cut short, no prune that is queued or may be reaches them, and the list has it. The last catalogue of the list is sound (`LatestSound`), or it is the blank version,
which an interrupted download leaves, and then either has rows of its own or hides a newest version that is sound (`Hidden`), since an update that finds the blank one a day old takes it out of the list again.
For that to survive the next step much has to be known of everything else: the order in which rows were loaded is that of their versions (`RowsOrdered`), which is what a restart relies on when it
takes the one loaded last; what was not cut short is whole but for the insertion that is filling it (`RowsWhole`); a queued prune keeps the version in the file, and what
was loaded after the version it is to keep (`RowsKept`); a download that goes on is of a version newer than all that are here (`Downloads`), and `Inserting` follows an insertion commit by commit. `Phases` says who may be under way at all,
`Booting` what a start has read before it appends. TLC checks all of these on the instance of `MCCatalogue.cfg` as well.

*Ordered_proofs.* A query with `ORDER BY` and a list comprehension with an `if` are defined by rank: the n-th element is the one with n elements up to it. That each rank belongs to exactly one
element needs induction over the size of a set, which the library's theorems offer only with an operator as a parameter. `NatLessThanWellFounded` and `WFMin` make do without: of all sets for which
a claim fails there would be one of least size, and that is refuted. The same gives the maximum of a finite set, which `Now` and `Seen` of `Catalogue` are about. `PickedAlike` says when two selections are equal - the same elements
in the same order, wherever they were - and `CutFacts` what is left of a sequence without a stretch of it; the proofs for J River use both.

*Devices_proofs.* `Htp1TitlesAreTrue` and `Htp1IsCleared` come from one invariant, `Htp1Inv`. What a call leaves is not what the device has but what it will have once it carried out the commands under way
(`WillHold`: the last of them that sets filters, or none does and it has them already), so a call may be done long before the device is. `Htp1Exact` is about the title then; `Reported` says how the reports under way follow
the input: the last one is the input as it is, neighbours differ exactly where a change was reported as such, and the first differs from what ezbeq knows unless it says so; so a change that was not missed is
either still in the list, or the reactor is clearing, or the filters will be gone (`Clearing`). `Connected` ties the link to the list of clients, without which a clear would have nobody to send to.

`OneSlotTitlesAreTrue` comes from `OneSlotInv`. A request that was given up may be handled at any time, so the invariant collects all who still have a claim on the device (`Claims`: requests given up and calls under way) and says that a
version stands for one title whoever has it (`Versions`), and of what the device got last that no request given up is newer (`Holds`). A request handled late is then either older, which is in doubt, or of the version the device has,
which changes nothing. For REAPER there is a second copy of this between the text and the script, which sees versions only; the script started again has seen none and applies what it finds.

`ConfigurationsAreSound`: whatever is configured, if the checks let it pass then gains and mutes go to all members or none, the primary gets the slot that was shown,
and no device is driven twice or out of sight.

`JRiverLeavesOthersAlone` and `JRiverTitlesAreTrue` come from `JRiverInv`, and most of the work is not in the steps but in the block, whose length nobody bounds. A section is two marks with nothing but filters of the
entry between them (`Encloses`), and a block is `Intact` if every filter that is not the user's is in one. In such a block `remove_beq_filter` cuts exactly one section out, from mark to mark (`WithoutFacts`, `Closes`), no other section is cut by that (`CutIntact`)
and the user's filters stay (`CutOwned`). `RemovedFacts` follows the loop of `__remove_all_beq` to its end, where no start mark is left: then there is no end mark either, or it raises, so what is left is the user's and all of it. A user who removes a mark leaves
a block that is not intact, and there the loop could cut too much; but marks that do not pair stay unpaired with every section removed, so the last round raises and nothing is written. Hence `Whole`: intact, or with unequal numbers of marks. `AppendedFacts` says that
the block written is whole again, holds the filters it was given and one section. What a thread writes is therefore known (`SentWhole`), and what ezbeq has in a zone is what the title kept for it says unless a thread that has written has yet to read (`JRiverExact`).

`CommandsAreExact` is about commands put together from lists of lists, by the slot, the channel and the filter, for any descriptor that is as the documentation asks. `FlattenSeq` is recursive, and what a recursive function does
for every input would be shown by induction over data, which the library offers only with an operator as a parameter. Here too the least counterexample serves (`Ordered_proofs`: `LeastNumber`): of all numbers of lists for which the first so many, put together, are not laid out row by row (`Laid`) there would be a
least, and `LaidNext` refutes it. `FlattenPlaces` then says where each element of a flattened list comes from, and that rows come in order. From it follows what is in the commands:

- `AllocatedFacts` and its like: the slots of an allocator are, one for one, the places (route, index, group) a descriptor sets aside for BEQ, the inputs first; no two slots have a biquad in common.
- `FiltFacts`: each filter is sent to every channel of its slot and to nothing else, and every channel of a slot that is left is bypassed. The last command to a biquad counts (`RunFacts`), and since no other slot
  has it, it is the one of its slot: `LoadedFacts`.
- `EntryLoaded`: on a path - one channel for each route that takes BEQ - the biquads passed correspond to the slots. So there are as many live ones as the entry has filters, with each of its filters once, and the
  inputs are filled before the outputs. What the biquads held before does not matter.
- `BiquadsLoaded` does the same for the biquads of a user: ten of the channel, or more if he sent more, are all set or bypassed.
- `DescriptorsFit`: every device type, and every list of routes with `DescribesDevice` once `CustomLayout` has put it in order, is a list of routes of which no two share a biquad (`Layout`).

The invariant is `CommandsInv`: the types and `ContentsExact` itself, which is inductive as it stands, because a load, a clear or biquads that overwrite a channel establish it from any contents of the right type, and every other operation that
touches the biquads gives up the claim (`Unknown`).

`TypeCorrect` puts together the type invariants of all five parts. That of `CompositeConfig` needs `Built`: that hidden members, and those asked, are devices of the configuration is what the checks are for.

TLC finds `Htp1Inv`, `OneSlotInv`, `JRiverInv` and `CommandsInv` to hold on the instance of `MCDevices.cfg`, the first two with two changes of input or three attempts as well; no run repeats that, since they are proved.

Only model-checked:

- Liveness under fairness (`RequestsFinish`, `LoadEnds`, `CallsEnd`, `LoopsEnd`, `CatchesUp`), which is out of this prover's reach.

## Plan

In this order, most important first:

1. *(done)* `StateRegister`, `PersistentDevice`, `Minidsp`, `CamillaDsp`, first theorems.
2. *(done)* `Composite`: fan-out with one deadline over a pool, late members, the refresh
   afterwards, updates.
3. *(done)* `Catalogue`.
4. *(done)* The other devices with one slot: HTP-1, J River, Q-SYS, StormAudio and REAPER.
5. *(done)* `WsServer`: clients, level subscriptions, state providers, chunks.
6. *(done)* `MinidspCommands` (`BeqFilterAllocator` and the command generator) and `CompositeConfig` (`_validate_composite_configs`), checked against what they are to achieve.
7. *(done)* Proofs of the invariants of the passing runs, and of the refinement.

To come: the test by which a PATCH of a Minidsp skips what would not change anything.

## Not modelled

- The arithmetic of filters (`iir.py`): floating point, which neither TLC nor the provers have.
- The SQL of searches, and what the catalogue's entries contain.
- Configuration files and their defaults (`config.py`), start-up, static resources, the access log (`main.py`), the check for a newer version (`update.py`): they
  keep no state that could disagree with anything.
- The routes of the REST API beyond which operations they call: parsing, marshalling, status codes.
- The user interfaces.
- Minidsp: raw commands of a user, which are passed on unread; biquads of a user on a device with fewer than ten for a channel (what the device does with them is not in the code);
  descriptors of the configuration that are not as the documentation asks (two routes of a name, a slot twice or beyond the biquads of its route).
- Composite: `channelMap` and `mvAdjust`, which change numbers of a request and nothing else.
- REAPER restarting, and the padding of Q-SYS entries to ten filters.
