------------------------------ MODULE Devices ------------------------------
(***************************************************************************)
(* Parts of a server that have nothing to do with one another, and are     *)
(* looked at one at a time: a device of one of the types that Htp1, JRiver *)
(* and OneSlotDevices model, the commands for a Minidsp, the configuration *)
(* of composites.  What the part that is looked at has no use for is None. *)
(***************************************************************************)
EXTENDS Naturals

CONSTANTS
  CatalogueEntries, \* catalogue entries
  Threads,          \* request threads of a J River, Q-SYS, StormAudio or REAPER
  Htp1Threads,      \* request threads of an HTP-1
  Reactor,          \* the reactor thread
  Inputs,           \* inputs of an HTP-1
  AutoClear,        \* autoclear of its configuration
  Zones,            \* the zones of a J River
  Awkward,          \* entries whose title has a parenthesis or an ampersand
  Own,              \* filters that a user of J River may add
  Unsupported,      \* entries with values StormAudio does not support
  Components,       \* how many components Q-SYS has
  Attempts,         \* how often a request to REAPER is made
  SwChannels,       \* channels to take BEQ of a DDRC-88 or HTx
  Described,        \* routes of a Minidsp that the configuration describes
  Configurations,   \* what may be written in the configuration
  None,             \* no value
  MaxCalls,         \* bound on requests
  MaxHtp1Calls,     \* bound on requests to an HTP-1
  MaxFaults,        \* bound on what fails, and on restarts
  MaxChanges,       \* bound on changes of the input of an HTP-1
  MaxEdits,         \* bound on what a user does to a J River
  MaxSteps          \* bound on commands

VARIABLES
  kind, hydrated, last, file, pc, doubt, calls, faults,    \* every device has these
  title,                                                   \* all but a J River
  filters, source, link, clients, toDevice, toUs, known, input,
  changed, missed, changes,                                \* an HTP-1
  block, op, sent, own, overrun, overlap, edits,           \* a J River
  loaded, ext, at, seen, wire, version, step,              \* Q-SYS, StormAudio, REAPER
  layout, device, gain, gains, holds, unsure, steps,       \* commands
  cfg, outcome, specs, hidden, request, done               \* configuration

H == INSTANCE Htp1 WITH Entries <- CatalogueEntries, Threads <- Htp1Threads,
                        MaxCalls <- MaxHtp1Calls

J == INSTANCE JRiver WITH Entries <- CatalogueEntries

O == INSTANCE OneSlotDevices WITH Entries <- CatalogueEntries, Invalid <- Unsupported

M == INSTANCE MinidspCommands

\* The set as TLC evaluates it, once.
Written == Configurations

C == INSTANCE CompositeConfig WITH Configurations <- Written

-----------------------------------------------------------------------------
ASSUME DevicesAssumption == H!Constants /\ J!Constants /\ O!Constants /\ M!Constants

NoHtp1 ==
  /\ filters = None /\ source = None /\ link = None /\ clients = None
  /\ toDevice = None /\ toUs = None /\ known = None /\ input = None
  /\ changed = None /\ missed = None /\ changes = None

NoJRiver ==
  /\ block = None /\ op = None /\ sent = None /\ own = None
  /\ overrun = None /\ overlap = None /\ edits = None

NoOneSlot ==
  /\ loaded = None /\ ext = None /\ at = None /\ seen = None /\ wire = None
  /\ version = None /\ step = None

NoDevice ==
  /\ hydrated = None /\ last = None /\ file = None /\ pc = None /\ title = None
  /\ doubt = None /\ calls = None /\ faults = None
  /\ NoHtp1 /\ NoJRiver /\ NoOneSlot

NoCommands ==
  /\ layout = None /\ device = None /\ gain = None /\ gains = None
  /\ holds = None /\ unsure = None /\ steps = None

NoConfig ==
  /\ cfg = None /\ outcome = None /\ specs = None /\ hidden = None
  /\ request = None /\ done = None

Init ==
  \/ kind = "htp1" /\ H!Init /\ NoJRiver /\ NoOneSlot /\ NoCommands /\ NoConfig
  \/ kind = "jriver" /\ J!Init /\ title = None /\ NoHtp1 /\ NoOneSlot /\ NoCommands /\ NoConfig
  \/ O!Init /\ NoHtp1 /\ NoJRiver /\ NoCommands /\ NoConfig
  \/ kind = "commands" /\ M!Init /\ NoDevice /\ NoConfig
  \/ kind = "configuration" /\ C!Init /\ NoDevice /\ NoCommands

common == <<hydrated, last, file, pc, doubt, calls, faults>>
htp1 == <<filters, source, link, clients, toDevice, toUs, known, input, changed, missed, changes>>
jriver == <<block, op, sent, own, overrun, overlap, edits>>
oneSlot == <<loaded, ext, at, seen, wire, version, step>>
devices == <<common, title, htp1, jriver, oneSlot>>
commands == <<layout, device, gain, gains, holds, unsure, steps>>
config == <<cfg, outcome, specs, hidden, request, done>>
vars == <<kind, devices, commands, config>>

Htp1Step == kind = "htp1" /\ H!Next /\ UNCHANGED <<kind, jriver, oneSlot, commands, config>>
JRiverStep ==
  kind = "jriver" /\ J!Next /\ UNCHANGED <<kind, title, htp1, oneSlot, commands, config>>
OneSlotStep == kind \in O!Kinds /\ O!Next /\ UNCHANGED <<htp1, jriver, commands, config>>
CommandsStep == kind = "commands" /\ M!Next /\ UNCHANGED <<kind, devices, config>>
ConfigStep == kind = "configuration" /\ C!Next /\ UNCHANGED <<kind, devices, commands>>

Next == Htp1Step \/ JRiverStep \/ OneSlotStep \/ CommandsStep \/ ConfigStep

Spec == Init /\ [][Next]_vars

-----------------------------------------------------------------------------
(* The properties of the modules, for the part that is there.              *)

\* The type invariants of the five modules.
TypeOK ==
  /\ kind = "htp1" => H!TypeOK
  /\ kind = "jriver" => J!TypeOK
  /\ kind \in O!Kinds => O!TypeOK
  /\ kind = "commands" => M!TypeOK
  /\ kind = "configuration" => C!TypeOK

\* The title of an HTP-1 says what filters it has (TitleMeansLoaded of Htp1).
Htp1TitleMeansLoaded == kind = "htp1" => H!TitleMeansLoaded

\* A change of input clears the filters of an HTP-1 (ClearedOnChange of Htp1).
Htp1ClearedOnChange == kind = "htp1" => H!ClearedOnChange

\* ezbeq leaves the filters of a J River's user alone (OthersKept of JRiver).
JRiverOthersKept == kind = "jriver" => J!OthersKept

\* The title of a zone of a J River says what ezbeq has in it
\* (TitleMeansLoaded of JRiver).
JRiverTitleMeansLoaded == kind = "jriver" => J!TitleMeansLoaded

\* The title of a Q-SYS, a StormAudio or a REAPER says what it holds
\* (TitleMeansLoaded of OneSlotDevices).
OneSlotTitleMeansLoaded == kind \in O!Kinds => O!TitleMeansLoaded

\* Commands do to a Minidsp what is meant and no more (ContentsExact of
\* MinidspCommands).
CommandsExact == kind = "commands" => M!ContentsExact

\* A configuration that ezbeq starts with does what it says (Sound of
\* CompositeConfig).
ConfigurationSound == kind = "configuration" => C!Sound
=============================================================================
