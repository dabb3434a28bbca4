----------------------------- MODULE Catalogue -----------------------------
(***************************************************************************)
(* The catalogue of ezbeq (ezbeq/catalogue.py, classes Catalogues and      *)
(* DatabaseDownloader).                                                    *)
(*                                                                         *)
(* A reload asks the web site for the version it publishes and, if it is   *)
(* another than that in the version file, downloads the database into a    *)
(* file, writes the version file, inserts the entries into SQLite a        *)
(* thousand at a time, then the values of each meta type, and appends the  *)
(* new catalogue to the list in memory, whose last element is what clients *)
(* see.  Another thread prunes what is older than a day.  A start takes    *)
(* the version inserted last for the latest, and goes back to the files    *)
(* if SQLite has nothing or lacks meta values.                             *)
(*                                                                         *)
(* None of this is one transaction, and the process may die at any step.   *)
(***************************************************************************)
EXTENDS Naturals, FiniteSets, SequencesExt, Ordered

CONSTANTS
  MaxVersion,  \* bound on the versions the web site publishes
  Chunks,      \* how many commits the entries of a version take
  MetaTypes,   \* how many meta types there are, with a commit each
  Reloads,     \* reloads that may be under way at once
  Boot,        \* the insertion from the files while the server starts
  None,        \* no value, no file
  Torn,        \* a file which was truncated and not yet written
  MaxFaults,   \* bound on requests that fail, exceptions and crashes
  MaxDays      \* bound on how often a day passes

ASSUME CatalogueAssumption ==
  /\ {MaxVersion, Chunks, MetaTypes} \subseteq Nat \ {0}
  /\ {MaxFaults, MaxDays} \subseteq Nat
  /\ IsFiniteSet(Reloads) /\ Boot \notin Reloads
  /\ None # Torn /\ {None, Torn} \cap Nat = {}

\* What the web site publishes; a version stands for its content too.
Versions == 1..MaxVersion

\* The version read from an empty version file.
Blank == 0
Names == Versions \cup {Blank}

Types == 1..MetaTypes
Jobs == Reloads \cup {Boot}

VARIABLES
  remote,    \* the version published
  json,      \* the content of database.json
  ver,       \* the content of version.txt
  rows,      \* table catalogue_entry: the contents of the chunks, by version
  at,        \* loaded_at of those rows
  meta,      \* table catalogue_meta: the types with values, by version
  mem,       \* Catalogues.__catalogues
  up,        \* what the server process does
  pc, job,   \* what each reload or insertion does, and what it knows
  prunes,    \* calls queued in the prune pool, by the version they keep
  pruning,   \* the version kept by the call that is half done
  dayMark,   \* rows loaded until then are more than a day old
  cut,       \* history: versions whose insertion was cut short
  unhealed,  \* history: this start needed files that were not there or not of the
             \* latest version
  best,      \* history: the newest version clients have seen, none that was cut
  faults, days  \* counters for the bounds

fileVars == <<json, ver>>
dbVars == <<rows, at, meta>>
jobVars == <<pc, job>>
pruneVars == <<prunes, pruning>>
historyVars == <<cut, unhealed, best>>
vars == <<remote, fileVars, dbVars, mem, up, jobVars, pruneVars, dayMark, historyVars,
          faults, days>>

\* What a reload knows: the version file as it found it, the version it
\* downloads (then: inserts), the content it got, whether the download asks
\* for an insertion; the insertion's meta_only, its file, what it has parsed,
\* its next commit and its time.
Job == [cached : Names, version : Names \cup {None}, got : Versions \cup {None},
        required : BOOLEAN, only : BOOLEAN, of : Versions \cup {None, Torn},
        parsed : Seq(Versions), next : 0..(Chunks + MetaTypes + 1), at : Nat]

NoJob == [cached |-> Blank, version |-> None, got |-> None, required |-> FALSE,
          only |-> FALSE, of |-> None, parsed |-> <<>>, next |-> 0, at |-> 0]

\* count stands for the entries that were counted.
Catalog == [version : Names, count : Seq(Versions), meta : SUBSET Types, at : Nat]

\* The type invariant.
TypeOK ==
  /\ remote \in Versions
  /\ json \in Versions \cup {None, Torn}
  /\ ver \in Names \cup {None}
  /\ rows \in [Names -> Seq(Versions)]
  /\ at \in [Names -> Nat]
  /\ meta \in [Names -> SUBSET Types]
  /\ mem \in Seq(Catalog)
  /\ up \in {"down", "boot", "up"}
  /\ pc \in [Jobs -> {"idle", "ask", "fetch", "open", "write", "openVersion",
                      "writeVersion", "check", "insert", "append"}]
  /\ job \in [Jobs -> Job]
  /\ prunes \in Seq(Names)
  /\ pruning \in Names \cup {None}
  /\ dayMark \in Nat
  /\ cut \subseteq Names
  /\ unhealed \in BOOLEAN
  /\ best \in Names
  /\ {faults, days} \subseteq Nat

Init ==
  /\ remote = 1
  /\ json = None /\ ver = None
  /\ rows = [v \in Names |-> <<>>]
  /\ at = [v \in Names |-> 0]
  /\ meta = [v \in Names |-> {}]
  /\ mem = <<>> /\ up = "down"
  /\ pc = [j \in Jobs |-> "idle"] /\ job = [j \in Jobs |-> NoJob]
  /\ prunes = <<>> /\ pruning = None
  /\ dayMark = 0
  /\ cut = {} /\ unhealed = FALSE /\ best = Blank
  /\ faults = 0 /\ days = 0

-----------------------------------------------------------------------------
\* latest and loaded.
Latest == Last(mem)
Loaded == mem # <<>> /\ Latest.version # Blank /\ Latest.count # <<>>

\* A moment after everything that is still known.
Now ==
  1 + Max({dayMark} \cup {at[v] : v \in Names} \cup {job[j].at : j \in Jobs}
                    \cup {mem[i].at : i \in DOMAIN mem})

Fault == faults < MaxFaults /\ faults' = faults + 1

Seen(cats) ==
  LET last == {cats[i].version : i \in {Len(cats)} \cap DOMAIN cats}
  IN  Max({best} \cup (last \ cut))

\* An insertion begins: __insert_catalogue opens the database file.
Insertion(j, version, only) ==
  [job[j] EXCEPT !.version = version, !.only = only, !.of = json,
          !.parsed = <<>>, !.next = 1, !.at = Now]

\* Job j goes on at the given place, or ends.
Goto(j, place) ==
  /\ pc' = [pc EXCEPT ![j] = place]
  /\ job' = IF place = "idle" THEN [job EXCEPT ![j] = NoJob] ELSE job

-----------------------------------------------------------------------------
(* Start of the server: __load_catalogues.                                 *)

\* Mutant of Stored: the one loaded last comes first.
StoredDescending == Reverse(Ascending({v \in Names : rows[v] # <<>>}, at))

\* The versions in the database, the one loaded last at the end.
Stored == Ascending({v \in Names : rows[v] # <<>>}, at)

Read(versions) ==
  [i \in DOMAIN versions |->
    LET v == versions[i]
    IN  [version |-> v, count |-> rows[v], at |-> at[v],
         meta |-> IF i = Len(versions) THEN meta[v] ELSE {}]]

\* Mutant of Incomplete: the latest catalogue has no meta values at all.
IncompleteIfEmpty(cats) == cats # <<>> /\ Last(cats).meta = {}

\* The latest catalogue lacks values of some meta type.
Incomplete(cats) == cats # <<>> /\ Last(cats).meta # Types

Start ==
  /\ up = "down"
  /\ LET cats == Read(Stored)
         wanting == cats = <<>> \/ Incomplete(cats)
         files == json # None /\ ver # None
         match == cats # <<>> => /\ ver = Last(cats).version
                                 /\ Range(Last(cats).count) \subseteq {json}
     IN  /\ mem' = cats
         /\ prunes' = IF Len(cats) > 1 THEN Append(prunes, Last(cats).version) ELSE prunes
         /\ IF wanting /\ files
            THEN /\ up' = "boot"
                 /\ pc' = [pc EXCEPT ![Boot] = "insert"]
                 /\ job' = [job EXCEPT ![Boot] = Insertion(Boot, ver, Incomplete(cats))]
            ELSE up' = "up" /\ UNCHANGED jobVars
         /\ best' = IF up' = "up" THEN Seen(cats) ELSE best
         /\ unhealed' = (wanting /\ ~(files /\ match))
  /\ UNCHANGED <<remote, fileVars, dbVars, pruning, dayMark, cut, faults, days>>

-----------------------------------------------------------------------------
(* Download: __do_reload, DatabaseDownloader.                              *)

\* The timer, or a request that finds the catalogue stale.
Reload(r) ==
  /\ up = "up" /\ pc[r] = "idle"
  /\ pc' = [pc EXCEPT ![r] = "ask"]
  /\ job' = [job EXCEPT ![r].cached = IF ver # None /\ json # None THEN ver ELSE Blank]
  /\ UNCHANGED <<remote, fileVars, dbVars, mem, up, pruneVars, dayMark, historyVars,
                 faults, days>>

\* __get_remote_catalogue_version: if that fails the database is downloaded.
Ask(r) ==
  /\ pc[r] = "ask"
  /\ \/ /\ job' = [job EXCEPT ![r].version = remote]
        /\ pc' = [pc EXCEPT ![r] = IF remote = job[r].cached THEN "check" ELSE "fetch"]
        /\ UNCHANGED faults
     \/ Fault /\ pc' = [pc EXCEPT ![r] = "fetch"] /\ UNCHANGED job
  /\ UNCHANGED <<remote, fileVars, dbVars, mem, up, pruneVars, dayMark, historyVars, days>>

\* Without a download the version is that of the file.
NotDownloaded(r) ==
  /\ pc' = [pc EXCEPT ![r] = "check"]
  /\ job' = [job EXCEPT ![r].version = job[r].cached, ![r].got = None]

Fetch(r) ==
  /\ pc[r] = "fetch"
  /\ \/ /\ job' = [job EXCEPT ![r].got = remote]
        /\ pc' = [pc EXCEPT ![r] = "open"]
        /\ UNCHANGED faults
     \/ Fault /\ NotDownloaded(r)
  /\ UNCHANGED <<remote, fileVars, dbVars, mem, up, pruneVars, dayMark, historyVars, days>>

OpenJson(r) ==
  /\ pc[r] = "open"
  /\ json' = Torn
  /\ Goto(r, "write")
  /\ UNCHANGED <<remote, ver, dbVars, mem, up, pruneVars, dayMark, historyVars,
                 faults, days>>

\* Without a version only the database is written.
WriteJson(r) ==
  /\ pc[r] = "write"
  /\ \/ /\ json' = job[r].got
        /\ job' = [job EXCEPT ![r].required = TRUE, ![r].got = None]
        /\ pc' = [pc EXCEPT ![r] = IF job[r].version = None THEN "check" ELSE "openVersion"]
        /\ UNCHANGED faults
     \/ Fault /\ NotDownloaded(r) /\ UNCHANGED json
  /\ UNCHANGED <<remote, ver, dbVars, mem, up, pruneVars, dayMark, historyVars, days>>

OpenVersion(r) ==
  /\ pc[r] = "openVersion"
  /\ ver' = Blank
  /\ Goto(r, "writeVersion")
  /\ UNCHANGED <<remote, json, dbVars, mem, up, pruneVars, dayMark, historyVars,
                 faults, days>>

WriteVersion(r) ==
  /\ pc[r] = "writeVersion"
  /\ ver' = job[r].version
  /\ Goto(r, "check")
  /\ UNCHANGED <<remote, json, dbVars, mem, up, pruneVars, dayMark, historyVars,
                 faults, days>>

\* Mutant of Check: "and" for "or".
CheckBoth(r) ==
  /\ pc[r] = "check"
  /\ IF job[r].required /\ ~Loaded /\ json # None
     THEN /\ pc' = [pc EXCEPT ![r] = "insert"]
          /\ job' = [job EXCEPT ![r] = Insertion(r, job[r].version, FALSE)]
     ELSE Goto(r, "idle")
  /\ UNCHANGED <<remote, fileVars, dbVars, mem, up, pruneVars, dayMark, historyVars,
                 faults, days>>

\* __do_reload after the download.
Check(r) ==
  /\ pc[r] = "check"
  /\ IF (job[r].required \/ ~Loaded) /\ json # None
     THEN /\ pc' = [pc EXCEPT ![r] = "insert"]
          /\ job' = [job EXCEPT ![r] = Insertion(r, job[r].version, FALSE)]
     ELSE Goto(r, "idle")
  /\ UNCHANGED <<remote, fileVars, dbVars, mem, up, pruneVars, dayMark, historyVars,
                 faults, days>>

-----------------------------------------------------------------------------
(* Insertion: __insert_catalogue.                                          *)

\* The next commit: a chunk of entries, or the values of a meta type.
Entries(j) == job[j].next <= Chunks
MetaType(j) == job[j].next - Chunks

\* What the next commit needs: a file that can be parsed, a version, and no
\* entries under the same keys.
Possible(j) ==
  Entries(j) => /\ json \notin {Torn, None}
                /\ job[j].only \/ /\ job[j].version # None
                                  /\ Len(rows[job[j].version]) < job[j].next

Commit(j) ==
  /\ pc[j] = "insert" /\ Possible(j)
  /\ LET v == job[j].version
         stores == Entries(j) /\ ~job[j].only
     IN  /\ rows' = IF stores THEN [rows EXCEPT ![v] = Append(@, json)] ELSE rows
         /\ at' = IF stores THEN [at EXCEPT ![v] = job[j].at] ELSE at
         /\ meta' = IF Entries(j) THEN meta ELSE [meta EXCEPT ![v] = @ \cup {MetaType(j)}]
  /\ job' = [job EXCEPT ![j].next = @ + 1,
                        ![j].parsed = IF Entries(j) THEN Append(@, json) ELSE @]
  /\ pc' = [pc EXCEPT ![j] = IF job[j].next = Chunks + MetaTypes THEN "append" ELSE "insert"]
  /\ UNCHANGED <<remote, fileVars, mem, up, pruneVars, dayMark, historyVars,
                 faults, days>>

\* Mutant of Inserted: one meta type too many.
InsertedNext(j) ==
  [version |-> job[j].version, count |-> job[j].parsed,
   meta |-> 1..(job[j].next - Chunks), at |-> job[j].at]

\* The catalogue an insertion returns.
Inserted(j) ==
  [version |-> job[j].version, count |-> job[j].parsed, meta |-> Types, at |-> job[j].at]

\* An insertion raises: because it must, since the file has changed while it
\* was read, or for a reason of its own.  Whatever was committed stays.
Raise(j) ==
  /\ pc[j] = "insert"
  /\ IF Possible(j) /\ (Entries(j) => json = job[j].of) THEN Fault ELSE UNCHANGED faults
  /\ Goto(j, "idle")
  /\ cut' = IF job[j].only \/ job[j].version = None THEN cut ELSE cut \cup {job[j].version}
  /\ IF j = Boot
     THEN up' = "up" /\ unhealed' = TRUE /\ best' = Seen(mem)
     ELSE UNCHANGED <<up, unhealed, best>>
  /\ UNCHANGED <<remote, fileVars, dbVars, mem, pruneVars, dayMark, days>>

\* The end of __load_catalogues.
Booted ==
  /\ pc[Boot] = "append"
  /\ mem' = Append(mem, Inserted(Boot))
  /\ up' = "up" /\ best' = Seen(mem')
  /\ Goto(Boot, "idle")
  /\ UNCHANGED <<remote, fileVars, dbVars, pruneVars, dayMark, cut, unhealed,
                 faults, days>>

\* __on_catalogue_update, on the reactor thread.  If the same version was in the
\* list already and is old, nothing is left, and the last line raises.
OnCatalogueUpdate(r) ==
  /\ pc[r] = "append"
  /\ LET cats == Append(mem, Inserted(r))
         old == {cats[i].version : i \in {n \in DOMAIN cats : cats[n].at <= dayMark}}
     IN  /\ mem' = Picked(cats, {n \in DOMAIN cats : cats[n].version \notin old})
         /\ prunes' = IF Len(cats) > 1 /\ mem' # <<>>
                      THEN Append(prunes, Last(mem').version) ELSE prunes
  /\ best' = Seen(mem')
  /\ Goto(r, "idle")
  /\ UNCHANGED <<remote, fileVars, dbVars, up, pruning, dayMark, cut, unhealed,
                 faults, days>>

-----------------------------------------------------------------------------
(* The prune pool: __prune_entries.                                        *)

\* Mutant of Prunable: everything older than a day.
PrunableByAge(v, keep) == at[v] <= dayMark

Prunable(v, keep) == at[v] <= dayMark /\ v # keep

PruneEntries ==
  /\ prunes # <<>> /\ pruning = None
  /\ prunes' = Tail(prunes) /\ pruning' = Head(prunes)
  /\ rows' = [v \in Names |-> IF Prunable(v, Head(prunes)) THEN <<>> ELSE rows[v]]
  /\ at' = [v \in Names |-> IF rows'[v] = <<>> THEN 0 ELSE at[v]]
  /\ UNCHANGED <<remote, fileVars, meta, mem, up, jobVars, dayMark, historyVars,
                 faults, days>>

PruneMeta ==
  /\ pruning # None
  /\ meta' = [v \in Names |-> IF v = pruning THEN meta[v] ELSE {}]
  /\ pruning' = None
  /\ UNCHANGED <<remote, fileVars, rows, at, mem, up, jobVars, prunes, dayMark, historyVars,
                 faults, days>>

\* __prune_entries_safe: one that raised is not repeated.
PruneFails ==
  /\ \/ prunes # <<>> /\ pruning = None /\ prunes' = Tail(prunes) /\ UNCHANGED pruning
     \/ pruning # None /\ pruning' = None /\ UNCHANGED prunes
  /\ Fault
  /\ UNCHANGED <<remote, fileVars, dbVars, mem, up, jobVars, dayMark, historyVars, days>>

-----------------------------------------------------------------------------
(* Outside.                                                                *)

Publish ==
  /\ remote < MaxVersion /\ remote' = remote + 1
  /\ UNCHANGED <<fileVars, dbVars, mem, up, jobVars, pruneVars, dayMark, historyVars,
                 faults, days>>

\* A day passes; a reload or prune does not take that long.
Day ==
  /\ days < MaxDays /\ days' = days + 1
  /\ \A j \in Jobs : pc[j] = "idle"
  /\ prunes = <<>> /\ pruning = None
  /\ dayMark' = Now - 1
  /\ UNCHANGED <<remote, fileVars, dbVars, mem, up, jobVars, pruneVars, historyVars, faults>>

\* The process dies; a version that was noted as downloaded is cut short.
Crash ==
  /\ up # "down" /\ up' = "down"
  /\ Fault
  /\ cut' = cut \cup {job[j].version : j \in
              {i \in Jobs : /\ job[i].version # None /\ ~job[i].only
                            /\ \/ pc[i] = "check" /\ job[i].required
                               \/ pc[i] = "insert" /\ Entries(i)}}
  /\ mem' = <<>>
  /\ pc' = [j \in Jobs |-> "idle"] /\ job' = [j \in Jobs |-> NoJob]
  /\ prunes' = <<>> /\ pruning' = None
  /\ UNCHANGED <<remote, fileVars, dbVars, dayMark, unhealed, best, days>>

-----------------------------------------------------------------------------
Download(r) ==
  Ask(r) \/ Fetch(r) \/ OpenJson(r) \/ WriteJson(r) \/ OpenVersion(r) \/ WriteVersion(r)

Work(r) ==
  \/ Reload(r) \/ Download(r) \/ Check(r)
  \/ Commit(r) \/ Raise(r) \/ OnCatalogueUpdate(r)

BootStep == Start \/ Commit(Boot) \/ Raise(Boot) \/ Booted

Next ==
  \/ BootStep \/ \E r \in Reloads : Work(r)
  \/ PruneEntries \/ PruneMeta \/ PruneFails
  \/ Publish \/ Day \/ Crash

Spec == Init /\ [][Next]_vars

\* The server is started again, its timer and its threads run.
Fairness == WF_vars(BootStep) /\ \A r \in Reloads : WF_vars(Work(r))

FairSpec == Spec /\ Fairness

-----------------------------------------------------------------------------
(* Properties.                                                             *)

\* The entries of a version: all of them, of one database.
Whole(v) == Len(rows[v]) = Chunks /\ \A i, k \in DOMAIN rows[v] : rows[v][i] = rows[v][k]

\* A search finds every entry of the version that is shown as the latest,
\* whatever is inserted and pruned meanwhile and whenever the server died -
\* except in a version whose insertion was cut short.  Its entries are those
\* that were counted, on which sending it in chunks relies - unless the server
\* had to start from files of another version.
LatestIsWhole ==
  up = "up" /\ Loaded /\ Latest.version \notin cut
    => Whole(Latest.version) /\ (unhealed \/ Latest.count = rows[Latest.version])

\* Every type of meta value is there for the latest version, though a crash
\* or a late prune may have removed some from the database - unless the
\* server started with files that are torn or of another version.
MetaIsWhole == up = "up" /\ Loaded /\ ~unhealed => Latest.meta = Types

\* Clients never go back to a version older than one they have seen, over
\* restarts too - unless that was one whose insertion was cut short.
NeverBack == up = "up" /\ Loaded => Latest.version >= best

\* The version published last is loaded in the end, whatever requests failed
\* and whenever the server died - unless its insertion was cut short.
CatchesUp ==
  <>[](remote \in cut \/ (up = "up" /\ Loaded /\ Latest.version = remote))
=============================================================================
