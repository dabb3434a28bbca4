-------------------------- MODULE Catalogue_proofs --------------------------
(***************************************************************************)
(* Theorems about Catalogue, for any number of versions, chunks, meta      *)
(* types, failures and days.                                               *)
(***************************************************************************)
EXTENDS Catalogue, Ordered_proofs

Has(v) == rows[v] # <<>>

Working(j) == pc[j] \in {"insert", "append"}

-----------------------------------------------------------------------------
(* Types, for any number of reloads.                                       *)

\* What a job knows where it is.
JobsKnow ==
  \A j \in Jobs :
    /\ pc[j] \in {"open", "write"} => job[j].got \in Versions
    /\ pc[j] \in {"openVersion", "writeVersion", "append"} => job[j].version \in Names
    /\ pc[j] = "insert" =>
         /\ job[j].next \in 1..(Chunks + MetaTypes)
         /\ job[j].only \/ 1 < job[j].next => job[j].version \in Names

\* No two versions were loaded at the same moment, nor are they now.
Stamped ==
  /\ \A v, w \in Names : Has(v) /\ Has(w) /\ at[v] = at[w] => v = w
  /\ \A j \in Jobs, v \in Names :
       Working(j) /\ Has(v) /\ at[v] = job[j].at => v = job[j].version
  /\ \A i, j \in Jobs : Working(i) /\ Working(j) /\ job[i].at = job[j].at => i = j

TypeInv == TypeOK /\ JobsKnow /\ Stamped

LEMMA Bounds ==
  /\ MaxVersion \in Nat \ {0} /\ Chunks \in Nat \ {0} /\ MetaTypes \in Nat \ {0}
  /\ MaxFaults \in Nat /\ MaxDays \in Nat
BY CatalogueAssumption

LEMMA NamesFacts ==
  /\ Names \subseteq Nat /\ Versions \subseteq Names /\ Versions \subseteq Nat \ {0}
  /\ Blank = 0 /\ Blank \in Names /\ Blank \notin Versions
  /\ None \notin Names /\ Torn \notin Names /\ None # Torn
  /\ IsFiniteSet(Names) /\ IsFiniteSet(Jobs)
  /\ Boot \in Jobs /\ Reloads \subseteq Jobs /\ Boot \notin Reloads
  /\ \A j \in Jobs : j # Boot => j \in Reloads
<1>1. Names \subseteq 0..MaxVersion
  BY Bounds DEF Names, Versions, Blank
<1>2. IsFiniteSet(0..MaxVersion)
  BY Bounds, FS_Interval
<1>3. IsFiniteSet(Names)
  BY <1>1, <1>2, FS_Subset
<1>4. IsFiniteSet(Jobs)
  BY CatalogueAssumption, FS_AddElement DEF Jobs
<1>5. Names \subseteq Nat
  BY <1>1, Bounds
<1>6. None \notin Nat /\ Torn \notin Nat /\ None # Torn
  BY CatalogueAssumption
<1> QED
  BY <1>3, <1>4, <1>5, <1>6, Bounds, CatalogueAssumption DEF Names, Versions, Blank, Jobs

\* Now comes after all that is known.
LEMMA NowIsLater ==
  ASSUME TypeOK
  PROVE  /\ Now \in Nat /\ dayMark < Now
         /\ \A v \in Names : at[v] < Now
         /\ \A j \in Jobs : job[j].at < Now
         /\ \A i \in DOMAIN mem : mem[i].at < Now
<1> DEFINE J == [j \in Jobs |-> job[j].at]
           M == [i \in DOMAIN mem |-> mem[i].at]
           A == {at[v] : v \in Names}
           B == {job[j].at : j \in Jobs}
           C == {mem[i].at : i \in DOMAIN mem}
           S == {dayMark} \cup A \cup B \cup C
<1>1. IsFiniteSet(A)
  <2>1. at = [v \in DOMAIN at |-> at[v]] /\ DOMAIN at = Names
    BY DEF TypeOK
  <2> QED
    BY <2>1, NamesFacts, FiniteValues
<1>2. IsFiniteSet(B)
  <2>1. IsFiniteSet({J[j] : j \in DOMAIN J})
    BY NamesFacts, FiniteValues
  <2>2. {J[j] : j \in DOMAIN J} = B
    OBVIOUS
  <2> QED
    BY <2>1, <2>2
<1>3. IsFiniteSet(C)
  <2>1. IsFiniteSet(DOMAIN mem)
    BY FS_Interval DEF TypeOK
  <2>2. IsFiniteSet({M[i] : i \in DOMAIN M})
    BY <2>1, FiniteValues
  <2>3. {M[i] : i \in DOMAIN M} = C
    OBVIOUS
  <2> QED
    BY <2>2, <2>3
<1>4. IsFiniteSet({dayMark})
  BY FS_Singleton
<1>5. IsFiniteSet(S)
  <2>1. IsFiniteSet({dayMark} \cup A)
    BY <1>1, <1>4, FS_Union
  <2>2. IsFiniteSet(({dayMark} \cup A) \cup B)
    BY <2>1, <1>2, FS_Union
  <2> QED
    BY <2>2, <1>3, FS_Union
<1>6. S \in SUBSET Nat
  <2>1. A \subseteq Nat /\ dayMark \in Nat
    BY DEF TypeOK
  <2>2. B \subseteq Nat
    BY DEF TypeOK, Job
  <2>3. C \subseteq Nat
    <3>1. \A i \in DOMAIN mem : mem[i] \in Catalog
      BY DEF TypeOK
    <3> QED
      BY <3>1 DEF Catalog
  <2> QED
    BY <2>1, <2>2, <2>3
<1>7. S # {}
  OBVIOUS
<1>8. Now = 1 + Max(S)
  BY DEF Now
<1>9. Max(S) \in S /\ \A n \in S : n <= Max(S)
  <2> HIDE DEF S
  <2> QED
    BY <1>5, <1>6, <1>7, MaxIsGreatest
<1>10. Now \in Nat /\ \A n \in S : n < Now
  <2> HIDE DEF S
  <2>1. PICK m \in Nat : m = Max(S)
    BY <1>6, <1>9
  <2> QED
    BY <2>1, <1>6, <1>8, <1>9
<1> QED
  BY <1>10

\* What clients have seen once they see the last of cats.
LEMMA SeenFacts ==
  ASSUME best \in Names, cut \in SUBSET Names, NEW cats \in Seq(Catalog)
  PROVE  /\ Seen(cats) \in Names /\ best <= Seen(cats)
         /\ cats = <<>> => Seen(cats) = best
         /\ cats # <<>> /\ Last(cats).version \notin cut => Last(cats).version <= Seen(cats)
         /\ cats # <<>> => Seen(cats) \in {best, Last(cats).version}
         /\ Seen(cats) # best => cats # <<>> /\ Last(cats).version \notin cut
         /\ cats # <<>> /\ best <= Last(cats).version => Seen(cats) <= Last(cats).version
<1> DEFINE last == {cats[i].version : i \in {Len(cats)} \cap DOMAIN cats}
           S == {best} \cup (last \ cut)
<1>1. last = IF cats = <<>> THEN {} ELSE {Last(cats).version}
  BY DEF Last
<1>2. cats # <<>> => Last(cats).version \in Names
  <2>1. cats # <<>> => Last(cats) \in Catalog
    BY DEF Last
  <2> QED
    BY <2>1 DEF Catalog
<1>3. S \in SUBSET Names /\ S # {}
  BY <1>1, <1>2
<1>4. IsFiniteSet(S)
  BY <1>3, NamesFacts, FS_Subset
<1>5. Seen(cats) = Max(S)
  BY DEF Seen
<1>6. Max(S) \in S /\ \A n \in S : n <= Max(S)
  <2> HIDE DEF S
  <2> QED
    BY <1>3, <1>4, NamesFacts, MaxIsGreatest
<1> HIDE DEF last
<1>7. Seen(cats) \in S /\ best <= Seen(cats)
  BY <1>5, <1>6
<1> QED
  BY <1>1, <1>2, <1>3, <1>5, <1>6, <1>7, NamesFacts

LEMMA SeenType ==
  ASSUME TypeOK, NEW cats \in Seq(Catalog)
  PROVE  Seen(cats) \in Names
<1>1. best \in Names /\ cut \in SUBSET Names
  BY DEF TypeOK
<1> QED
  BY <1>1, SeenFacts

\* What a start reads from the database.
LEMMA WhatIsRead ==
  ASSUME TypeOK, Stamped
  PROVE  LET cats == Read(Stored)
         IN  /\ cats \in Seq(Catalog)
             /\ \A i \in DOMAIN cats :
                  /\ cats[i].version \in Names /\ Has(cats[i].version)
                  /\ cats[i].count = rows[cats[i].version]
                  /\ cats[i].at = at[cats[i].version]
                  /\ i = Len(cats) => cats[i].meta = meta[cats[i].version]
             /\ \A v \in Names : Has(v) => \E i \in DOMAIN cats : cats[i].version = v
             /\ \A i, k \in DOMAIN cats : i < k => cats[i].at < cats[k].at
<1> DEFINE S == {v \in Names : rows[v] # <<>>}
           vs == Stored
           cats == Read(Stored)
<1>1. /\ vs \in Seq(S)
      /\ \A v \in S : \E n \in DOMAIN vs : vs[n] = v
      /\ \A m, n \in DOMAIN vs : m < n => at[vs[m]] < at[vs[n]]
  <2>1. IsFiniteSet(S)
    BY NamesFacts, FS_Subset
  <2>2. \A v \in S : at[v] \in Nat
    BY DEF TypeOK
  <2>3. \A v, w \in S : at[v] = at[w] => v = w
    BY DEF Stamped, Has
  <2>4. vs = Ascending(S, at)
    BY DEF Stored
  <2> HIDE DEF S, vs
  <2> QED
    BY <2>1, <2>2, <2>3, <2>4, AscendingFacts
<1> HIDE DEF vs
<1>2. cats = [i \in DOMAIN vs |->
               [version |-> vs[i], count |-> rows[vs[i]], at |-> at[vs[i]],
                meta |-> IF i = Len(vs) THEN meta[vs[i]] ELSE {}]]
  BY DEF Read, vs
<1>3. DOMAIN vs = 1..Len(vs) /\ Len(vs) \in Nat
  BY <1>1
<1>4. \A i \in DOMAIN vs : vs[i] \in Names /\ Has(vs[i])
  BY <1>1, <1>3 DEF Has
<1> HIDE DEF cats
<1>5. DOMAIN cats = DOMAIN vs
  BY <1>2
<1>6. ASSUME NEW i \in DOMAIN cats
      PROVE  /\ cats[i] \in Catalog
             /\ cats[i].version = vs[i] /\ cats[i].count = rows[vs[i]]
             /\ cats[i].at = at[vs[i]]
             /\ i = Len(vs) => cats[i].meta = meta[vs[i]]
  <2>1. /\ vs[i] \in Names /\ rows[vs[i]] \in Seq(Versions) /\ at[vs[i]] \in Nat
        /\ meta[vs[i]] \in SUBSET Types
    BY <1>4, <1>5 DEF TypeOK
  <2> QED
    BY <2>1, <1>2, <1>5 DEF Catalog
<1>7. cats \in Seq(Catalog) /\ Len(cats) = Len(vs)
  <2>1. cats \in [1..Len(vs) -> Catalog]
    BY <1>2, <1>3, <1>5, <1>6
  <2> QED
    BY <2>1, <1>3
<1>8. \A v \in Names : Has(v) => \E i \in DOMAIN cats : cats[i].version = v
  BY <1>1, <1>5, <1>6 DEF Has
<1>9. \A i, k \in DOMAIN cats : i < k => cats[i].at < cats[k].at
  BY <1>1, <1>5, <1>6
<1> QED
  BY <1>4, <1>5, <1>6, <1>7, <1>8, <1>9 DEF cats

\* Which part of a type invariant is about which job.
LEMMA JobFields ==
  ASSUME TypeOK, NEW j \in Jobs
  PROVE  /\ job[j] \in Job
         /\ job[j].cached \in Names /\ job[j].version \in Names \cup {None}
         /\ job[j].got \in Versions \cup {None} /\ job[j].required \in BOOLEAN
         /\ job[j].only \in BOOLEAN /\ job[j].of \in Versions \cup {None, Torn}
         /\ job[j].parsed \in Seq(Versions)
         /\ job[j].next \in 0..(Chunks + MetaTypes + 1) /\ job[j].at \in Nat
         /\ pc[j] \in {"idle", "ask", "fetch", "open", "write", "openVersion",
                        "writeVersion", "check", "insert", "append"}
<1>1. job[j] \in Job
  BY DEF TypeOK
<1> QED
  BY <1>1 DEF Job, TypeOK

LEMMA NoJobType == NoJob \in Job
  BY NamesFacts, Bounds DEF NoJob, Job

\* An insertion that begins.
LEMMA InsertionFacts ==
  ASSUME TypeOK, NEW j \in Jobs, NEW v \in Names \cup {None}, NEW o \in BOOLEAN
  PROVE  LET new == Insertion(j, v, o)
         IN  /\ new \in Job /\ new.version = v /\ new.only = o /\ new.of = json
             /\ new.parsed = <<>> /\ new.next = 1 /\ new.at = Now
<1> DEFINE new == Insertion(j, v, o)
<1>2. Now \in Nat /\ 1 \in 0..(Chunks + MetaTypes + 1) /\ json \in Versions \cup {None, Torn}
  BY NowIsLater, Bounds DEF TypeOK
<1>3. <<>> \in Seq(Versions)
  OBVIOUS
<1> HIDE DEF new
<1>4. new = [job[j] EXCEPT !.version = v, !.only = o, !.of = json,
                           !.parsed = <<>>, !.next = 1, !.at = Now]
  BY DEF Insertion, new
<1> QED
  BY <1>2, <1>3, <1>4, JobFields DEF Job, new

Places == {"idle", "ask", "fetch", "open", "write", "openVersion", "writeVersion",
           "check", "insert", "append"}

\* Job j goes on at the given place with what it knows then, all others stay.
OnlyJob(j, place, new) ==
  /\ pc' \in [Jobs -> Places] /\ job' \in [Jobs -> Job]
  /\ pc'[j] = place /\ job'[j] = new
  /\ \A i \in Jobs \ {j} : pc'[i] = pc[i] /\ job'[i] = job[i]

LEMMA JobSet ==
  ASSUME TypeOK, NEW j \in Jobs, NEW place \in Places, NEW new \in Job,
         pc' = [pc EXCEPT ![j] = place], job' = [job EXCEPT ![j] = new]
  PROVE  OnlyJob(j, place, new)
<1>1. pc \in [Jobs -> Places] /\ job \in [Jobs -> Job]
  BY DEF TypeOK, Places
<1> QED
  BY <1>1 DEF OnlyJob

LEMMA GotoSets ==
  ASSUME TypeOK, NEW j \in Jobs, NEW place \in Places, Goto(j, place)
  PROVE  OnlyJob(j, place, IF place = "idle" THEN NoJob ELSE job[j])
<1>1. pc \in [Jobs -> Places] /\ job \in [Jobs -> Job]
  BY DEF TypeOK, Places
<1> QED
  BY <1>1, NoJobType DEF OnlyJob, Goto

\* A download's steps, as far as they change what the reload knows.
LEMMA ReloadSets ==
  ASSUME TypeOK, NEW r \in Reloads, Reload(r)
  PROVE  OnlyJob(r, "ask", [job[r] EXCEPT !.cached = IF ver # None /\ json # None
                                                    THEN ver ELSE Blank])
<1> DEFINE new == [job[r] EXCEPT !.cached = IF ver # None /\ json # None THEN ver ELSE Blank]
<1>1. r \in Jobs
  BY NamesFacts
<1>2. new \in Job
  <2>1. (IF ver # None /\ json # None THEN ver ELSE Blank) \in Names
    BY NamesFacts DEF TypeOK
  <2> QED
    BY <1>1, <2>1, JobFields DEF Job
<1>3. job' = [job EXCEPT ![r] = new]
  BY DEF Reload
<1>4. pc' = [pc EXCEPT ![r] = "ask"]
  BY DEF Reload
<1> QED
  BY <1>1, <1>2, <1>3, <1>4, JobSet DEF Places

LEMMA AskSets ==
  ASSUME TypeOK, NEW r \in Reloads, Ask(r)
  PROVE  \/ OnlyJob(r, IF remote = job[r].cached THEN "check" ELSE "fetch",
                    [job[r] EXCEPT !.version = remote])
         \/ OnlyJob(r, "fetch", job[r])
<1> DEFINE new == [job[r] EXCEPT !.version = remote]
<1>1. r \in Jobs
  BY NamesFacts
<1>2. new \in Job /\ job[r] \in Job
  <2>1. remote \in Names
    BY NamesFacts DEF TypeOK
  <2> QED
    BY <1>1, <2>1, JobFields DEF Job
<1>3. CASE job' = [job EXCEPT ![r].version = remote]
           /\ pc' = [pc EXCEPT ![r] = IF remote = job[r].cached THEN "check" ELSE "fetch"]
  <2>1. job' = [job EXCEPT ![r] = new]
    BY <1>3
  <2>2. (IF remote = job[r].cached THEN "check" ELSE "fetch") \in Places
    BY DEF Places
  <2> QED
    BY <1>1, <1>2, <1>3, <2>1, <2>2, JobSet
<1>4. CASE pc' = [pc EXCEPT ![r] = "fetch"] /\ job' = job
  <2>1. job' = [job EXCEPT ![r] = job[r]]
    BY <1>1, <1>4 DEF TypeOK
  <2> QED
    BY <1>1, <1>2, <1>4, <2>1, JobSet DEF Places
<1> QED
  BY <1>3, <1>4 DEF Ask

LEMMA NotDownloadedSets ==
  ASSUME TypeOK, NEW r \in Reloads, NotDownloaded(r)
  PROVE  OnlyJob(r, "check", [job[r] EXCEPT !.version = job[r].cached, !.got = None])
<1> DEFINE new == [job[r] EXCEPT !.version = job[r].cached, !.got = None]
<1>1. r \in Jobs
  BY NamesFacts
<1>2. new \in Job
  BY <1>1, JobFields DEF Job
<1>3. job' = [job EXCEPT ![r] = new]
  BY DEF NotDownloaded
<1>4. pc' = [pc EXCEPT ![r] = "check"]
  BY DEF NotDownloaded
<1> QED
  BY <1>1, <1>2, <1>3, <1>4, JobSet DEF Places

LEMMA FetchSets ==
  ASSUME TypeOK, NEW r \in Reloads, Fetch(r)
  PROVE  \/ OnlyJob(r, "open", [job[r] EXCEPT !.got = remote])
         \/ OnlyJob(r, "check", [job[r] EXCEPT !.version = job[r].cached, !.got = None])
<1> DEFINE new == [job[r] EXCEPT !.got = remote]
<1>1. r \in Jobs
  BY NamesFacts
<1>2. new \in Job
  BY <1>1, JobFields DEF Job, TypeOK
<1>3. CASE job' = [job EXCEPT ![r].got = remote] /\ pc' = [pc EXCEPT ![r] = "open"]
  <2>1. job' = [job EXCEPT ![r] = new]
    BY <1>3
  <2> QED
    BY <1>1, <1>2, <1>3, <2>1, JobSet DEF Places
<1> QED
  BY <1>3, NotDownloadedSets DEF Fetch

LEMMA WriteJsonSets ==
  ASSUME TypeOK, NEW r \in Reloads, WriteJson(r)
  PROVE  \/ /\ OnlyJob(r, IF job[r].version = None THEN "check" ELSE "openVersion",
                       [job[r] EXCEPT !.required = TRUE, !.got = None])
            /\ json' = job[r].got
         \/ /\ OnlyJob(r, "check", [job[r] EXCEPT !.version = job[r].cached, !.got = None])
            /\ json' = json
<1> DEFINE new == [job[r] EXCEPT !.required = TRUE, !.got = None]
           place == IF job[r].version = None THEN "check" ELSE "openVersion"
<1>1. r \in Jobs
  BY NamesFacts
<1>2. new \in Job
  BY <1>1, JobFields DEF Job
<1>3. CASE /\ json' = job[r].got
           /\ job' = [job EXCEPT ![r].required = TRUE, ![r].got = None]
           /\ pc' = [pc EXCEPT ![r] = place]
  <2>1. job' = [job EXCEPT ![r] = new]
    BY <1>3
  <2>2. place \in Places
    BY DEF Places
  <2> QED
    BY <1>1, <1>2, <1>3, <2>1, <2>2, JobSet
<1> QED
  BY <1>3, NotDownloadedSets DEF WriteJson

LEMMA CheckSets ==
  ASSUME TypeOK, NEW r \in Reloads, Check(r)
  PROVE  \/ OnlyJob(r, "insert", Insertion(r, job[r].version, FALSE))
            /\ (job[r].required \/ ~Loaded) /\ json # None
         \/ OnlyJob(r, "idle", NoJob) /\ (job[r].required => json = None)
<1>1. r \in Jobs
  BY NamesFacts
<1>2. Insertion(r, job[r].version, FALSE) \in Job
  BY <1>1, InsertionFacts, JobFields
<1>3. CASE (job[r].required \/ ~Loaded) /\ json # None
  BY <1>1, <1>2, <1>3, JobSet DEF Check, Places
<1>4. CASE ~((job[r].required \/ ~Loaded) /\ json # None)
  <2>1. Goto(r, "idle")
    BY <1>4 DEF Check
  <2> QED
    BY <1>1, <1>4, <2>1, GotoSets DEF Places
<1> QED
  BY <1>3, <1>4

LEMMA CommitSets ==
  ASSUME TypeInv, NEW j \in Jobs, Commit(j)
  PROVE  /\ OnlyJob(j, IF job[j].next = Chunks + MetaTypes THEN "append" ELSE "insert",
                    [job[j] EXCEPT !.next = @ + 1,
                                   !.parsed = IF Entries(j) THEN Append(@, json) ELSE @])
         /\ job[j].version \in Names
         /\ Entries(j) => json \in Versions
<1> DEFINE new == [job[j] EXCEPT !.next = @ + 1,
                                 !.parsed = IF Entries(j) THEN Append(@, json) ELSE @]
           place == IF job[j].next = Chunks + MetaTypes THEN "append" ELSE "insert"
<1>1. pc[j] = "insert" /\ Possible(j) /\ TypeOK
  BY DEF Commit, TypeInv
<1>2. /\ job[j].next \in 1..(Chunks + MetaTypes)
      /\ job[j].only \/ 1 < job[j].next => job[j].version \in Names
  BY <1>1 DEF TypeInv, JobsKnow
<1>3. Entries(j) => json \in Versions
  BY <1>1 DEF Possible, TypeOK
<1>4. job[j].version \in Names
  <2>1. CASE Entries(j)
    BY <1>1, <1>2, <2>1, JobFields DEF Possible
  <2>2. CASE ~Entries(j)
    BY <1>2, <2>2, Bounds DEF Entries
  <2> QED
    BY <2>1, <2>2
<1>5. new \in Job
  <2>1. (IF Entries(j) THEN Append(job[j].parsed, json) ELSE job[j].parsed) \in Seq(Versions)
    BY <1>1, <1>3, JobFields
  <2>2. job[j].next + 1 \in 0..(Chunks + MetaTypes + 1)
    BY <1>2, Bounds
  <2> QED
    BY <1>1, <2>1, <2>2, JobFields DEF Job
<1>6. job' = [job EXCEPT ![j] = new]
  BY <1>1, JobFields DEF Commit
<1>7. place \in Places
  BY DEF Places
<1>8. pc' = [pc EXCEPT ![j] = place]
  BY DEF Commit
<1> QED
  BY <1>1, <1>3, <1>4, <1>5, <1>6, <1>7, <1>8, JobSet

\* What the types need of a step of one job that leaves the rows alone.
LEMMA OnlyJobKnows ==
  ASSUME TypeInv, NEW j \in Jobs, NEW place \in Places, NEW new \in Job,
         OnlyJob(j, place, new), rows' = rows, at' = at,
         place \in {"open", "write"} => new.got \in Versions,
         place \in {"openVersion", "writeVersion", "append"} => new.version \in Names,
         place = "insert" => /\ new.next \in 1..(Chunks + MetaTypes)
                             /\ new.only \/ 1 < new.next => new.version \in Names,
         place \in {"insert", "append"} =>
           \/ new.at = Now
           \/ Working(j) /\ new.at = job[j].at /\ new.version = job[j].version
  PROVE  JobsKnow' /\ Stamped'
<1>1. JobsKnow'
  <2>1. SUFFICES ASSUME NEW i \in Jobs
                 PROVE  /\ pc'[i] \in {"open", "write"} => job'[i].got \in Versions
                        /\ pc'[i] \in {"openVersion", "writeVersion", "append"}
                             => job'[i].version \in Names
                        /\ pc'[i] = "insert" =>
                             /\ job'[i].next \in 1..(Chunks + MetaTypes)
                             /\ job'[i].only \/ 1 < job'[i].next => job'[i].version \in Names
    BY DEF JobsKnow
  <2>2. CASE i = j
    BY <2>2 DEF OnlyJob
  <2>3. CASE i # j
    BY <2>3 DEF OnlyJob, TypeInv, JobsKnow
  <2> QED
    BY <2>2, <2>3
<1>2. TypeOK
  BY DEF TypeInv
<1>3. Working(j)' => \/ job'[j].at = Now
                     \/ /\ Working(j) /\ job'[j].at = job[j].at
                        /\ job'[j].version = job[j].version
  BY DEF Working, OnlyJob
<1>4. \A i \in Jobs \ {j} : (Working(i)' <=> Working(i)) /\ job'[i] = job[i]
  BY DEF Working, OnlyJob
<1>5. /\ \A i \in Jobs : job[i].at \in Nat /\ job[i].at < Now
      /\ \A v \in Names : at[v] \in Nat /\ at[v] < Now
      /\ Now \in Nat
  BY <1>2, NowIsLater, JobFields DEF TypeOK
<1>6. \A v \in Names : Has(v)' <=> Has(v)
  BY DEF Has
<1>7. \A i \in Jobs, v \in Names :
        Working(i)' /\ Has(v)' /\ at'[v] = job'[i].at => v = job'[i].version
  BY <1>3, <1>4, <1>5, <1>6 DEF TypeInv, Stamped
<1>8. \A i, k \in Jobs : Working(i)' /\ Working(k)' /\ job'[i].at = job'[k].at => i = k
  BY <1>3, <1>4, <1>5 DEF TypeInv, Stamped
<1>9. \A v, w \in Names : Has(v)' /\ Has(w)' /\ at'[v] = at'[w] => v = w
  BY <1>6 DEF TypeInv, Stamped
<1> QED
  BY <1>1, <1>7, <1>8, <1>9 DEF Stamped

\* The reloads' downloads.
LEMMA DownloadTypes ==
  ASSUME TypeInv, NEW r \in Reloads, Reload(r) \/ Download(r)
  PROVE  TypeInv'
<1>1. r \in Jobs /\ job[r] \in Job /\ TypeOK
  BY NamesFacts, JobFields DEF TypeInv
<1>2. /\ pc[r] \in {"open", "write"} => job[r].got \in Versions
      /\ pc[r] \in {"openVersion", "writeVersion"} => job[r].version \in Names
      /\ job[r].version \in Names \cup {None} /\ job[r].cached \in Names
      /\ remote \in Versions
  BY <1>1, JobFields DEF TypeInv, JobsKnow, TypeOK
<1>3. /\ UNCHANGED <<remote, dbVars, mem, up, pruneVars, dayMark, historyVars, days>>
      /\ faults' \in Nat
  BY <1>1 DEF Reload, Download, Ask, Fetch, OpenJson, WriteJson, OpenVersion, WriteVersion,
              Fault, TypeOK
<1>4. ASSUME NEW place \in {"ask", "fetch", "open", "write", "openVersion", "writeVersion",
                            "check"},
             NEW new, OnlyJob(r, place, new),
             place \in {"open", "write"} => new.got \in Versions,
             place \in {"openVersion", "writeVersion"} => new.version \in Names,
             json' \in Versions \cup {None, Torn}, ver' \in Names \cup {None}
      PROVE  TypeInv'
  <2>1. new \in Job /\ place \in Places
    BY <1>1, <1>4 DEF OnlyJob, Places
  <2>2. JobsKnow' /\ Stamped'
    BY <1>1, <1>3, <1>4, <2>1, OnlyJobKnows DEF dbVars
  <2>3. TypeOK'
    BY <1>1, <1>3, <1>4 DEF TypeOK, OnlyJob, Places, dbVars, pruneVars, historyVars
  <2> QED
    BY <2>2, <2>3 DEF TypeInv
<1>5. json \in Versions \cup {None, Torn} /\ ver \in Names \cup {None}
  BY <1>1 DEF TypeOK
<1>6. CASE Reload(r)
  <2>1. json' = json /\ ver' = ver
    BY <1>6 DEF Reload, fileVars
  <2> QED
    BY <1>1, <1>4, <1>5, <1>6, <2>1, ReloadSets
<1>7. CASE Ask(r)
  <2>1. json' = json /\ ver' = ver
    BY <1>7 DEF Ask, fileVars
  <2>2. CASE OnlyJob(r, "fetch", job[r])
    BY <1>4, <1>5, <2>1, <2>2
  <2>3. CASE OnlyJob(r, IF remote = job[r].cached THEN "check" ELSE "fetch",
                     [job[r] EXCEPT !.version = remote])
    <3>1. (IF remote = job[r].cached THEN "check" ELSE "fetch") \in {"check", "fetch"}
      OBVIOUS
    <3> QED
      BY <1>4, <1>5, <2>1, <2>3, <3>1
  <2> QED
    BY <1>1, <1>7, <2>2, <2>3, AskSets
<1>8. CASE Fetch(r)
  <2>1. json' = json /\ ver' = ver
    BY <1>8 DEF Fetch, fileVars
  <2>2. [job[r] EXCEPT !.got = remote].got = remote
    BY <1>1 DEF Job
  <2> QED
    BY <1>1, <1>2, <1>4, <1>5, <1>8, <2>1, <2>2, FetchSets
<1>9. CASE OpenJson(r)
  <2>1. json' = Torn /\ ver' = ver /\ Goto(r, "write") /\ pc[r] = "open"
    BY <1>9 DEF OpenJson
  <2>2. OnlyJob(r, "write", job[r])
    BY <1>1, <2>1, GotoSets DEF Places
  <2> QED
    BY <1>2, <1>4, <1>5, <2>1, <2>2
<1>10. CASE WriteJson(r)
  <2> DEFINE place == IF job[r].version = None THEN "check" ELSE "openVersion"
             new == [job[r] EXCEPT !.required = TRUE, !.got = None]
  <2>1. ver' = ver /\ pc[r] = "write"
    BY <1>10 DEF WriteJson
  <2>2. CASE OnlyJob(r, place, new) /\ json' = job[r].got
    <3>1. new.version = job[r].version
      BY <1>1 DEF Job
    <3>2. place \in {"check", "openVersion"} /\ (place = "openVersion" => new.version \in Names)
      BY <1>2, <3>1
    <3> HIDE DEF place, new
    <3> QED
      BY <1>2, <1>4, <1>5, <2>1, <2>2, <3>2
  <2>3. CASE /\ OnlyJob(r, "check", [job[r] EXCEPT !.version = job[r].cached, !.got = None])
             /\ json' = json
    BY <1>4, <1>5, <2>1, <2>3
  <2> QED
    BY <1>1, <1>10, <2>2, <2>3, WriteJsonSets
<1>11. CASE OpenVersion(r)
  <2>1. json' = json /\ ver' = Blank /\ Goto(r, "writeVersion") /\ pc[r] = "openVersion"
    BY <1>11 DEF OpenVersion
  <2>2. OnlyJob(r, "writeVersion", job[r])
    BY <1>1, <2>1, GotoSets DEF Places
  <2> QED
    BY <1>2, <1>4, <1>5, <2>1, <2>2, NamesFacts
<1>12. CASE WriteVersion(r)
  <2>1. json' = json /\ ver' = job[r].version /\ Goto(r, "check") /\ pc[r] = "writeVersion"
    BY <1>12 DEF WriteVersion
  <2>2. OnlyJob(r, "check", job[r])
    BY <1>1, <2>1, GotoSets DEF Places
  <2> QED
    BY <1>2, <1>4, <1>5, <2>1, <2>2
<1> QED
  BY <1>6, <1>7, <1>8, <1>9, <1>10, <1>11, <1>12 DEF Download

LEMMA StartTypes ==
  ASSUME TypeInv, Start
  PROVE  TypeInv'
<1> DEFINE cats == Read(Stored)
           new == Insertion(Boot, ver, Incomplete(cats))
<1>1. TypeOK /\ Boot \in Jobs /\ cats \in Seq(Catalog)
  BY NamesFacts, WhatIsRead DEF TypeInv
<1> HIDE DEF cats
<1>2. /\ UNCHANGED <<remote, fileVars, dbVars, pruning, dayMark, cut, faults, days>>
      /\ mem' = cats
      /\ prunes' = IF Len(cats) > 1 THEN Append(prunes, Last(cats).version) ELSE prunes
      /\ unhealed' \in BOOLEAN
      /\ up' \in {"boot", "up"}
      /\ best' = IF up' = "up" THEN Seen(cats) ELSE best
  BY DEF Start, cats
<1>3. prunes' \in Seq(Names)
  <2>1. Len(cats) > 1 => Last(cats) \in Catalog
    BY <1>1 DEF Last
  <2>2. Len(cats) > 1 => Last(cats).version \in Names
    BY <2>1 DEF Catalog
  <2> QED
    BY <1>1, <1>2, <2>2 DEF TypeOK
<1>4. best' \in Names
  BY <1>1, <1>2, SeenFacts DEF TypeOK
<1>5. CASE ver # None /\ OnlyJob(Boot, "insert", new)
  <2>1. Incomplete(cats) \in BOOLEAN /\ ver \in Names
    BY <1>1, <1>5 DEF TypeOK, Incomplete
  <2>2. /\ new \in Job /\ new.version = ver /\ new.only = Incomplete(cats)
        /\ new.next = 1 /\ new.at = Now
    BY <1>1, <2>1, InsertionFacts
  <2> HIDE DEF new
  <2>3. 1 \in 1..(Chunks + MetaTypes)
    BY Bounds
  <2>4. JobsKnow' /\ Stamped'
    BY <1>1, <1>2, <1>5, <2>1, <2>2, <2>3, OnlyJobKnows DEF dbVars, Places
  <2>5. TypeOK'
    BY <1>1, <1>2, <1>3, <1>4, <1>5 DEF TypeOK, OnlyJob, Places, dbVars, fileVars
  <2> QED
    BY <2>4, <2>5 DEF TypeInv
<1>6. CASE UNCHANGED jobVars
  <2>1. JobsKnow' /\ Stamped'
    BY <1>2, <1>6 DEF TypeInv, JobsKnow, Stamped, Has, Working, jobVars, dbVars
  <2>2. TypeOK'
    BY <1>1, <1>2, <1>3, <1>4, <1>6 DEF TypeOK, jobVars, dbVars, fileVars
  <2> QED
    BY <2>1, <2>2 DEF TypeInv
<1>7. \/ UNCHANGED jobVars
      \/ ver # None /\ OnlyJob(Boot, "insert", new)
  <2>1. ASSUME ver # None
        PROVE  new \in Job
    <3>1. Incomplete(cats) \in BOOLEAN /\ ver \in Names
      BY <1>1, <2>1 DEF TypeOK, Incomplete
    <3> QED
      BY <1>1, <3>1, InsertionFacts
  <2>2. \/ UNCHANGED jobVars
        \/ /\ ver # None
           /\ pc' = [pc EXCEPT ![Boot] = "insert"]
           /\ job' = [job EXCEPT ![Boot] = new]
    BY DEF Start, cats
  <2> HIDE DEF new
  <2> QED
    BY <1>1, <2>1, <2>2, JobSet DEF Places
<1> QED
  BY <1>5, <1>6, <1>7

LEMMA CheckTypes ==
  ASSUME TypeInv, NEW r \in Reloads, Check(r)
  PROVE  TypeInv'
<1>1. TypeOK /\ r \in Jobs
  BY NamesFacts DEF TypeInv
<1>2. UNCHANGED <<remote, fileVars, dbVars, mem, up, pruneVars, dayMark, historyVars,
                  faults, days>>
  BY DEF Check
<1> DEFINE v == job[r].version
           new == Insertion(r, v, FALSE)
<1>3. /\ new \in Job /\ new.only = FALSE /\ new.next = 1 /\ new.at = Now
      /\ 1 \in 1..(Chunks + MetaTypes)
  <2>1. v \in Names \cup {None} /\ FALSE \in BOOLEAN
    BY <1>1, JobFields
  <2> HIDE DEF v
  <2>2. new \in Job /\ new.only = FALSE /\ new.next = 1 /\ new.at = Now
    BY <1>1, <2>1, InsertionFacts
  <2>3. 1 \in 1..(Chunks + MetaTypes)
    BY Bounds
  <2> HIDE DEF new
  <2> QED
    BY <2>2, <2>3
<1>4. JobsKnow' /\ Stamped'
  <2> HIDE DEF new
  <2>1. CASE OnlyJob(r, "insert", new)
    BY <1>1, <1>2, <1>3, <2>1, OnlyJobKnows DEF dbVars, Places
  <2>2. CASE OnlyJob(r, "idle", NoJob)
    BY <1>1, <1>2, <2>2, OnlyJobKnows, NoJobType DEF dbVars, Places
  <2> QED
    BY <1>1, <2>1, <2>2, CheckSets DEF new
<1>5. pc' \in [Jobs -> Places] /\ job' \in [Jobs -> Job]
  BY <1>1, CheckSets DEF OnlyJob
<1>6. TypeOK'
  BY <1>1, <1>2, <1>5 DEF TypeOK, Places, fileVars, dbVars, pruneVars, historyVars
<1> QED
  BY <1>4, <1>6 DEF TypeInv

LEMMA CommitTypes ==
  ASSUME TypeInv, NEW j \in Jobs, Commit(j)
  PROVE  TypeInv'
<1> DEFINE v == job[j].version
           stores == Entries(j) /\ ~job[j].only
           place == IF job[j].next = Chunks + MetaTypes THEN "append" ELSE "insert"
           new == [job[j] EXCEPT !.next = @ + 1,
                                 !.parsed = IF Entries(j) THEN Append(@, json) ELSE @]
<1>1. TypeOK /\ OnlyJob(j, place, new) /\ v \in Names /\ (Entries(j) => json \in Versions)
  BY CommitSets DEF TypeInv
<1>2. /\ UNCHANGED <<remote, fileVars, mem, up, pruneVars, dayMark, historyVars, faults, days>>
      /\ rows' = IF stores THEN [rows EXCEPT ![v] = Append(@, json)] ELSE rows
      /\ at' = IF stores THEN [at EXCEPT ![v] = job[j].at] ELSE at
      /\ meta' = IF Entries(j) THEN meta ELSE [meta EXCEPT ![v] = @ \cup {MetaType(j)}]
      /\ pc[j] = "insert"
  BY DEF Commit
<1>3. /\ new.version = v /\ new.at = job[j].at /\ new.next = job[j].next + 1
      /\ job[j].next \in 1..(Chunks + MetaTypes) /\ job[j].at \in Nat
      /\ new.got = job[j].got /\ new \in Job /\ new.only = job[j].only
  BY <1>1, <1>2, JobFields DEF TypeInv, JobsKnow, Job, OnlyJob
<1> HIDE DEF new
<1>4. TypeOK'
  <2>1. rows' \in [Names -> Seq(Versions)]
    BY <1>1, <1>2 DEF TypeOK
  <2>2. at' \in [Names -> Nat]
    BY <1>1, <1>2, <1>3 DEF TypeOK
  <2>3. meta' \in [Names -> SUBSET Types]
    <3>1. ~Entries(j) => MetaType(j) \in Types
      BY <1>3, Bounds DEF Entries, MetaType, Types
    <3> QED
      BY <1>1, <1>2, <3>1 DEF TypeOK
  <2> QED
    BY <1>1, <1>2, <2>1, <2>2, <2>3 DEF TypeOK, OnlyJob, Places, fileVars, pruneVars, historyVars
<1>5. JobsKnow'
  <2>1. place = "insert" => new.next \in 1..(Chunks + MetaTypes)
    BY <1>3, Bounds
  <2>2. \A i \in Jobs \ {j} : pc'[i] = pc[i] /\ job'[i] = job[i]
    BY <1>1 DEF OnlyJob
  <2>3. pc'[j] = place /\ job'[j] = new
    BY <1>1 DEF OnlyJob
  <2> QED
    BY <1>1, <1>3, <2>1, <2>2, <2>3 DEF TypeInv, JobsKnow
<1>6. Stamped'
  <2>1. \A i \in Jobs : /\ Working(i)' => Working(i)
                        /\ job'[i].at = job[i].at /\ job'[i].version = job[i].version
    BY <1>1, <1>2, <1>3 DEF Working, OnlyJob
  <2>2. \A w \in Names : w # v \/ ~stores => (Has(w)' <=> Has(w)) /\ at'[w] = at[w]
    BY <1>1, <1>2 DEF Has, TypeOK
  <2>3. stores => at'[v] = job[j].at
    BY <1>1, <1>2 DEF TypeOK
  <2>4. Working(j)
    BY <1>2 DEF Working
  <2> HIDE DEF stores
  <2>5. \A i \in Jobs, w \in Names :
          Working(i)' /\ Has(w)' /\ at'[w] = job'[i].at => w = job'[i].version
    BY <1>1, <2>1, <2>2, <2>3, <2>4 DEF TypeInv, Stamped
  <2>6. \A i, k \in Jobs : Working(i)' /\ Working(k)' /\ job'[i].at = job'[k].at => i = k
    BY <2>1 DEF TypeInv, Stamped
  <2>7. \A w, x \in Names : Has(w)' /\ Has(x)' /\ at'[w] = at'[x] => w = x
    BY <1>1, <2>1, <2>2, <2>3, <2>4 DEF TypeInv, Stamped
  <2> QED
    BY <2>5, <2>6, <2>7 DEF Stamped
<1> QED
  BY <1>4, <1>5, <1>6 DEF TypeInv

LEMMA InsertedType ==
  ASSUME TypeInv, NEW j \in Jobs, pc[j] = "append"
  PROVE  Inserted(j) \in Catalog /\ Append(mem, Inserted(j)) \in Seq(Catalog)
<1>1. job[j].version \in Names /\ job[j].parsed \in Seq(Versions) /\ job[j].at \in Nat
  BY JobFields DEF TypeInv, JobsKnow
<1>2. Inserted(j) \in Catalog
  BY <1>1 DEF Inserted, Catalog
<1> QED
  BY <1>2 DEF TypeInv, TypeOK

\* A job that ends, whatever it did to the list.
LEMMA EndTypes ==
  ASSUME TypeInv, NEW j \in Jobs, Goto(j, "idle"),
         mem' \in Seq(Catalog), prunes' \in Seq(Names), best' \in Names, cut' \in SUBSET Names,
         up' \in {"boot", "up", "down"}, unhealed' \in BOOLEAN, faults' \in Nat,
         UNCHANGED <<remote, fileVars, dbVars, pruning, dayMark, days>>
  PROVE  TypeInv'
<1>1. TypeOK /\ OnlyJob(j, "idle", NoJob)
  BY GotoSets DEF TypeInv, Places
<1>2. JobsKnow' /\ Stamped'
  BY <1>1, NoJobType, OnlyJobKnows DEF dbVars, Places
<1>3. TypeOK'
  BY <1>1 DEF TypeOK, OnlyJob, Places, fileVars, dbVars
<1> QED
  BY <1>2, <1>3 DEF TypeInv

LEMMA RaiseTypes ==
  ASSUME TypeInv, NEW j \in Jobs, Raise(j)
  PROVE  TypeInv'
<1>1. TypeOK /\ mem \in Seq(Catalog) /\ best \in Names /\ cut \in SUBSET Names /\ faults \in Nat
      /\ prunes \in Seq(Names) /\ unhealed \in BOOLEAN /\ up \in {"boot", "up", "down"}
  BY DEF TypeInv, TypeOK
<1>2. cut' \in SUBSET Names
  BY <1>1, JobFields DEF Raise
<1>3. faults' \in Nat
  BY <1>1 DEF Raise, Fault
<1>4. Seen(mem) \in Names
  BY <1>1, SeenType
<1>5. best' \in Names /\ up' \in {"boot", "up", "down"} /\ unhealed' \in BOOLEAN
  BY <1>1, <1>4 DEF Raise
<1> QED
  BY <1>1, <1>2, <1>3, <1>5, EndTypes DEF Raise, pruneVars

LEMMA BootedTypes ==
  ASSUME TypeInv, Booted
  PROVE  TypeInv'
<1>1. TypeOK /\ best \in Names /\ cut \in SUBSET Names /\ faults \in Nat
      /\ prunes \in Seq(Names) /\ unhealed \in BOOLEAN /\ Boot \in Jobs
  BY NamesFacts DEF TypeInv, TypeOK
<1>2. mem' \in Seq(Catalog)
  BY <1>1, InsertedType DEF Booted
<1>3. best' \in Names
  <2>1. best' = Seen(mem')
    BY DEF Booted
  <2>2. PICK cats \in Seq(Catalog) : cats = mem'
    BY <1>2
  <2>3. Seen(cats) \in Names
    BY <1>1, SeenType
  <2> QED
    BY <2>1, <2>2, <2>3
<1> QED
  BY <1>1, <1>2, <1>3, EndTypes DEF Booted, pruneVars

LEMMA UpdateTypes ==
  ASSUME TypeInv, NEW r \in Reloads, OnCatalogueUpdate(r)
  PROVE  TypeInv'
<1>1. TypeOK /\ best \in Names /\ cut \in SUBSET Names /\ faults \in Nat
      /\ prunes \in Seq(Names) /\ unhealed \in BOOLEAN /\ r \in Jobs
      /\ up \in {"boot", "up", "down"}
  BY NamesFacts DEF TypeInv, TypeOK
<1> DEFINE cats == Append(mem, Inserted(r))
           old == {cats[i].version : i \in {n \in DOMAIN cats : cats[n].at <= dayMark}}
           places == {n \in DOMAIN cats : cats[n].version \notin old}
<1>2. mem' = Picked(cats, places)
  BY DEF OnCatalogueUpdate
<1>3. mem' \in Seq(Catalog)
  <2>1. cats \in Seq(Catalog)
    BY <1>1, InsertedType DEF OnCatalogueUpdate
  <2>2. places \in SUBSET DOMAIN cats
    OBVIOUS
  <2> HIDE DEF cats, places
  <2>3. Picked(cats, places) \in Seq(Catalog)
    BY <2>1, <2>2, PickedFacts
  <2> QED
    BY <1>2, <2>3, Zenon
<1>4. prunes' \in Seq(Names)
  <2>1. mem' # <<>> => Last(mem') \in Catalog
    BY <1>3 DEF Last
  <2>2. mem' # <<>> => Last(mem').version \in Names
    BY <2>1 DEF Catalog
  <2>3. \/ prunes' = prunes
        \/ mem' # <<>> /\ prunes' = Append(prunes, Last(mem').version)
    BY Zenon DEF OnCatalogueUpdate
  <2> QED
    BY <1>1, <2>2, <2>3
<1>5. best' \in Names
  <2>1. best' = Seen(mem')
    BY DEF OnCatalogueUpdate
  <2>2. PICK new \in Seq(Catalog) : new = mem'
    BY <1>3
  <2>3. Seen(new) \in Names
    BY <1>1, SeenType
  <2> QED
    BY <2>1, <2>2, <2>3, Zenon
<1> QED
  BY <1>1, <1>3, <1>4, <1>5, EndTypes, Zenon DEF OnCatalogueUpdate

LEMMA PruneEntriesTypes ==
  ASSUME TypeInv, PruneEntries
  PROVE  TypeInv'
<1>1. TypeOK /\ prunes # <<>> /\ prunes \in Seq(Names)
  BY DEF TypeInv, TypeOK, PruneEntries
<1>2. Tail(prunes) \in Seq(Names) /\ Head(prunes) \in Names
  BY <1>1
<1>3. /\ rows' = [v \in Names |-> IF Prunable(v, Head(prunes)) THEN <<>> ELSE rows[v]]
      /\ at' = [v \in Names |-> IF rows'[v] = <<>> THEN 0 ELSE at[v]]
      /\ prunes' = Tail(prunes) /\ pruning' = Head(prunes)
      /\ UNCHANGED <<remote, fileVars, meta, mem, up, jobVars, dayMark, historyVars, faults, days>>
  BY DEF PruneEntries
<1>4. \A v \in Names : Has(v)' => Has(v) /\ at'[v] = at[v]
  BY <1>3 DEF Has
<1>5. rows' \in [Names -> Seq(Versions)] /\ at' \in [Names -> Nat]
  BY <1>1, <1>3 DEF TypeOK
<1>6. TypeOK'
  BY <1>1, <1>2, <1>3, <1>5 DEF TypeOK, fileVars, jobVars, historyVars
<1>7. JobsKnow' /\ Stamped'
  BY <1>3, <1>4 DEF TypeInv, JobsKnow, Stamped, Working, jobVars
<1> QED
  BY <1>6, <1>7 DEF TypeInv

LEMMA CrashTypes ==
  ASSUME TypeInv, Crash
  PROVE  TypeInv'
<1>1. TypeOK
  BY DEF TypeInv
<1>2. cut' \in SUBSET Names
  <2>1. cut \in SUBSET Names
    BY <1>1 DEF TypeOK
  <2> QED
    BY <1>1, <2>1, JobFields DEF Crash
<1>3. /\ pc' = [j \in Jobs |-> "idle"] /\ job' = [j \in Jobs |-> NoJob]
      /\ mem' = <<>> /\ up' = "down" /\ prunes' = <<>> /\ pruning' = None
      /\ UNCHANGED <<remote, fileVars, dbVars, dayMark, unhealed, best, days>>
      /\ faults' = faults + 1
  BY DEF Crash, Fault
<1>4. TypeOK'
  BY <1>1, <1>2, <1>3, NoJobType DEF TypeOK, fileVars, dbVars
<1>5. JobsKnow' /\ Stamped'
  <2>1. \A j \in Jobs : pc'[j] = "idle"
    BY <1>3
  <2>2. JobsKnow'
    BY <2>1 DEF JobsKnow
  <2>3. Stamped'
    BY <1>3, <2>1 DEF TypeInv, Stamped, Has, Working, dbVars
  <2> QED
    BY <2>2, <2>3
<1> QED
  BY <1>4, <1>5 DEF TypeInv

\* Every step keeps the types.
LEMMA TypeStep ==
  ASSUME TypeInv, [Next]_vars
  PROVE  TypeInv'
<1>1. TypeOK
  BY DEF TypeInv
<1>2. ASSUME UNCHANGED <<rows, at, pc, job>>, TypeOK'
      PROVE  TypeInv'
  BY <1>2 DEF TypeInv, JobsKnow, Stamped, Has, Working
<1>3. CASE PruneMeta
  <2>1. TypeOK'
    BY <1>1, <1>3 DEF PruneMeta, TypeOK, fileVars, jobVars, historyVars
  <2> QED
    BY <1>2, <1>3, <2>1 DEF PruneMeta, jobVars
<1>4. CASE PruneFails
  <2>1. TypeOK'
    <3>1. /\ prunes' \in Seq(Names) /\ pruning' \in Names \cup {None} /\ faults' \in Nat
          /\ UNCHANGED <<remote, fileVars, dbVars, mem, up, jobVars, dayMark, historyVars, days>>
      <4>1. prunes \in Seq(Names) /\ pruning \in Names \cup {None} /\ faults \in Nat
        BY <1>1 DEF TypeOK
      <4>2. prunes # <<>> => Tail(prunes) \in Seq(Names)
        BY <4>1
      <4> QED
        BY <1>4, <4>1, <4>2 DEF PruneFails, Fault
    <3> QED
      BY <1>1, <3>1 DEF TypeOK, fileVars, dbVars, jobVars, historyVars
  <2> QED
    BY <1>2, <1>4, <2>1 DEF PruneFails, dbVars, jobVars
<1>5. CASE Publish
  <2>1. remote' \in Versions
    BY <1>1, <1>5, Bounds DEF Publish, TypeOK, Versions
  <2>2. TypeOK'
    BY <1>1, <1>5, <2>1 DEF Publish, TypeOK, fileVars, dbVars, jobVars, pruneVars, historyVars
  <2> QED
    BY <1>2, <1>5, <2>2 DEF Publish, dbVars, jobVars
<1>6. CASE Day
  <2>1. dayMark' \in Nat
    BY <1>1, <1>6, NowIsLater DEF Day, TypeOK
  <2>2. TypeOK'
    BY <1>1, <1>6, <2>1 DEF Day, TypeOK, fileVars, dbVars, jobVars, pruneVars, historyVars
  <2> QED
    BY <1>2, <1>6, <2>2 DEF Day, dbVars, jobVars
<1>7. CASE UNCHANGED vars
  BY <1>7 DEF TypeInv, TypeOK, JobsKnow, Stamped, Has, Working, vars, fileVars, dbVars,
              jobVars, pruneVars, historyVars
<1>8. CASE BootStep
  BY <1>8, NamesFacts, StartTypes, CommitTypes, RaiseTypes, BootedTypes DEF BootStep
<1>9. CASE \E r \in Reloads : Work(r)
  BY <1>9, NamesFacts, DownloadTypes, CheckTypes, CommitTypes, RaiseTypes, UpdateTypes DEF Work
<1> QED
  BY <1>3, <1>4, <1>5, <1>6, <1>7, <1>8, <1>9, PruneEntriesTypes, CrashTypes DEF Next

LEMMA TypeInit == Init => TypeInv
<1> SUFFICES ASSUME Init
             PROVE  TypeInv
  OBVIOUS
<1>1. 1 \in Versions /\ NoJob \in Job
  BY Bounds, NoJobType DEF Versions
<1>2. TypeOK
  <2>1. /\ rows \in [Names -> Seq(Versions)] /\ at \in [Names -> Nat]
        /\ meta \in [Names -> SUBSET Types]
    BY DEF Init
  <2>2. mem \in Seq(Catalog) /\ prunes \in Seq(Names)
    BY DEF Init
  <2>3. job \in [Jobs -> Job]
    BY <1>1 DEF Init
  <2> QED
    BY <1>1, <2>1, <2>2, <2>3, NamesFacts DEF Init, TypeOK
<1>3. JobsKnow /\ Stamped
  BY DEF Init, JobsKnow, Stamped, Has, Working
<1> QED
  BY <1>2, <1>3 DEF TypeInv

\* The types are right for any number of reloads at once: a start can order
\* the versions by the time they were loaded, since no two were at the same.
THEOREM TypeCorrect == Spec => []TypeOK
<1>1. TypeInv => TypeOK
  BY DEF TypeInv
<1> QED
  BY <1>1, TypeInit, TypeStep, PTL DEF Spec

-----------------------------------------------------------------------------
(* The inductive invariant, as long as no reload overlaps another.          *)

Apart == \A r, s \in Reloads : pc[r] # "idle" /\ pc[s] # "idle" => r = s

\* The version that an insertion without a download is given.
Filed == IF ver \in Versions THEN ver ELSE Blank

\* Insertions are made one at a time, during the start or afterwards.
Phases ==
  /\ pc[Boot] \in {"idle", "insert", "append"}
  /\ pc[Boot] # "idle" <=> up = "boot"
  /\ \A r \in Reloads : pc[r] # "idle" => up = "up"
  /\ \A j \in Jobs : pc[j] = "idle" => job[j] = NoJob
  /\ up = "down" => mem = <<>> /\ prunes = <<>>

\* A version that is newer than all that are known here.
Newer(v) ==
  /\ best < v
  /\ \A w \in Names : Has(w) => w < v
  /\ \A i \in DOMAIN mem : mem[i].version < v

\* No version is newer than that of the file or, if it has none, all are older
\* than the one published.
Bounded(v) == IF ver \in Versions THEN v <= ver ELSE v < remote

Versioned ==
  /\ ver \in Versions => ver <= remote
  /\ ver # None => json # None
  /\ Bounded(best)
  /\ \A w \in Names : Has(w) => Bounded(w)
  /\ \A i \in DOMAIN mem : Bounded(mem[i].version)

\* A version worth a download.
Wanted(v) ==
  /\ v \in Versions /\ v <= remote /\ Newer(v)
  /\ ver \in Versions => ver < v

\* A download that goes on is one of a new version.
Downloading(r) ==
  /\ pc[r] \in {"ask", "fetch", "open", "write"}
       => job[r].cached = Filed /\ ~job[r].required
  /\ pc[r] \in {"ask", "fetch", "open", "write", "openVersion", "writeVersion", "check"}
       => ~job[r].only
  /\ pc[r] = "ask" => job[r].version = None
  /\ pc[r] \in {"fetch", "open", "write", "openVersion", "writeVersion"}
       => \/ job[r].version = None /\ pc[r] \notin {"openVersion", "writeVersion"}
          \/ Wanted(job[r].version)
  /\ pc[r] \in {"openVersion", "writeVersion"} => job[r].required /\ json # None
  /\ pc[r] = "check" =>
       IF job[r].required
       THEN \/ job[r].version = None
            \/ /\ job[r].version = ver /\ ver \in Versions
               /\ Newer(ver)
       ELSE job[r].version = Filed

Downloads == \A r \in Reloads : Downloading(r)

\* A prune that is queued does not reach the version.
Shielded(v) == \A k \in Range(prunes) : v = k \/ dayMark < at[v]

\* A version that may be shown as the latest: none newer was seen, its rows are
\* there unless it was cut short, no prune reaches them, and they are no older
\* than a catalogue in the list.
Sound(v) ==
  /\ best <= v
  /\ v \notin cut => Has(v)
  /\ Has(v) => Shielded(v) /\ \E i \in DOMAIN mem : mem[i].version = v /\ mem[i].at <= at[v]

\* The newest version in the list, which the blank version may hide.
Top(i) ==
  /\ mem[i].version \in Versions
  /\ \A k \in DOMAIN mem : mem[k].version <= mem[i].version

Hidden == unhealed /\ \A i \in DOMAIN mem : Top(i) => Sound(mem[i].version)

\* What an insertion has done, in order and alone.
Inserting(j) ==
  LET v == job[j].version
  IN  /\ v \in {None, Filed}
      /\ job[j].only => j = Boot /\ v # None /\ mem # <<>>
      /\ j = Boot /\ ~job[j].only => mem = <<>>
      /\ pc[j] = "insert" => job[j].next \in 1..(Chunks + MetaTypes)
      /\ pc[j] = "append" => job[j].next = Chunks + MetaTypes + 1
      /\ Len(job[j].parsed) = IF job[j].next <= Chunks THEN job[j].next - 1 ELSE Chunks
      /\ \A n \in DOMAIN job[j].parsed : job[j].parsed[n] = json
      /\ 1 < job[j].next => /\ v # None
                            /\ ~job[j].only => rows[v] = job[j].parsed /\ at[v] = job[j].at
      /\ dayMark < job[j].at
      /\ \A w \in Names : w = v \/ at[w] < job[j].at
      /\ \A i \in DOMAIN mem : mem[i].at < job[j].at
      /\ j # Boot =>
           /\ v \in Versions => \A i \in DOMAIN mem : mem[i].version < v
           /\ v = Blank /\ mem # <<>> => /\ Latest.version = Blank
                                         /\ 1 < job[j].next => Hidden

Insertions == \A j \in Jobs : Working(j) => Inserting(j)

\* Insertion j is about the entries of v.
Filling(j, v) == pc[j] = "insert" /\ Entries(j) /\ ~job[j].only /\ job[j].version = v

\* The rows of newer versions were loaded later, those of the version in the
\* file last of all.
RowsOrdered ==
  /\ \A v, w \in Names : Has(v) /\ Has(w) /\ v # w => at[v] # at[w]
  /\ \A v, w \in Versions : Has(v) /\ Has(w) /\ v < w => at[v] < at[w]
  /\ ver \in Versions /\ Has(ver) => \A w \in Names : Has(w) => at[w] <= at[ver]

\* What was not cut short is whole, and the version in the file is there.
RowsWhole ==
  /\ \A v \in Versions \ cut : Has(v) => Whole(v) \/ \E j \in Jobs : Filling(j, v)
  /\ ver \in Versions \ cut =>
       \/ Has(ver) \/ \E j \in Jobs : Filling(j, ver)
       \/ \E r \in Reloads : pc[r] = "check" /\ job[r].required /\ job[r].version = ver

\* Prunes keep the version in the file, the newest version there is, and what
\* was loaded after the version they are to keep.
RowsKept ==
  /\ ver \in Versions /\ Has(ver) => Shielded(ver)
  /\ \A v \in Versions : Has(v) /\ (\A w \in Versions : Has(w) => w <= v) => best <= v
  /\ \A k \in Range(prunes) : Has(k) =>
       \A w \in Names : Has(w) /\ at[k] < at[w] => dayMark < at[w]

\* The list is in the order in which its catalogues were loaded.
MemOrdered ==
  /\ \A i, k \in DOMAIN mem : i < k => mem[i].at < mem[k].at
  /\ \A i, k \in DOMAIN mem : i < k /\ mem[k].version # Blank
                                => mem[i].version <= mem[k].version
  /\ \A i \in DOMAIN mem : mem[i].count # <<>>

\* The last of the list.
LatestSound ==
  mem # <<>> =>
    /\ Latest.version \in Versions =>
         /\ Sound(Latest.version)
         /\ \/ unhealed \/ Latest.version \in cut
            \/ Latest.count = rows[Latest.version]
    /\ Latest.version = Blank =>
         /\ (Has(Blank) /\ Shielded(Blank)) \/ Hidden
         /\ ver \in Versions => \A i \in DOMAIN mem : mem[i].version # ver
    /\ up = "up" /\ ~unhealed => Latest.meta = Types

\* While the server starts the list is what is stored.
Booting ==
  up = "boot" /\ mem # <<>> =>
    /\ \A w \in Names : Has(w) =>
         \E i \in DOMAIN mem : mem[i].version = w /\ mem[i].at <= at[w]
    /\ ~unhealed => ver = Latest.version /\ Range(Latest.count) \subseteq {json}

IInv ==
  /\ Phases /\ Versioned /\ Downloads /\ Insertions
  /\ RowsOrdered /\ RowsWhole /\ RowsKept
  /\ MemOrdered /\ LatestSound /\ Booting

-----------------------------------------------------------------------------
(* Every step keeps it.                                                    *)

Inv == TypeInv /\ Apart /\ IInv

\* Only one job is under way.
LEMMA Alone ==
  ASSUME Inv
  PROVE  /\ \A i, j \in Jobs : pc[i] # "idle" /\ pc[j] # "idle" => i = j
         /\ \A r \in Reloads : pc[r] # "idle" => up = "up" /\ pc[Boot] = "idle"
         /\ up # "boot" => pc[Boot] = "idle"
BY NamesFacts DEF Inv, IInv, Phases, Apart

\* The fields of the list.
LEMMA ListFields ==
  ASSUME NEW cats \in Seq(Catalog)
  PROVE  /\ \A i \in DOMAIN cats :
              /\ cats[i] \in Catalog /\ cats[i].version \in Names
              /\ cats[i].count \in Seq(Versions) /\ cats[i].at \in Nat
         /\ DOMAIN cats = 1..Len(cats) /\ Len(cats) \in Nat
         /\ cats # <<>> => Len(cats) \in DOMAIN cats /\ Last(cats) = cats[Len(cats)]
         /\ cats # <<>> => Last(cats).version \in Names
<1>1. \A i \in DOMAIN cats : cats[i] \in Catalog
  OBVIOUS
<1>2. \A i \in DOMAIN cats : cats[i].version \in Names /\ cats[i].count \in Seq(Versions)
                            /\ cats[i].at \in Nat
  BY <1>1 DEF Catalog
<1>3. cats # <<>> => Len(cats) \in DOMAIN cats /\ Last(cats) = cats[Len(cats)]
  BY DEF Last
<1> QED
  BY <1>1, <1>2, <1>3

LEMMA InitInv == Init => Inv
<1> SUFFICES ASSUME Init
             PROVE  Inv
  OBVIOUS
<1>1. TypeInv
  BY TypeInit
<1>2. \A v \in Names : ~Has(v)
  BY DEF Init, Has
<1>3. mem = <<>> /\ prunes = <<>> /\ up = "down" /\ ver = None
      /\ \A j \in Jobs : pc[j] = "idle" /\ job[j] = NoJob
  BY DEF Init
<1>4. ver \notin Versions /\ ver \notin Names
  BY <1>3, NamesFacts
<1>5. Phases
  BY <1>3, NamesFacts DEF Phases
<1>6. Versioned
  BY <1>2, <1>3, <1>4, NamesFacts DEF Versioned, Bounded, Init
<1>7. Downloads
  BY <1>3, NamesFacts DEF Downloads, Downloading
<1>8. Insertions
  BY <1>3 DEF Insertions, Working
<1>9. RowsOrdered /\ RowsWhole /\ RowsKept
  BY <1>2, <1>3, <1>4, NamesFacts DEF RowsOrdered, RowsWhole, RowsKept, Range, Init
<1>10. MemOrdered /\ LatestSound /\ Booting
  BY <1>3 DEF MemOrdered, LatestSound, Booting
<1> QED
  BY <1>1, <1>3, <1>5, <1>6, <1>7, <1>8, <1>9, <1>10, NamesFacts DEF Inv, IInv, Apart

\* What a step keeps that changes no more than jobs, files and what is published,
\* when no insertion is under way or begins.
Quiet == UNCHANGED <<rows, at, mem, up, prunes, dayMark, cut, unhealed, best>>

LEMMA QuietFacts ==
  ASSUME Quiet
  PROVE  /\ \A v \in Names : (Has(v)' <=> Has(v)) /\ (Shielded(v)' <=> Shielded(v))
                             /\ (Sound(v)' <=> Sound(v)) /\ (Whole(v)' <=> Whole(v))
                             /\ (Newer(v)' <=> Newer(v))
         /\ Latest' = Latest /\ (Hidden' <=> Hidden)
         /\ (MemOrdered' <=> MemOrdered)
<1> USE DEF Quiet
<1>1. \A v \in Names : (Has(v)' <=> Has(v)) /\ (Shielded(v)' <=> Shielded(v))
  BY DEF Has, Shielded
<1>2. \A v \in Names : Sound(v)' <=> Sound(v)
  BY DEF Sound, Has, Shielded
<1>3. \A v \in Names : (Whole(v)' <=> Whole(v)) /\ (Newer(v)' <=> Newer(v))
  BY DEF Whole, Newer, Has
<1>4. Latest' = Latest /\ (MemOrdered' <=> MemOrdered)
  BY DEF Latest, MemOrdered
<1>5. Hidden' <=> Hidden
  BY DEF Hidden, Top, Sound, Has, Shielded
<1> QED
  BY <1>1, <1>2, <1>3, <1>4, <1>5

\* Neither does such a step touch what holds of the rows and the list, if it
\* leaves the version file alone.
LEMMA QuietKeeps ==
  ASSUME Inv, Quiet, ver' = ver
  PROVE  RowsOrdered' /\ RowsKept' /\ MemOrdered' /\ LatestSound'
<1>1. RowsOrdered'
  BY DEF RowsOrdered, Inv, IInv, Quiet, Has
<1>2. RowsKept'
  BY DEF RowsKept, Inv, IInv, Quiet, Has, Shielded
<1>3. MemOrdered'
  BY QuietFacts DEF Inv, IInv
<1>4. LatestSound'
  <2>1. mem # <<>> => Latest.version \in Names
    BY ListFields DEF Inv, TypeInv, TypeOK, Latest
  <2>2. Latest' = Latest /\ (Hidden' <=> Hidden)
    BY QuietFacts
  <2>3. mem # <<>> => (Sound(Latest.version)' <=> Sound(Latest.version))
    BY <2>1, <2>2, QuietFacts DEF Sound, Has, Shielded, Quiet
  <2>4. (Has(Blank) /\ Shielded(Blank))' <=> (Has(Blank) /\ Shielded(Blank))
    BY NamesFacts, QuietFacts
  <2> QED
    BY <2>1, <2>2, <2>3, <2>4 DEF LatestSound, Inv, IInv, Quiet
<1> QED
  BY <1>1, <1>2, <1>3, <1>4

\* A download's step needs to show no more than what it makes of the version file
\* and of what the reload knows.
LEMMA DownloadKeeps ==
  ASSUME Inv, TypeInv', Apart', Quiet, NEW r \in Reloads, up = "up", pc[r] # "check", ~Working(r),
         NEW place \in {"ask", "fetch", "open", "write", "openVersion", "writeVersion", "check"},
         NEW new, OnlyJob(r, place, new),
         Versioned', Downloading(r)',
         ver' \in Versions =>
           ver' = ver \/ (/\ Newer(ver') /\ place = "check"
                          /\ new.required /\ new.version = ver')
  PROVE  Inv'
<1>1. r \in Jobs /\ Boot \in Jobs /\ pc[Boot] = "idle" /\ r # Boot
  BY Alone, NamesFacts
<1>3. pc'[r] = place /\ job'[r] = new /\ pc'[Boot] = "idle" /\ job'[Boot] = job[Boot]
  BY <1>1 DEF OnlyJob
<1>2. \A s \in Reloads : s = r \/ (pc[s] = "idle" /\ pc'[s] = "idle" /\ job'[s] = job[s])
  BY <1>1, <1>3, NamesFacts DEF OnlyJob, Apart
<1>4. \A j \in Jobs : ~Working(j) /\ ~Working(j)'
  BY <1>1, <1>2, <1>3, NamesFacts DEF Working
<1>5. Phases'
  BY <1>1, <1>2, <1>3, NamesFacts DEF Phases, Inv, IInv, Quiet
<1>6. Downloads'
  BY <1>2 DEF Downloads, Downloading
<1>7. Insertions'
  BY <1>4 DEF Insertions
<1>8. RowsOrdered'
  <2>1. Newer(ver') => \A w \in Names : Has(w) => w # ver'
    BY NamesFacts DEF Newer
  <2> QED
    BY <2>1, NamesFacts DEF RowsOrdered, Inv, IInv, Quiet, Has
<1>9. RowsWhole'
  <2>1. \A j \in Jobs, v \in Names : ~Filling(j, v)
    BY <1>4 DEF Filling, Working
  <2>2. \A s \in Reloads : pc[s] # "check"
    BY <1>2
  <2>3. \A v \in Versions \ cut : Has(v) => Whole(v)
    BY <2>1, NamesFacts DEF RowsWhole, Inv, IInv
  <2>4. ver \in Versions \ cut => Has(ver)
    BY <2>1, <2>2, NamesFacts DEF RowsWhole, Inv, IInv
  <2> QED
    BY <1>3, <2>3, <2>4, QuietFacts, NamesFacts DEF RowsWhole, Quiet
<1>10. RowsKept'
  <2>1. ver' \in Versions /\ ver' # ver => ~Has(ver')
    <3>1. Newer(ver') => \A w \in Names : Has(w) => w < ver'
      BY DEF Newer
    <3>2. ver' \in Versions => ver' \in Names /\ ~(ver' < ver')
      BY NamesFacts
    <3> QED
      BY <3>1, <3>2 DEF Has
  <2> QED
    BY <2>1, NamesFacts DEF RowsKept, Inv, IInv, Quiet, Has, Shielded
<1>11. MemOrdered'
  BY QuietFacts DEF Inv, IInv
<1>12. LatestSound'
  <2>1. mem # <<>> => Latest.version \in Names
    BY ListFields DEF Inv, TypeInv, TypeOK, Latest
  <2>2. ver' \in Versions /\ ver' # ver => \A i \in DOMAIN mem : mem[i].version # ver'
    <3>1. Newer(ver') => \A i \in DOMAIN mem : mem[i].version < ver'
      BY DEF Newer
    <3>2. ver' \in Versions => ~(ver' < ver')
      BY NamesFacts
    <3> QED
      BY <3>1, <3>2
  <2>3. Latest' = Latest /\ (Hidden' <=> Hidden)
    BY QuietFacts
  <2>4. mem # <<>> => (Sound(Latest.version)' <=> Sound(Latest.version))
    BY <2>1, <2>3, QuietFacts DEF Sound, Has, Shielded, Quiet
  <2>5. (Has(Blank) /\ Shielded(Blank))' <=> (Has(Blank) /\ Shielded(Blank))
    BY NamesFacts, QuietFacts
  <2> QED
    BY <2>1, <2>2, <2>3, <2>4, <2>5, NamesFacts DEF LatestSound, Inv, IInv, Quiet
<1>13. Booting'
  BY DEF Booting, Quiet
<1> QED
  BY <1>5, <1>6, <1>7, <1>8, <1>9, <1>10, <1>11, <1>12, <1>13 DEF Inv, IInv

\* What is known here is older than what is published, unless the file has it.
LEMMA RemoteIsNewer ==
  ASSUME Inv, remote # Filed
  PROVE  Wanted(remote)
<1>1. /\ remote \in Versions /\ best \in Names /\ mem \in Seq(Catalog)
      /\ ver \in Names \cup {None} /\ Versioned
  BY DEF Inv, TypeInv, TypeOK, IInv
<1>2. ver \in Versions => ver < remote
  BY <1>1, NamesFacts DEF Filed, Versioned
<1>3. \A v \in Names : Bounded(v) => v < remote
  BY <1>1, <1>2, NamesFacts DEF Bounded
<1>4. \A i \in DOMAIN mem : mem[i].version \in Names
  BY <1>1, ListFields
<1>5. Newer(remote)
  BY <1>1, <1>3, <1>4 DEF Newer, Versioned
<1> QED
  BY <1>1, <1>2, <1>5, NamesFacts DEF Wanted

LEMMA ReloadKeeps ==
  ASSUME Inv, TypeInv', Apart', NEW r \in Reloads, Reload(r)
  PROVE  Inv'
<1> DEFINE new == [job[r] EXCEPT !.cached = IF ver # None /\ json # None THEN ver ELSE Blank]
<1>1. /\ Quiet /\ up = "up" /\ pc[r] = "idle" /\ ver' = ver /\ json' = json /\ remote' = remote
      /\ r \in Jobs
  BY NamesFacts DEF Reload, Quiet, fileVars, dbVars, pruneVars, historyVars
<1>2. OnlyJob(r, "ask", new)
  BY ReloadSets DEF Inv, TypeInv
<1>3. Versioned'
  BY <1>1 DEF Inv, IInv, Versioned, Bounded, Has, Quiet
<1>4. Downloading(r)'
  <2>1. job[r] = NoJob /\ job[r] \in Job
    BY <1>1, NoJobType DEF Inv, IInv, Phases
  <2>2. new.version = None /\ new.required = FALSE /\ new.only = FALSE
        /\ new.cached = IF ver # None /\ json # None THEN ver ELSE Blank
    BY <2>1 DEF Job, NoJob
  <2>3. (IF ver # None /\ json # None THEN ver ELSE Blank) = Filed
    BY NamesFacts DEF Filed, Inv, IInv, TypeInv, TypeOK, Versioned, Names
  <2>4. Filed' = Filed
    BY <1>1 DEF Filed
  <2> HIDE DEF new
  <2> QED
    BY <1>1, <1>2, <2>2, <2>3, <2>4 DEF Downloading, OnlyJob
<1> QED
  BY <1>1, <1>2, <1>3, <1>4, DownloadKeeps DEF Working

\* What a download leaves alone until it writes the version file.
LEMMA BeforeVersion ==
  ASSUME Inv, TypeInv', Apart', Quiet, NEW r \in Reloads, ver' = ver, remote' = remote,
         json' # None \/ json' = json
  PROVE  /\ Versioned' /\ Filed' = Filed
         /\ \A v \in Names : Wanted(v) => Wanted(v)'
<1>1. \A v \in Names : Newer(v)' <=> Newer(v)
  BY QuietFacts
<1> QED
  BY <1>1, NamesFacts DEF Inv, IInv, Versioned, Bounded, Has, Quiet, Filed, Wanted

LEMMA AskKeeps ==
  ASSUME Inv, TypeInv', Apart', NEW r \in Reloads, Ask(r)
  PROVE  Inv'
<1> DEFINE new == [job[r] EXCEPT !.version = remote]
           place == IF remote = job[r].cached THEN "check" ELSE "fetch"
<1>1. /\ Quiet /\ up = "up" /\ pc[r] = "ask" /\ ver' = ver /\ json' = json /\ remote' = remote
      /\ r \in Jobs /\ TypeOK /\ remote \in Names
  <2>1. pc[r] = "ask"
    BY DEF Ask
  <2>2. up = "up"
    BY <2>1, Alone
  <2> QED
    BY <2>1, <2>2, NamesFacts
       DEF Ask, Quiet, fileVars, dbVars, pruneVars, historyVars, Inv, TypeInv, TypeOK
<1>2. /\ job[r].cached = Filed /\ job[r].required = FALSE /\ job[r].only = FALSE /\ job[r].version = None
      /\ job[r] \in Job
  BY <1>1, JobFields DEF Inv, IInv, Downloads, Downloading
<1>3. Versioned' /\ Filed' = Filed /\ \A v \in Names : Wanted(v) => Wanted(v)'
  BY <1>1, BeforeVersion
<1>4. ASSUME NEW p \in {"check", "fetch"}, NEW n, OnlyJob(r, p, n), Downloading(r)'
      PROVE  Inv'
  BY <1>1, <1>3, <1>4, DownloadKeeps DEF Working
<1>5. CASE OnlyJob(r, "fetch", job[r])
  <2>1. Downloading(r)'
    BY <1>2, <1>3, <1>5 DEF Downloading, OnlyJob
  <2> QED
    BY <1>4, <1>5, <2>1
<1>6. CASE OnlyJob(r, place, new)
  <2>1. /\ new.version = remote /\ new.required = FALSE /\ new.only = FALSE /\ new.cached = Filed
    BY <1>2 DEF Job
  <2>2. place \in {"check", "fetch"} /\ (place = "check" <=> remote = Filed)
    BY <1>2
  <2>3. remote # Filed => Wanted(remote)'
    BY <1>1, <1>3, RemoteIsNewer
  <2> HIDE DEF new, place
  <2>4. pc'[r] = place /\ job'[r] = new
    BY <1>6 DEF OnlyJob
  <2>5. CASE place = "check"
    <3>1. Downloading(r)'
      BY <1>3, <2>1, <2>2, <2>4, <2>5 DEF Downloading
    <3> QED
      BY <1>4, <1>6, <2>2, <3>1
  <2>6. CASE place = "fetch"
    <3>1. Wanted(job[r].version)'
      BY <1>1, <2>1, <2>2, <2>3, <2>4, <2>6 DEF Wanted, Newer
    <3>2. Downloading(r)'
      BY <1>3, <2>1, <2>4, <2>6, <3>1 DEF Downloading
    <3> QED
      BY <1>4, <1>6, <2>2, <3>2
  <2> QED
    BY <2>2, <2>5, <2>6
<1> QED
  BY <1>1, <1>5, <1>6, AskSets

\* Without a download the version is that of the file, and nothing is asked for.
LEMMA NotDownloadedKeeps ==
  ASSUME Inv, TypeInv', Apart', Quiet, ver' = ver, remote' = remote, json' = json,
         NEW r \in Reloads, pc[r] \in {"fetch", "write"},
         OnlyJob(r, "check", [job[r] EXCEPT !.version = job[r].cached, !.got = None])
  PROVE  Inv'
<1> DEFINE new == [job[r] EXCEPT !.version = job[r].cached, !.got = None]
<1>1. up = "up" /\ r \in Jobs
  BY Alone, NamesFacts
<1>2. job[r].cached = Filed /\ job[r].required = FALSE /\ job[r].only = FALSE /\ job[r] \in Job
  BY <1>1, JobFields DEF Inv, TypeInv, IInv, Downloads, Downloading
<1>3. new.version = Filed /\ new.required = FALSE /\ new.only = FALSE
  BY <1>2 DEF Job
<1>4. Versioned' /\ Filed' = Filed
  BY BeforeVersion
<1> HIDE DEF new
<1>5. pc'[r] = "check" /\ job'[r] = new
  BY DEF OnlyJob, new
<1>6. Downloading(r)'
  BY <1>3, <1>4, <1>5 DEF Downloading
<1> QED
  BY <1>1, <1>4, <1>6, DownloadKeeps DEF Working

LEMMA FetchKeeps ==
  ASSUME Inv, TypeInv', Apart', NEW r \in Reloads, Fetch(r)
  PROVE  Inv'
<1> DEFINE new == [job[r] EXCEPT !.got = remote]
<1>1. /\ Quiet /\ pc[r] = "fetch" /\ ver' = ver /\ json' = json /\ remote' = remote
      /\ r \in Jobs /\ TypeOK
  BY NamesFacts
     DEF Fetch, Quiet, fileVars, dbVars, pruneVars, historyVars, Inv, TypeInv
<1>2. /\ job[r].cached = Filed /\ job[r].required = FALSE /\ job[r].only = FALSE
      /\ job[r].version = None \/ Wanted(job[r].version)
      /\ job[r] \in Job /\ job[r].version \in Names \cup {None}
  BY <1>1, JobFields DEF Inv, IInv, Downloads, Downloading
<1>3. CASE OnlyJob(r, "open", new)
  <2>1. new.version = job[r].version /\ new.cached = Filed /\ new.required = FALSE /\ new.only = FALSE
    BY <1>2 DEF Job
  <2>2. Versioned' /\ Filed' = Filed /\ \A v \in Names : Wanted(v) => Wanted(v)'
    BY <1>1, BeforeVersion
  <2> HIDE DEF new
  <2>3. pc'[r] = "open" /\ job'[r] = new
    BY <1>3 DEF OnlyJob
  <2>4. job'[r].version = None \/ Wanted(job[r].version)'
    BY <1>1, <1>2, <2>1, <2>2, <2>3 DEF Wanted, Newer, Has, Quiet
  <2>5. Downloading(r)'
    BY <2>1, <2>2, <2>3, <2>4 DEF Downloading
  <2> QED
    BY <1>1, <1>3, <2>2, <2>5, Alone, DownloadKeeps DEF Working
<1> QED
  BY <1>1, <1>3, FetchSets, NotDownloadedKeeps

LEMMA OpenJsonKeeps ==
  ASSUME Inv, TypeInv', Apart', NEW r \in Reloads, OpenJson(r)
  PROVE  Inv'
<1>1. /\ Quiet /\ pc[r] = "open" /\ ver' = ver /\ json' = Torn /\ remote' = remote
      /\ r \in Jobs /\ TypeOK /\ Torn # None /\ Goto(r, "write")
  BY NamesFacts
     DEF OpenJson, Quiet, fileVars, dbVars, pruneVars, historyVars, Inv, TypeInv
<1>2. OnlyJob(r, "write", job[r])
  BY <1>1, GotoSets DEF Places
<1>3. /\ job[r].cached = Filed /\ job[r].required = FALSE /\ job[r].only = FALSE
      /\ job[r].version = None \/ Wanted(job[r].version)
  BY <1>1, JobFields DEF Inv, IInv, Downloads, Downloading
<1>4. Versioned' /\ Filed' = Filed
  BY <1>1, BeforeVersion
<1>5. pc'[r] = "write" /\ job'[r] = job[r]
  BY <1>2 DEF OnlyJob
<1>6. job[r].version = None \/ Wanted(job[r].version)'
  BY <1>1, <1>3, <1>5 DEF Wanted, Newer, Has, Quiet
<1>7. Downloading(r)'
  BY <1>3, <1>4, <1>5, <1>6 DEF Downloading
<1> QED
  BY <1>1, <1>2, <1>4, <1>7, Alone, DownloadKeeps DEF Working

LEMMA WriteJsonKeeps ==
  ASSUME Inv, TypeInv', Apart', NEW r \in Reloads, WriteJson(r)
  PROVE  Inv'
<1> DEFINE new == [job[r] EXCEPT !.required = TRUE, !.got = None]
           place == IF job[r].version = None THEN "check" ELSE "openVersion"
<1>1. /\ Quiet /\ pc[r] = "write" /\ ver' = ver /\ remote' = remote
      /\ r \in Jobs /\ TypeOK
  BY NamesFacts
     DEF WriteJson, Quiet, fileVars, dbVars, pruneVars, historyVars, Inv, TypeInv
<1>2. /\ job[r].version = None \/ Wanted(job[r].version)
      /\ job[r] \in Job /\ job[r].got \in Versions /\ job[r].only = FALSE
  BY <1>1, JobFields DEF Inv, IInv, TypeInv, JobsKnow, Downloads, Downloading
<1>3. CASE OnlyJob(r, place, new) /\ json' = job[r].got
  <2>1. new.version = job[r].version /\ new.required = TRUE /\ new.only = FALSE
    BY <1>2 DEF Job
  <2>2. json' # None
    BY <1>2, <1>3, NamesFacts
  <2>3. Versioned' /\ Filed' = Filed
    BY <1>1, <2>2, BeforeVersion
  <2>4. /\ place \in {"check", "openVersion"}
        /\ place = "check" => job[r].version = None
        /\ place = "openVersion" => job[r].version # None
    OBVIOUS
  <2> HIDE DEF new, place
  <2>5. pc'[r] = place /\ job'[r] = new
    BY <1>3 DEF OnlyJob
  <2>6. job[r].version = None \/ Wanted(job[r].version)'
    BY <1>1, <1>2, <2>1, <2>5 DEF Wanted, Newer, Has, Quiet
  <2>7. Downloading(r)'
    BY <2>1, <2>2, <2>4, <2>5, <2>6 DEF Downloading
  <2> QED
    BY <1>1, <1>3, <2>3, <2>4, <2>7, Alone, DownloadKeeps DEF Working
<1>4. CASE /\ OnlyJob(r, "check", [job[r] EXCEPT !.version = job[r].cached, !.got = None])
           /\ json' = json
  BY <1>1, <1>4, NotDownloadedKeeps
<1> QED
  BY <1>1, <1>3, <1>4, WriteJsonSets

\* The version file gets a version that is newer than all that is known.
LEMMA FileBounds ==
  ASSUME Inv, TypeInv', Apart', Quiet, remote' = remote, json' # None,
         NEW v \in Versions, Newer(v), v <= remote, ver' \in {Blank, v}
  PROVE  Versioned'
<1>1. /\ TypeOK /\ remote \in Nat /\ v \in Nat /\ Names \subseteq Nat /\ Blank \notin Versions
  BY NamesFacts DEF Inv, TypeInv, TypeOK
<1>2. ASSUME NEW w \in Names, w < v
      PROVE  Bounded(w)'
  <2>1. w \in Nat /\ w < remote /\ w <= v
    BY <1>1, <1>2
  <2> QED
    BY <1>1, <2>1 DEF Bounded
<1>3. best \in Names /\ best < v
  BY <1>1 DEF TypeOK, Newer
<1>4. \A w \in Names : Has(w) => w < v
  BY DEF Newer
<1>5. \A i \in DOMAIN mem : mem[i].version \in Names /\ mem[i].version < v
  BY <1>1, ListFields DEF Newer, TypeOK
<1>6. Bounded(best)'
  BY <1>2, <1>3 DEF Bounded, Quiet
<1>7. \A i \in DOMAIN mem' : Bounded(mem[i].version)'
  BY <1>2, <1>5 DEF Bounded, Quiet
<1>8. \A w \in Names : Has(w)' => Bounded(w)'
  BY <1>2, <1>4, QuietFacts
<1> QED
  BY <1>1, <1>6, <1>7, <1>8, NamesFacts DEF Versioned

LEMMA OpenVersionKeeps ==
  ASSUME Inv, TypeInv', Apart', NEW r \in Reloads, OpenVersion(r)
  PROVE  Inv'
<1> DEFINE v == job[r].version
<1>1. /\ Quiet /\ pc[r] = "openVersion" /\ ver' = Blank /\ json' = json /\ remote' = remote
      /\ r \in Jobs /\ TypeOK /\ Goto(r, "writeVersion")
  BY NamesFacts
     DEF OpenVersion, Quiet, fileVars, dbVars, pruneVars, historyVars, Inv, TypeInv
<1>2. OnlyJob(r, "writeVersion", job[r])
  BY <1>1, GotoSets DEF Places
<1>3. Wanted(v) /\ job[r].required /\ ~job[r].only /\ json # None
  BY <1>1 DEF Inv, IInv, Downloads, Downloading
<1>4. pc'[r] = "writeVersion" /\ job'[r] = job[r]
  BY <1>2 DEF OnlyJob
<1>5. Newer(v) /\ v \in Versions /\ v <= remote /\ remote \in Versions
  BY <1>1, <1>3 DEF Wanted, TypeOK
<1>6. Versioned'
  BY <1>1, <1>3, <1>5, FileBounds
<1>7. Wanted(job[r].version)'
  <2>1. Newer(job[r].version)'
    BY <1>1, <1>4, <1>5 DEF Newer, Has, Quiet
  <2> QED
    BY <1>1, <1>4, <1>5, <2>1, NamesFacts DEF Wanted
<1>8. Downloading(r)'
  BY <1>1, <1>3, <1>4, <1>7 DEF Downloading
<1> QED
  BY <1>1, <1>2, <1>6, <1>8, NamesFacts, Alone, DownloadKeeps DEF Working

LEMMA WriteVersionKeeps ==
  ASSUME Inv, TypeInv', Apart', NEW r \in Reloads, WriteVersion(r)
  PROVE  Inv'
<1> DEFINE v == job[r].version
<1>1. /\ Quiet /\ pc[r] = "writeVersion" /\ ver' = v /\ json' = json /\ remote' = remote
      /\ r \in Jobs /\ TypeOK /\ Goto(r, "check")
  BY NamesFacts
     DEF WriteVersion, Quiet, fileVars, dbVars, pruneVars, historyVars, Inv, TypeInv
<1>2. OnlyJob(r, "check", job[r])
  BY <1>1, GotoSets DEF Places
<1>3. Wanted(v) /\ job[r].required /\ ~job[r].only /\ json # None
  BY <1>1 DEF Inv, IInv, Downloads, Downloading
<1>4. pc'[r] = "check" /\ job'[r] = job[r]
  BY <1>2 DEF OnlyJob
<1>5. Newer(v) /\ v \in Versions /\ v <= remote /\ remote \in Versions
  BY <1>1, <1>3 DEF Wanted, TypeOK
<1>6. Versioned'
  BY <1>1, <1>3, <1>5, FileBounds
<1>7. Newer(ver')
  BY <1>1, <1>5
<1>8. Newer(ver)'
  BY <1>1, <1>5 DEF Newer, Has, Quiet
<1>9. Downloading(r)'
  BY <1>1, <1>3, <1>4, <1>5, <1>8 DEF Downloading
<1> QED
  BY <1>1, <1>2, <1>3, <1>6, <1>7, <1>9, NamesFacts, Alone, DownloadKeeps DEF Working

\* The version of an insertion that begins after a download.
LEMMA WhatIsInserted ==
  ASSUME Inv, NEW r \in Reloads, pc[r] = "check", job[r].required \/ ~Loaded
  PROVE  LET v == job[r].version
         IN  /\ v \in {None, Filed}
             /\ v \in Versions => \A i \in DOMAIN mem : mem[i].version < v
             /\ v = Blank /\ mem # <<>> => Latest.version = Blank
<1> DEFINE v == job[r].version
<1>1. /\ TypeOK /\ mem \in Seq(Catalog) /\ ver \in Names \cup {None}
      /\ Downloading(r) /\ Versioned /\ MemOrdered /\ LatestSound
  BY DEF Inv, TypeInv, TypeOK, IInv, Downloads
<1>2. \A i \in DOMAIN mem : mem[i].version \in Names
  BY <1>1, ListFields
<1>3. CASE job[r].required
  <2>1. v = None \/ (v = ver /\ ver \in Versions /\ Newer(ver))
    BY <1>1, <1>3 DEF Downloading
  <2>2. v = None => v \notin Versions /\ v # Blank
    BY NamesFacts
  <2>3. v = ver /\ ver \in Versions => v = Filed /\ v # Blank
    BY NamesFacts DEF Filed
  <2> QED
    BY <2>1, <2>2, <2>3 DEF Newer
<1>4. CASE ~job[r].required
  <2>1. v = Filed /\ ~Loaded
    BY <1>1, <1>4 DEF Downloading
  <2>2. mem # <<>> => Latest.version = Blank
    BY <1>1, <2>1, ListFields DEF Loaded, MemOrdered, Latest
  <2>3. ASSUME v \in Versions, NEW i \in DOMAIN mem
        PROVE  mem[i].version < v
    <3>1. v = ver /\ ver \in Versions
      BY <2>1, <2>3, NamesFacts DEF Filed
    <3>2. Bounded(mem[i].version)
      BY <1>1, <2>3 DEF Versioned
    <3>3. mem[i].version <= ver
      BY <3>1, <3>2 DEF Bounded
    <3>4. mem # <<>>
      BY <2>3
    <3>5. mem[i].version # ver
      BY <1>1, <2>2, <2>3, <3>1, <3>4 DEF LatestSound
    <3>6. mem[i].version \in Nat /\ v \in Nat
      BY <1>2, <2>3, NamesFacts
    <3> QED
      BY <3>1, <3>3, <3>5, <3>6
  <2> QED
    BY <2>1, <2>2, <2>3
<1> QED
  BY <1>3, <1>4

LEMMA CheckKeeps ==
  ASSUME Inv, TypeInv', Apart', NEW r \in Reloads, Check(r)
  PROVE  Inv'
<1> DEFINE v == job[r].version
           new == Insertion(r, v, FALSE)
<1>1. /\ Quiet /\ pc[r] = "check" /\ ver' = ver /\ json' = json /\ remote' = remote
      /\ r \in Jobs /\ Boot \in Jobs /\ TypeOK /\ v \in Names \cup {None} /\ r # Boot
  BY NamesFacts, JobFields
     DEF Check, Quiet, fileVars, dbVars, pruneVars, historyVars, Inv, TypeInv
<1>2. up = "up" /\ pc[Boot] = "idle" /\ \A s \in Reloads : s = r \/ pc[s] = "idle"
  BY <1>1, Alone, NamesFacts
<1>3. \A j \in Jobs : pc[j] # "idle" => j = r
  BY <1>1, Alone
<1>4. \/ /\ OnlyJob(r, "insert", new) /\ (job[r].required \/ ~Loaded)
      \/ /\ OnlyJob(r, "idle", NoJob) /\ (job[r].required => json = None)
  BY <1>1, CheckSets
<1>5. \A j \in Jobs \ {r} : pc'[j] = "idle" /\ pc[j] = "idle" /\ job'[j] = job[j]
  BY <1>3, <1>4 DEF OnlyJob
<1>6. Phases'
  <2>1. pc'[r] \in {"insert", "idle"} /\ (pc'[r] = "idle" => job'[r] = NoJob)
    BY <1>4 DEF OnlyJob
  <2> QED
    BY <1>1, <1>2, <1>5, <2>1, NamesFacts DEF Phases, Inv, IInv, Quiet
<1>7. Versioned'
  BY <1>1, BeforeVersion
<1>8. Downloads'
  BY <1>4, <1>5, NamesFacts DEF Downloads, Downloading, OnlyJob
<1>9. Insertions'
  <2>1. SUFFICES ASSUME NEW j \in Jobs, Working(j)'
                 PROVE  Inserting(j)'
    BY DEF Insertions
  <2>2. j = r /\ OnlyJob(r, "insert", new) /\ (job[r].required \/ ~Loaded)
    BY <1>4, <1>5, <2>1 DEF Working, OnlyJob
  <2>3. /\ v \in {None, Filed}
        /\ v \in Versions => \A i \in DOMAIN mem : mem[i].version < v
        /\ v = Blank /\ mem # <<>> => Latest.version = Blank
    BY <1>1, <2>2, WhatIsInserted
  <2>4. /\ new.version = v /\ new.only = FALSE /\ new.parsed = <<>> /\ new.next = 1
        /\ new.at = Now
    <3>1. FALSE \in BOOLEAN
      OBVIOUS
    <3> HIDE DEF v
    <3> QED
      BY <1>1, <3>1, InsertionFacts
  <2>5. /\ dayMark < Now /\ (\A w \in Names : at[w] < Now)
        /\ \A i \in DOMAIN mem : mem[i].at < Now
    BY <1>1, NowIsLater
  <2> HIDE DEF new, v
  <2>6. pc'[r] = "insert" /\ job'[r] = new
    BY <2>2 DEF OnlyJob
  <2>7. Filed' = Filed /\ Latest' = Latest
    BY <1>1 DEF Filed, Latest, Quiet
  <2>8. 1 \in 1..(Chunks + MetaTypes) /\ 1 <= Chunks /\ ~(1 < 1) /\ 1 - 1 = 0
    BY Bounds
  <2> QED
    BY <1>1, <2>2, <2>3, <2>4, <2>5, <2>6, <2>7, <2>8 DEF Inserting, Quiet
<1>10. RowsOrdered' /\ RowsKept' /\ MemOrdered' /\ LatestSound'
  BY <1>1, QuietKeeps
<1>11. RowsWhole'
  <2>1. \A j \in Jobs, w \in Names : ~Filling(j, w)
    BY <1>1, <1>3 DEF Filling
  <2>2. \A w \in Versions \ cut : Has(w) => Whole(w)
    BY <2>1, NamesFacts DEF RowsWhole, Inv, IInv
  <2>3. ASSUME ver \in Versions \ cut, ~Has(ver)
        PROVE  Filling(r, ver)'
    <3>1. job[r].required /\ v = ver
      BY <1>2, <2>1, <2>3, NamesFacts DEF RowsWhole, Inv, IInv
    <3>2. json # None
      BY <2>3, NamesFacts DEF Inv, IInv, Versioned
    <3>3. OnlyJob(r, "insert", new)
      BY <1>4, <3>1, <3>2
    <3>4. /\ new.version = v /\ new.only = FALSE /\ new.next = 1
      <4>1. FALSE \in BOOLEAN
        OBVIOUS
      <4> HIDE DEF v
      <4> QED
        BY <1>1, <4>1, InsertionFacts
    <3> HIDE DEF new
    <3>5. pc'[r] = "insert" /\ job'[r] = new
      BY <3>3 DEF OnlyJob
    <3> QED
      BY <1>1, <3>1, <3>4, <3>5, Bounds DEF Filling, Entries
  <2> QED
    BY <1>1, <2>2, <2>3, QuietFacts, NamesFacts DEF RowsWhole, Quiet
<1>12. Booting'
  BY <1>1, <1>2 DEF Booting, Quiet
<1> QED
  BY <1>6, <1>7, <1>8, <1>9, <1>10, <1>11, <1>12 DEF Inv, IInv

\* The insertion that is under way, and that nothing else is.
LEMMA TheInsertion ==
  ASSUME Inv, NEW j \in Jobs, Working(j)
  PROVE  /\ TypeOK /\ Inserting(j)
         /\ \A i \in Jobs \ {j} : pc[i] = "idle" /\ ~Working(i)
         /\ j = Boot => up = "boot"
         /\ j # Boot => up = "up"
         /\ \A v \in Names : (\E i \in Jobs : Filling(i, v)) <=> Filling(j, v)
         /\ \A r \in Reloads : pc[r] # "check"
<1>1. \A i \in Jobs \ {j} : pc[i] = "idle"
  BY Alone DEF Working
<1>2. \A i \in Jobs \ {j} : ~Working(i) /\ \A v \in Names : ~Filling(i, v)
  BY <1>1 DEF Working, Filling
<1>3. \A r \in Reloads : pc[r] # "check"
  BY <1>1, NamesFacts DEF Working
<1>4. (j = Boot => up = "boot") /\ (j # Boot => up = "up")
  BY NamesFacts DEF Inv, IInv, Phases, Working
<1> QED
  BY <1>1, <1>2, <1>3, <1>4 DEF Inv, IInv, TypeInv, Insertions

\* What a step of an insertion keeps whatever it does to the rows.
LEMMA CommitBasics ==
  ASSUME Inv, NEW j \in Jobs, Commit(j)
  PROVE  LET v == job[j].version
             next == job[j].next
             new == job'[j]
         IN  /\ pc[j] = "insert" /\ Working(j) /\ v = Filed /\ v \in Names
             /\ UNCHANGED <<remote, json, ver, mem, up, prunes, dayMark, cut, unhealed, best>>
             /\ pc'[j] = IF next = Chunks + MetaTypes THEN "append" ELSE "insert"
             /\ \A i \in Jobs \ {j} : pc'[i] = pc[i] /\ job'[i] = job[i]
             /\ new.version = v /\ new.only = job[j].only /\ new.at = job[j].at
             /\ new.next = next + 1 /\ next \in 1..(Chunks + MetaTypes)
             /\ new.parsed = IF next <= Chunks THEN Append(job[j].parsed, json)
                             ELSE job[j].parsed
             /\ job[j].parsed \in Seq(Versions) /\ job[j].at \in Nat /\ job[j].only \in BOOLEAN
             /\ next <= Chunks => json \in Versions
             /\ next <= Chunks /\ ~job[j].only => Len(rows[v]) < next
<1> DEFINE v == job[j].version
           next == job[j].next
           new == [job[j] EXCEPT !.next = @ + 1,
                                 !.parsed = IF Entries(j) THEN Append(@, json) ELSE @]
<1>1. pc[j] = "insert" /\ Working(j) /\ TypeInv /\ TypeOK
  BY DEF Commit, Working, Inv, TypeInv
<1>2. v \in {None, Filed} /\ v \in Names
  BY <1>1, CommitSets, TheInsertion DEF Inserting
<1>3. v = Filed
  BY <1>2, NamesFacts
<1>4. UNCHANGED <<remote, json, ver, mem, up, prunes, dayMark, cut, unhealed, best>>
  BY DEF Commit, fileVars, pruneVars, historyVars
<1>5. OnlyJob(j, IF next = Chunks + MetaTypes THEN "append" ELSE "insert", new)
  BY <1>1, CommitSets
<1>6. /\ new.version = v /\ new.only = job[j].only /\ new.at = job[j].at
      /\ new.next = next + 1
      /\ new.parsed = IF Entries(j) THEN Append(job[j].parsed, json) ELSE job[j].parsed
  BY <1>1, JobFields DEF Job
<1> HIDE DEF new
<1>7. next \in 1..(Chunks + MetaTypes) /\ (Entries(j) <=> next <= Chunks)
  BY <1>1 DEF JobsKnow, TypeInv, Entries
<1>8. /\ Entries(j) => json \in Versions
      /\ Entries(j) /\ ~job[j].only => Len(rows[v]) < next
  BY <1>1, CommitSets DEF Commit, Possible
<1> QED
  BY <1>1, <1>2, <1>3, <1>4, <1>5, <1>6, <1>7, <1>8, JobFields DEF OnlyJob

\* The conjuncts that do not depend on whether it adds entries.
LEMMA CommitPhases ==
  ASSUME Inv, NEW j \in Jobs, Commit(j)
  PROVE  Phases' /\ Downloads'
<1>1. Working(j) /\ UNCHANGED <<mem, up, prunes>>
  BY CommitBasics
<1>2. /\ pc'[j] \in {"append", "insert"} /\ pc[j] = "insert"
      /\ \A i \in Jobs \ {j} : pc'[i] = pc[i] /\ job'[i] = job[i] /\ pc[i] = "idle"
  BY <1>1, CommitBasics, TheInsertion
<1>3. Phases'
  BY <1>1, <1>2, NamesFacts DEF Phases, Inv, IInv
<1>4. Downloads'
  BY <1>2, NamesFacts DEF Downloads, Downloading
<1> QED
  BY <1>3, <1>4

\* An insertion of meta values only, or the meta values of any.
LEMMA CommitKeepsRows ==
  ASSUME Inv, TypeInv', Apart', NEW j \in Jobs, Commit(j), job[j].only \/ Chunks < job[j].next
  PROVE  Inv'
<1> DEFINE v == job[j].version
           next == job[j].next
           new == job'[j]
<1>1. rows' = rows /\ at' = at
  <2>1. ~(Entries(j) /\ ~job[j].only)
    BY CommitBasics, Bounds DEF Entries
  <2> QED
    BY <2>1 DEF Commit
<1>2. /\ pc[j] = "insert" /\ Working(j) /\ v = Filed /\ v \in Names
      /\ UNCHANGED <<remote, json, ver, mem, up, prunes, dayMark, cut, unhealed, best>>
      /\ pc'[j] = IF next = Chunks + MetaTypes THEN "append" ELSE "insert"
      /\ \A i \in Jobs \ {j} : pc'[i] = pc[i] /\ job'[i] = job[i]
  BY CommitBasics
<1>3. Quiet /\ ver' = ver
  BY <1>1, <1>2 DEF Quiet
<1>4. Inserting(j) /\ (\A i \in Jobs \ {j} : pc[i] = "idle") /\ TypeOK
  BY <1>2, TheInsertion
<1>5. Phases' /\ Downloads'
  BY CommitPhases
<1>6. Versioned'
  BY <1>2, <1>3, QuietFacts DEF Inv, IInv, Versioned, Bounded, Quiet, Has
<1>7. RowsOrdered' /\ RowsKept' /\ MemOrdered' /\ LatestSound'
  BY <1>3, QuietKeeps
<1>8. Booting'
  BY <1>1, <1>2 DEF Booting, Inv, IInv, Has, Latest
<1>9. RowsWhole'
  <2>1. \A w \in Names : ~Filling(j, w)
    BY Bounds, <1>2, CommitBasics DEF Filling, Entries
  <2>2. /\ \A w \in Versions \ cut : Has(w) => Whole(w)
        /\ ver \in Versions \ cut => Has(ver)
    BY <1>2, <2>1, TheInsertion, NamesFacts DEF RowsWhole, Inv, IInv
  <2> QED
    BY <1>2, <1>3, <2>2, QuietFacts, NamesFacts DEF RowsWhole, Quiet
<1>10. Insertions'
  <2>1. SUFFICES Inserting(j)'
    <3>1. \A i \in Jobs : Working(i)' => i = j
      BY <1>2, <1>4 DEF Working
    <3> QED
      BY <3>1 DEF Insertions
  <2>2. /\ new.version = v /\ new.only = job[j].only /\ new.at = job[j].at
        /\ new.next = next + 1 /\ next \in 1..(Chunks + MetaTypes)
        /\ new.parsed = IF next <= Chunks THEN Append(job[j].parsed, json) ELSE job[j].parsed
        /\ job[j].parsed \in Seq(Versions)
        /\ next <= Chunks => json \in Versions
    BY CommitBasics
  <2>3. Filed' = Filed /\ Latest' = Latest /\ (Hidden' <=> Hidden)
    BY <1>2, <1>3, QuietFacts DEF Filed
  <2>4. Len(new.parsed) = IF new.next <= Chunks THEN new.next - 1 ELSE Chunks
    <3>1. CASE next <= Chunks
      <4>1. Len(job[j].parsed) = next - 1
        BY <1>4, <3>1 DEF Inserting
      <4>2. Len(new.parsed) = next /\ new.next = next + 1 /\ next \in Nat /\ Chunks \in Nat
        BY <2>2, <3>1, <4>1, Bounds
      <4> HIDE DEF new, next
      <4> QED
        BY <3>1, <4>2
    <3>2. CASE ~(next <= Chunks)
      <4>1. Len(new.parsed) = Chunks /\ new.next = next + 1 /\ next \in Nat /\ Chunks \in Nat
        BY <1>4, <2>2, <3>2, Bounds DEF Inserting
      <4> HIDE DEF new, next
      <4> QED
        BY <3>2, <4>1
    <3> QED
      BY <3>1, <3>2
  <2>5. \A n \in DOMAIN new.parsed : new.parsed[n] = json
    <3>1. \A n \in DOMAIN job[j].parsed : job[j].parsed[n] = json
      BY <1>4 DEF Inserting
    <3> QED
      BY <2>2, <3>1, AppendProperties
  <2>6. /\ pc'[j] = "insert" => new.next \in 1..(Chunks + MetaTypes)
        /\ pc'[j] = "append" => new.next = Chunks + MetaTypes + 1
    BY <1>2, <2>2, Bounds
  <2>7. ~job[j].only => 1 < next
    BY <2>2, Bounds
  <2>8. ~job[j].only => new.parsed = job[j].parsed
    BY <2>2, Bounds
  <2> HIDE DEF v, next, new
  <2>9. /\ v \in {None, Filed}
        /\ job[j].only => j = Boot /\ v # None /\ mem # <<>>
        /\ j = Boot /\ ~job[j].only => mem = <<>>
        /\ ~job[j].only => rows[v] = job[j].parsed /\ at[v] = job[j].at
        /\ dayMark < job[j].at
        /\ \A w \in Names : w = v \/ at[w] < job[j].at
        /\ \A i \in DOMAIN mem : mem[i].at < job[j].at
        /\ j # Boot =>
            /\ v \in Versions => \A i \in DOMAIN mem : mem[i].version < v
            /\ v = Blank /\ mem # <<>> => Latest.version = Blank /\ Hidden
    BY <1>4, <2>7 DEF Inserting, v, next
  <2>10. v # None
    BY <1>2, NamesFacts
  <2> QED
    BY <1>1, <1>2, <2>2, <2>3, <2>4, <2>5, <2>6, <2>8, <2>9, <2>10 DEF Inserting, new
<1> QED
  BY <1>5, <1>6, <1>7, <1>8, <1>9, <1>10 DEF Inv, IInv

\* An insertion's next chunk of entries.
LEMMA CommitKeepsEntries ==
  ASSUME Inv, TypeInv', Apart', NEW j \in Jobs, Commit(j), ~job[j].only, job[j].next <= Chunks
  PROVE  Inv'
<1> DEFINE next == job[j].next
           new == job'[j]
<1>0. PICK v \in Names : v = job[j].version
  BY CommitBasics
<1>1. /\ pc[j] = "insert" /\ Working(j) /\ v = Filed /\ v \in Names
      /\ UNCHANGED <<remote, json, ver, mem, up, prunes, dayMark, cut, unhealed, best>>
      /\ pc'[j] = IF next = Chunks + MetaTypes THEN "append" ELSE "insert"
      /\ \A i \in Jobs \ {j} : pc'[i] = pc[i] /\ job'[i] = job[i]
      /\ job[j].version = v
  BY <1>0, CommitBasics
<1>2. /\ new.version = v /\ new.only = FALSE /\ new.at = job[j].at
      /\ new.next = next + 1 /\ next \in 1..Chunks
      /\ new.parsed = Append(job[j].parsed, json)
      /\ job[j].parsed \in Seq(Versions) /\ job[j].at \in Nat
      /\ json \in Versions
      /\ Len(rows[v]) < next
  <2>1. next <= Chunks /\ ~job[j].only /\ job[j].only \in BOOLEAN
    BY CommitBasics
  <2>2. next \in 1..Chunks
    BY <2>1, CommitBasics, Bounds
  <2> QED
    BY <1>0, <2>1, <2>2, CommitBasics
<1>3. Inserting(j) /\ (\A i \in Jobs \ {j} : pc[i] = "idle") /\ TypeOK
  BY <1>1, TheInsertion
<1>4. /\ rows' = [rows EXCEPT ![v] = Append(@, json)] /\ at' = [at EXCEPT ![v] = job[j].at]
  BY <1>0 DEF Commit, Entries
<1>5. rows[v] = job[j].parsed
  <2>1. rows[v] \in Seq(Versions)
    BY <1>1, <1>3 DEF TypeOK
  <2>2. CASE next = 1
    <3>1. Len(job[j].parsed) = 0 /\ Len(rows[v]) = 0
      BY <1>2, <1>3, <2>1, <2>2, Bounds DEF Inserting
    <3> QED
      BY <1>2, <2>1, <3>1
  <2>3. CASE next # 1
    BY <1>0, <1>2, <1>3, <2>3 DEF Inserting
  <2> QED
    BY <2>2, <2>3
<1>6. /\ rows'[v] = new.parsed /\ at'[v] = job[j].at
      /\ \A w \in Names : w # v => rows'[w] = rows[w] /\ at'[w] = at[w]
  BY <1>1, <1>2, <1>3, <1>4, <1>5 DEF TypeOK
<1>7. /\ Len(new.parsed) = next /\ new.parsed \in Seq(Versions)
      /\ \A n \in DOMAIN new.parsed : new.parsed[n] = json
      /\ new.parsed # <<>>
  <2>1. Len(job[j].parsed) = next - 1
    BY <1>2, <1>3 DEF Inserting
  <2>2. \A n \in DOMAIN job[j].parsed : job[j].parsed[n] = json
    BY <1>3 DEF Inserting
  <2>3. /\ new.parsed \in Seq(Versions) /\ new.parsed # <<>> /\ Len(new.parsed) = next
        /\ \A i \in 1..Len(job[j].parsed) : new.parsed[i] = job[j].parsed[i]
        /\ new.parsed[next] = json
    BY <1>2, <2>1, AppendProperties
  <2> QED
    BY <1>2, <2>1, <2>2, <2>3
<1> DEFINE t == job[j].at
<1> HIDE DEF new
<1>8. /\ dayMark < t /\ (\A w \in Names : w = v \/ at[w] < t) /\ t \in Nat
      /\ \A w \in Names : at[w] \in Nat /\ at'[w] \in Nat
      /\ dayMark \in Nat
  BY <1>0, <1>2, <1>3 DEF Inserting, TypeOK, TypeInv
<1>9. Has(v)' /\ \A w \in Names : w # v => (Has(w)' <=> Has(w))
  BY <1>6, <1>7 DEF Has
<1>10. Bounded(v) /\ (v \in Versions => v = ver) /\ (ver \in Versions => v = ver)
  <2>1. remote \in Nat \ {0} /\ (ver \in Versions => ver <= ver)
    BY <1>3, NamesFacts DEF TypeOK
  <2> QED
    BY <1>1, <2>1, NamesFacts DEF Bounded, Filed
<1>11. \A w \in Names : (Bounded(w)' <=> Bounded(w)) /\ (Has(w) => Bounded(w))
  BY <1>1 DEF Inv, IInv, Versioned, Bounded
<1>12. Versioned'
  <2>1. \A w \in Names : Has(w)' => Bounded(w)'
    BY <1>1, <1>9, <1>10, <1>11
  <2> QED
    BY <1>1, <2>1 DEF Inv, IInv, Versioned, Bounded
<1>13. RowsOrdered'
  <2>1. \A x, y \in Names : Has(x)' /\ Has(y)' /\ x # y => at'[x] # at'[y]
    BY <1>6, <1>8, <1>9 DEF Inv, IInv, RowsOrdered
  <2>2. ASSUME NEW x \in Versions, NEW y \in Versions, Has(x)', Has(y)', x < y
        PROVE  at'[x] < at'[y]
    <3>1. x \in Names /\ y \in Names /\ x \in Nat /\ y \in Nat
      BY NamesFacts
    <3>2. CASE y = v
      BY <1>6, <1>8, <2>2, <3>1, <3>2
    <3>3. CASE y # v
      <4>1. Has(y) /\ Bounded(y)
        BY <1>9, <1>11, <2>2, <3>1, <3>3
      <4>2. x # v
        BY <1>10, <2>2, <3>1, <4>1 DEF Bounded
      <4> QED
        BY <1>6, <1>9, <2>2, <3>1, <3>3, <4>1, <4>2 DEF Inv, IInv, RowsOrdered
    <3> QED
      BY <3>2, <3>3
  <2>3. ver \in Versions => \A w \in Names : at'[w] <= at'[ver]
    BY <1>6, <1>8, <1>10
  <2> QED
    BY <1>1, <2>1, <2>2, <2>3, NamesFacts DEF RowsOrdered, Has
<1>14. \A w \in Names : w # v => (Shielded(w)' <=> Shielded(w)) /\ (Sound(w)' <=> Sound(w))
  BY <1>1, <1>6, <1>9 DEF Shielded, Sound
<1>15. Shielded(v)'
  BY <1>1, <1>6, <1>8 DEF Shielded
<1>16. RowsWhole'
  <2>1. ASSUME NEW w \in Versions \ cut, Has(w)'
        PROVE  Whole(w)' \/ Filling(j, w)'
    <3>1. w \in Names
      BY NamesFacts
    <3>2. CASE w # v
      <4>1. Has(w) /\ ~Filling(j, w)
        BY <1>0, <1>9, <2>1, <3>1, <3>2 DEF Filling
      <4>2. Whole(w)
        BY <1>1, <2>1, <3>1, <4>1, TheInsertion DEF RowsWhole, Inv, IInv
      <4> QED
        BY <1>6, <3>1, <3>2, <4>2 DEF Whole
    <3>3. CASE w = v /\ next = Chunks
      BY <1>6, <1>7, <3>3 DEF Whole
    <3>4. CASE w = v /\ next # Chunks
      <4>1. /\ pc'[j] = "insert" /\ new.next <= Chunks
        BY <1>1, <1>2, <3>4, Bounds
      <4> QED
        BY <1>2, <3>4, <4>1 DEF Filling, Entries, new
    <3> QED
      BY <3>2, <3>3, <3>4
  <2>2. ver \in Versions => Has(ver)'
    BY <1>1, <1>9, <1>10 DEF Has
  <2> QED
    BY <1>1, <2>1, <2>2 DEF RowsWhole, Has
<1>17. RowsKept'
  <2>1. ver \in Versions => Shielded(ver)'
    BY <1>1, <1>10, <1>15 DEF Shielded
  <2>2. ASSUME NEW x \in Versions, Has(x)', \A w \in Versions : Has(w)' => w <= x
        PROVE  best <= x
    <3>1. x \in Names /\ x \in Nat /\ best \in Nat /\ Versions \subseteq Names
      BY <1>3, NamesFacts DEF TypeOK
    <3>2. CASE v \in Versions
      <4>1. v <= x /\ Bounded(best) /\ ver = v /\ v \in Nat
        BY <1>9, <1>10, <2>2, <3>2, NamesFacts DEF Inv, IInv, Versioned
      <4> QED
        BY <3>1, <3>2, <4>1 DEF Bounded
    <3>3. CASE v \notin Versions
      <4>1. Has(x) /\ \A w \in Versions : Has(w) => w <= x
        BY <1>9, <2>2, <3>1, <3>3
      <4> QED
        BY <4>1 DEF Inv, IInv, RowsKept
    <3> QED
      BY <3>2, <3>3
  <2>3. ASSUME NEW k \in Range(prunes), Has(k)', NEW w \in Names, Has(w)', at'[k] < at'[w]
        PROVE  dayMark < at'[w]
    <3>1. k \in Names
      BY <1>3 DEF TypeOK, Range
    <3>2. CASE w = v
      BY <1>6, <1>8, <3>2
    <3>3. CASE w # v
      <4>1. k # v
        BY <1>6, <1>8, <2>3, <3>3
      <4> QED
        <5>1. Has(k) /\ at[k] < at[w] /\ at'[w] = at[w]
          BY <1>6, <1>9, <2>3, <3>1, <3>3, <4>1
        <5>2. Has(k) => \A x \in Names : Has(x) /\ at[k] < at[x] => dayMark < at[x]
          BY <2>3 DEF Inv, IInv, RowsKept
        <5>3. Has(w)
          BY <1>9, <2>3, <3>3
        <5> QED
          BY <5>1, <5>2, <5>3
    <3> QED
      BY <3>2, <3>3
  <2> QED
    BY <1>1, <2>1, <2>2, <2>3 DEF RowsKept
<1>18. mem # <<>> => j # Boot /\ (v \in Versions => \A i \in DOMAIN mem : mem[i].version # v)
  <2>1. \A i \in DOMAIN mem : mem[i].version \in Names
    BY <1>3, ListFields DEF TypeOK
  <2>2. v \in Versions => ~(v < v)
    BY NamesFacts
  <2> QED
    BY <1>0, <1>2, <1>3, <2>1, <2>2, CommitBasics DEF Inserting
<1>19. MemOrdered' /\ Latest' = Latest /\ (mem # <<>> => Latest.version \in Names)
  BY <1>1, <1>3, ListFields DEF MemOrdered, Inv, IInv, Latest, TypeOK
<1>20. Hidden => Hidden'
  <2>1. \A i \in DOMAIN mem : Top(i)' => Top(i)
    BY <1>1 DEF Top
  <2>2. ASSUME Hidden, NEW i \in DOMAIN mem, Top(i)
        PROVE  Sound(mem[i].version)'
    <3>1. mem[i].version \in Names /\ mem[i].version # v
      <4>1. mem[i].version \in Versions /\ mem # <<>>
        BY <2>2 DEF Top
      <4> QED
        BY <1>18, <4>1, NamesFacts
    <3>2. Sound(mem[i].version)
      BY <2>2 DEF Hidden
    <3> QED
      BY <1>1, <1>6, <3>1, <3>2 DEF Sound, Shielded, Has
  <2> QED
    BY <1>1, <2>1, <2>2 DEF Hidden
<1>21. LatestSound'
  <2> SUFFICES ASSUME mem # <<>>
               PROVE  LatestSound'
    BY <1>1 DEF LatestSound
  <2>1. ASSUME Latest.version \in Versions
        PROVE  /\ Sound(Latest.version)'
               /\ unhealed \/ Latest.version \in cut \/ Latest.count = rows'[Latest.version]
    <3>1. Latest.version # v /\ Latest.version \in Names
      BY <1>3, <1>18, <1>19, <2>1, ListFields DEF Latest, TypeOK
    <3>2. Sound(Latest.version)
      BY <2>1 DEF LatestSound, Inv, IInv
    <3>3. Sound(Latest.version)'
      BY <1>1, <1>6, <1>19, <3>1, <3>2 DEF Sound, Shielded, Has
    <3> QED
      BY <1>6, <2>1, <3>1, <3>3 DEF LatestSound, Inv, IInv
  <2>2. ASSUME Latest.version = Blank
        PROVE  /\ (Has(Blank) /\ Shielded(Blank))' \/ Hidden'
               /\ ver \in Versions => \A i \in DOMAIN mem : mem[i].version # ver
    <3>1. CASE v = Blank
      BY <1>9, <1>15, <2>2, <3>1 DEF LatestSound, Inv, IInv
    <3>2. CASE v # Blank
      BY <1>9, <1>14, <1>20, <2>2, <3>2, NamesFacts DEF LatestSound, Inv, IInv
    <3> QED
      BY <3>1, <3>2
  <2>3. up = "up" /\ ~unhealed => Latest.meta = Types
    BY DEF LatestSound, Inv, IInv
  <2> QED
    BY <1>1, <1>19, <2>1, <2>2, <2>3 DEF LatestSound
<1>22. Booting'
  <2>1. up = "boot" /\ mem # <<>> => FALSE
    BY <1>1, <1>18, TheInsertion
  <2> QED
    BY <1>1, <2>1 DEF Booting
<1>23. Insertions'
  <2>1. SUFFICES Inserting(j)'
    <3>1. \A i \in Jobs : Working(i)' => i = j
      BY <1>1, <1>3 DEF Working
    <3> QED
      BY <3>1 DEF Insertions
  <2>2. Filed' = Filed /\ v # None
    BY <1>1, NamesFacts DEF Filed
  <2>3. /\ pc'[j] = "insert" => new.next \in 1..(Chunks + MetaTypes)
        /\ pc'[j] = "append" => new.next = Chunks + MetaTypes + 1
    BY <1>1, <1>2, Bounds
  <2>4. next = IF new.next <= Chunks THEN new.next - 1 ELSE Chunks
    BY <1>2, Bounds
  <2>5. j # Boot =>
          /\ v \in Versions => \A i \in DOMAIN mem : mem[i].version < v
          /\ v = Blank /\ mem # <<>> => Latest.version = Blank /\ Hidden'
    <3>1. ASSUME j # Boot, v = Blank, mem # <<>>
          PROVE  Latest.version = Blank /\ Hidden
      <4>1. Latest.version = Blank /\ (1 < next => Hidden)
        BY <1>0, <1>3, <3>1 DEF Inserting
      <4>2. CASE next = 1
        <5>1. ~Has(Blank)
          <6>1. Len(rows[Blank]) = 0 /\ rows[Blank] \in Seq(Versions)
            BY <1>1, <1>2, <1>3, <3>1, <4>2 DEF TypeOK
          <6> QED
            BY <6>1 DEF Has
        <5> QED
          BY <3>1, <4>1, <5>1 DEF LatestSound, Inv, IInv
      <4> QED
        BY <1>2, <4>1, <4>2
    <3> QED
      BY <1>0, <1>3, <1>20, <3>1 DEF Inserting
  <2>6. /\ j = Boot => mem = <<>>
        /\ dayMark < t
        /\ \A w \in Names : w = v \/ at'[w] < t
        /\ \A i \in DOMAIN mem : mem[i].at < t
    BY <1>3, <1>6, <1>8, <1>18 DEF Inserting
  <2> HIDE DEF next, t
  <2>7. new.at = t
    BY <1>2 DEF t
  <2> QED
    BY <1>1, <1>2, <1>6, <1>7, <1>19, <2>2, <2>3, <2>4, <2>5, <2>6, <2>7 DEF Inserting, new
<1> QED
  BY <1>12, <1>13, <1>16, <1>17, <1>19, <1>21, <1>22, <1>23, CommitPhases DEF Inv, IInv

\* When every job is idle nothing is asked of the jobs.
LEMMA NoJobs ==
  ASSUME \A i \in Jobs : pc'[i] = "idle"
  PROVE  /\ Downloads' /\ Insertions'
         /\ \A i \in Jobs, v \in Names : ~Filling(i, v)'
         /\ \A r \in Reloads : pc'[r] # "check"
<1>1. Downloads'
  BY NamesFacts DEF Downloads, Downloading
<1>2. Insertions'
  BY DEF Insertions, Working
<1> QED
  BY <1>1, <1>2, NamesFacts DEF Filling

\* The job that ends was the only one.
LEMMA LastJobEnds ==
  ASSUME Inv, NEW j \in Jobs, pc[j] # "idle", Goto(j, "idle")
  PROVE  \A i \in Jobs : pc'[i] = "idle" /\ job'[i] = NoJob
<1>1. OnlyJob(j, "idle", NoJob)
  BY GotoSets DEF Inv, TypeInv, Places
<1>2. \A i \in Jobs \ {j} : pc[i] = "idle" /\ job[i] = NoJob
  BY Alone DEF Inv, IInv, Phases
<1> QED
  BY <1>1, <1>2 DEF OnlyJob

LEMMA RaiseKeeps ==
  ASSUME Inv, TypeInv', Apart', NEW j \in Jobs, Raise(j)
  PROVE  Inv'
<1>1. /\ UNCHANGED <<remote, json, ver, rows, at, mem, prunes, dayMark>>
      /\ pc[j] = "insert" /\ Goto(j, "idle") /\ Working(j)
      /\ cut' = IF job[j].only \/ job[j].version = None THEN cut ELSE cut \cup {job[j].version}
      /\ \/ j = Boot /\ up' = "up" /\ unhealed' = TRUE /\ best' = Seen(mem)
         \/ j # Boot /\ UNCHANGED <<up, unhealed, best>>
  BY DEF Raise, fileVars, dbVars, pruneVars, Working
<1>2. TypeOK /\ Inserting(j) /\ (j # Boot => up = "up")
  BY <1>1, TheInsertion
<1>3. \A i \in Jobs : pc'[i] = "idle" /\ job'[i] = NoJob
  BY <1>1, LastJobEnds
<1>4. /\ mem \in Seq(Catalog) /\ best \in Names /\ cut \in SUBSET Names /\ Names \subseteq Nat
      /\ best' \in Names /\ cut' \in SUBSET Names
  BY NamesFacts DEF Inv, TypeInv, TypeOK
<1>5. /\ mem = <<>> => best' = best
      /\ mem # <<>> => /\ best' \in {best, Latest.version} /\ Latest.version \in Names
                       /\ best <= Latest.version => best' <= Latest.version
  <2>1. best <= best
    BY <1>4
  <2> QED
    BY <1>1, <1>4, <2>1, SeenFacts, ListFields DEF Latest
<1>6. cut \subseteq cut'
  BY <1>1
<1>7. Phases'
  <2>1. up' = "up"
    BY <1>1, <1>2
  <2> QED
    BY <1>3, <2>1, NamesFacts DEF Phases
<1>8. Versioned'
  <2>1. mem # <<>> => Bounded(Latest.version)
    BY <1>4, ListFields DEF Inv, IInv, Versioned, Latest
  <2>2. Bounded(best')
    BY <1>5, <2>1 DEF Inv, IInv, Versioned
  <2> QED
    BY <1>1, <2>2 DEF Inv, IInv, Versioned, Bounded, Has
<1>9. Downloads' /\ Insertions'
  BY <1>3, NoJobs
<1>10. RowsOrdered' /\ MemOrdered'
  BY <1>1 DEF Inv, IInv, RowsOrdered, MemOrdered, Has
<1>11. RowsWhole'
  <2>1. \A v \in Names : Filling(j, v) => v \in cut'
    BY <1>1, NamesFacts DEF Filling
  <2>2. ASSUME NEW v \in Versions \ cut', Has(v)
        PROVE  Whole(v)
    BY <1>1, <1>6, <2>1, <2>2, TheInsertion, NamesFacts DEF Inv, IInv, RowsWhole
  <2>3. ver \in Versions \ cut' => Has(ver)
    BY <1>1, <1>6, <2>1, TheInsertion, NamesFacts DEF Inv, IInv, RowsWhole
  <2> QED
    BY <1>1, <2>2, <2>3 DEF RowsWhole, Whole, Has
<1>12. ASSUME mem # <<>>, Latest.version \in Versions
       PROVE  /\ best <= Latest.version
              /\ Sound(Latest.version)
  BY <1>12 DEF Inv, IInv, LatestSound, Sound
<1>13. ASSUME mem # <<>>, Latest.version = Blank
       PROVE  best' = best
  <2>1. best' \in {best, Blank} /\ best \in Nat /\ Blank = 0
    BY <1>4, <1>5, <1>13, NamesFacts
  <2>2. CASE j = Boot
    <3>1. best <= best'
      BY <1>1, <1>4, <2>2, SeenFacts
    <3> QED
      BY <2>1, <3>1
  <2>3. CASE j # Boot
    BY <1>1, <2>3
  <2> QED
    BY <2>2, <2>3
<1>14. RowsKept'
  <2>1. ASSUME NEW x \in Versions, Has(x), \A w \in Versions : Has(w) => w <= x
        PROVE  best' <= x
    <3>1. best <= x
      BY <2>1 DEF Inv, IInv, RowsKept
    <3>2. CASE best' = best
      BY <3>1, <3>2
    <3>3. CASE best' # best
      <4>1. mem # <<>> /\ j = Boot /\ best' = Latest.version /\ Latest.version \in Names
        BY <1>1, <1>5, <3>3
      <4>2. Latest.version \in Versions
        BY <1>13, <3>3, <4>1 DEF Names
      <4>3. Latest.version \notin cut
        BY <1>1, <1>4, <3>3, <4>1, SeenFacts DEF Latest
      <4> QED
        BY <1>12, <2>1, <4>1, <4>2, <4>3 DEF Sound
    <3> QED
      BY <3>2, <3>3
  <2> QED
    BY <1>1, <2>1 DEF Inv, IInv, RowsKept, Has, Shielded
<1>15. LatestSound'
  <2> SUFFICES ASSUME mem # <<>>
               PROVE  LatestSound'
    BY <1>1 DEF LatestSound
  <2>1. ASSUME Latest.version \in Versions
        PROVE  /\ Sound(Latest.version)'
               /\ unhealed' \/ Latest.version \in cut' \/ Latest.count = rows[Latest.version]
    <3>1. best' <= Latest.version
      BY <1>5, <1>12, <2>1
    <3>2. Sound(Latest.version)'
      BY <1>1, <1>6, <1>12, <2>1, <3>1 DEF Sound, Shielded, Has, Latest
    <3> QED
      BY <1>1, <1>6, <2>1, <3>2 DEF Inv, IInv, LatestSound
  <2>2. ASSUME Latest.version = Blank
        PROVE  /\ (Has(Blank) /\ Shielded(Blank))' \/ Hidden'
               /\ ver \in Versions => \A i \in DOMAIN mem : mem[i].version # ver
    <3>1. Hidden => Hidden'
      BY <1>1, <1>6, <1>13, <2>2 DEF Hidden, Top, Sound, Shielded, Has
    <3> QED
      BY <1>1, <2>2, <3>1 DEF Inv, IInv, LatestSound, Has, Shielded
  <2>3. up' = "up" /\ ~unhealed' => Latest.meta = Types
    BY <1>1 DEF Inv, IInv, LatestSound
  <2>4. Latest' = Latest
    BY <1>1 DEF Latest
  <2> QED
    BY <1>1, <2>1, <2>2, <2>3, <2>4 DEF LatestSound
<1>16. Booting'
  BY <1>1, <1>2 DEF Booting
<1> QED
  BY <1>7, <1>8, <1>9, <1>10, <1>11, <1>14, <1>15, <1>16 DEF Inv, IInv

LEMMA CrashKeeps ==
  ASSUME Inv, TypeInv', Apart', Crash
  PROVE  Inv'
<1>1. /\ UNCHANGED <<remote, json, ver, rows, at, dayMark, unhealed, best>>
      /\ mem' = <<>> /\ prunes' = <<>> /\ up' = "down"
      /\ \A j \in Jobs : pc'[j] = "idle" /\ job'[j] = NoJob
  BY DEF Crash, fileVars, dbVars
<1>2. cut' = cut \cup {job[j].version : j \in
              {i \in Jobs : /\ job[i].version # None /\ ~job[i].only
                            /\ \/ pc[i] = "check" /\ job[i].required
                               \/ pc[i] = "insert" /\ Entries(i)}}
  BY DEF Crash
<1>3. \A j \in Jobs, v \in Names : Filling(j, v) => v \in cut'
  <2>1. SUFFICES ASSUME NEW j \in Jobs, NEW v \in Names, Filling(j, v)
                 PROVE  v \in cut'
    OBVIOUS
  <2>2. v # None /\ job[j].version = v /\ ~job[j].only /\ pc[j] = "insert" /\ Entries(j)
    BY <2>1, NamesFacts DEF Filling
  <2> QED
    BY <1>2, <2>2
<1>4. \A r \in Reloads : pc[r] = "check" /\ job[r].required /\ job[r].version \in Versions
                           => job[r].version \in cut'
  <2>1. SUFFICES ASSUME NEW r \in Reloads, pc[r] = "check", job[r].required,
                        job[r].version \in Versions
                 PROVE  job[r].version \in cut'
    OBVIOUS
  <2>2. r \in Jobs /\ job[r].version # None
    BY <2>1, NamesFacts
  <2>3. job[r].only = FALSE
    BY <2>1 DEF Inv, IInv, Downloads, Downloading
  <2> QED
    BY <1>2, <2>1, <2>2, <2>3
<1>5. Phases'
  BY <1>1, NamesFacts DEF Phases
<1>6. Versioned'
  BY <1>1 DEF Inv, IInv, Versioned, Bounded, Has
<1>7. Downloads' /\ Insertions'
  BY <1>1, NoJobs
<1>8. RowsOrdered' /\ MemOrdered' /\ LatestSound' /\ Booting'
  BY <1>1 DEF Inv, IInv, RowsOrdered, MemOrdered, LatestSound, Booting, Has
<1>9. RowsWhole'
  <2>1. \A v \in Versions \ cut' : Has(v) => Whole(v)
    BY <1>2, <1>3, NamesFacts DEF Inv, IInv, RowsWhole
  <2>2. ver \in Versions \ cut' => Has(ver)
    BY <1>2, <1>3, <1>4, NamesFacts DEF Inv, IInv, RowsWhole
  <2> QED
    BY <1>1, <2>1, <2>2 DEF RowsWhole, Whole, Has
<1>10. RowsKept'
  BY <1>1 DEF Inv, IInv, RowsKept, Has, Shielded, Range
<1> QED
  BY <1>5, <1>6, <1>7, <1>8, <1>9, <1>10 DEF Inv, IInv

LEMMA PublishKeeps ==
  ASSUME Inv, TypeInv', Apart', Publish
  PROVE  Inv'
<1>1. /\ Quiet /\ remote' = remote + 1 /\ remote \in Nat
      /\ UNCHANGED <<json, ver, pc, job>>
  BY NamesFacts DEF Publish, Quiet, fileVars, dbVars, jobVars, pruneVars, historyVars,
                    Inv, TypeInv, TypeOK
<1>2. Phases'
  BY <1>1 DEF Inv, IInv, Phases, Quiet
<1>3. TypeOK /\ best \in Names /\ ver \in Names \cup {None} /\ Names \subseteq Nat
      /\ \A i \in DOMAIN mem : mem[i].version \in Names
  BY NamesFacts, ListFields DEF Inv, TypeInv, TypeOK
<1>4. \A v \in Names : Bounded(v) => Bounded(v)'
  BY <1>1, <1>3 DEF Bounded
<1>5. Versioned'
  <2>1. ver \in Versions => ver <= remote'
    BY <1>1, NamesFacts DEF Inv, IInv, Versioned
  <2>2. Bounded(best)'
    BY <1>1, <1>3, <1>4 DEF Inv, IInv, Versioned, Quiet, Bounded
  <2>3. \A w \in Names : Has(w)' => Bounded(w)'
    BY <1>1, <1>4, QuietFacts DEF Inv, IInv, Versioned
  <2>4. \A i \in DOMAIN mem' : Bounded(mem[i].version)'
    <3>1. \A i \in DOMAIN mem : Bounded(mem[i].version) /\ mem[i].version \in Nat
      BY <1>3 DEF Inv, IInv, Versioned
    <3>2. ASSUME NEW i \in DOMAIN mem
          PROVE  IF ver \in Versions THEN mem[i].version <= ver ELSE mem[i].version < remote + 1
      BY <1>1, <3>1 DEF Bounded
    <3> QED
      BY <1>1, <3>2 DEF Quiet, Bounded
  <2> QED
    BY <1>1, <2>1, <2>2, <2>3, <2>4 DEF Versioned, Inv, IInv
<1>6. Downloads'
  <2>1. \A v \in Names : Wanted(v) => Wanted(v)'
    BY <1>1, NamesFacts, QuietFacts DEF Wanted
  <2>2. \A r \in Reloads : Wanted(job[r].version) => Wanted(job[r].version)'
    <3>1. \A r \in Reloads : Wanted(job[r].version) => job[r].version \in Names
      BY NamesFacts DEF Wanted
    <3> QED
      BY <1>1, <2>1, <3>1, NamesFacts DEF Wanted, Newer, Has, Quiet
  <2>3. Filed' = Filed
    BY <1>1 DEF Filed
  <2>4. ver' = ver /\ (Newer(ver)' <=> Newer(ver))
    BY <1>1 DEF Newer, Has, Quiet
  <2> QED
    BY <1>1, <2>2, <2>3, <2>4 DEF Inv, IInv, Downloads, Downloading
<1>7. Insertions'
  <2>1. Filed' = Filed /\ Latest' = Latest /\ (Hidden' <=> Hidden)
    BY <1>1, QuietFacts DEF Filed
  <2> QED
    BY <1>1, <2>1 DEF Inv, IInv, Insertions, Inserting, Working, Quiet
<1>8. RowsOrdered' /\ RowsKept' /\ MemOrdered' /\ LatestSound'
  BY <1>1, QuietKeeps
<1>9. RowsWhole' /\ Booting'
  BY <1>1 DEF Inv, IInv, RowsWhole, Booting, Filling, Entries, Whole, Has, Latest, Quiet
<1> QED
  BY <1>2, <1>5, <1>6, <1>7, <1>8, <1>9 DEF Inv, IInv

\* What the invariant does not mention.
LEMMA UnseenKeeps ==
  ASSUME Inv, TypeInv', Apart', Quiet, UNCHANGED <<remote, json, ver, pc, job>>
  PROVE  Inv'
<1>1. Phases'
  BY DEF Inv, IInv, Phases, Quiet
<1>2. Versioned'
  BY DEF Inv, IInv, Versioned, Bounded, Has, Quiet
<1>3. Downloads'
  BY DEF Inv, IInv, Downloads, Downloading, Wanted, Newer, Filed, Has, Quiet
<1>4. Insertions'
  <2>1. Filed' = Filed /\ Latest' = Latest /\ (Hidden' <=> Hidden)
    BY QuietFacts DEF Filed
  <2> QED
    BY <2>1 DEF Inv, IInv, Insertions, Inserting, Working, Quiet
<1>5. RowsOrdered' /\ RowsKept' /\ MemOrdered' /\ LatestSound'
  BY QuietKeeps
<1>6. RowsWhole' /\ Booting'
  BY DEF Inv, IInv, RowsWhole, Booting, Filling, Entries, Whole, Has, Latest, Quiet
<1> QED
  BY <1>1, <1>2, <1>3, <1>4, <1>5, <1>6 DEF Inv, IInv

LEMMA DayKeeps ==
  ASSUME Inv, TypeInv', Apart', Day
  PROVE  Inv'
<1>1. /\ UNCHANGED <<remote, json, ver, rows, at, mem, up, prunes, cut, unhealed, best, pc, job>>
      /\ prunes = <<>> /\ \A j \in Jobs : pc[j] = "idle"
  BY DEF Day, fileVars, dbVars, jobVars, pruneVars, historyVars
<1>2. Range(prunes) = {}
  BY <1>1 DEF Range
<1>3. \A v \in Names : Shielded(v)'
  BY <1>1, <1>2 DEF Shielded
<1>4. Phases'
  BY <1>1 DEF Inv, IInv, Phases
<1>5. Versioned'
  BY <1>1 DEF Inv, IInv, Versioned, Bounded, Has
<1>6. Downloads' /\ Insertions'
  BY <1>1, NoJobs
<1>7. RowsOrdered' /\ MemOrdered'
  BY <1>1 DEF Inv, IInv, RowsOrdered, MemOrdered, Has
<1>8. RowsWhole' /\ Booting'
  BY <1>1 DEF Inv, IInv, RowsWhole, Booting, Filling, Entries, Whole, Has, Latest
<1>9. RowsKept'
  BY <1>1, <1>2 DEF Inv, IInv, RowsKept, Has, Shielded
<1>10. LatestSound'
  <2>1. Latest' = Latest /\ (mem # <<>> => Latest.version \in Names)
    BY <1>1, ListFields DEF Latest, Inv, TypeInv, TypeOK
  <2>2. \A v \in Names : Sound(v) => Sound(v)'
    BY <1>1, <1>3 DEF Sound, Has
  <2>3. mem # <<>> /\ Sound(Latest.version) => Sound(Latest.version)'
    BY <1>1, <1>2, <2>1 DEF Sound, Has, Shielded
  <2>4. Hidden => Hidden'
    BY <1>1, <1>2 DEF Hidden, Top, Sound, Has, Shielded
  <2>5. Has(Blank) /\ Shielded(Blank) => (Has(Blank) /\ Shielded(Blank))'
    BY <1>1, <1>2 DEF Has, Shielded
  <2> QED
    BY <1>1, <2>1, <2>3, <2>4, <2>5 DEF Inv, IInv, LatestSound
<1> QED
  BY <1>4, <1>5, <1>6, <1>7, <1>8, <1>9, <1>10 DEF Inv, IInv

\* A call leaves the queue, and takes away no row of a version in Sound.
LEMMA PrunedKeeps ==
  ASSUME Inv, TypeInv', Apart', prunes # <<>>, prunes' = Tail(prunes),
         UNCHANGED <<remote, json, ver, mem, up, dayMark, cut, unhealed, best, pc, job>>,
         \/ rows' = rows /\ at' = at
         \/ /\ rows' = [v \in Names |-> IF Prunable(v, Head(prunes)) THEN <<>> ELSE rows[v]]
            /\ at' = [v \in Names |-> IF rows'[v] = <<>> THEN 0 ELSE at[v]]
  PROVE  Inv'
<1> DEFINE k == Head(prunes)
<1>1. /\ TypeOK /\ prunes \in Seq(Names) /\ k \in Range(prunes) /\ k \in Names
      /\ Range(prunes') \subseteq Range(prunes) /\ Range(prunes) \subseteq Names
  <2>1. prunes \in Seq(Names)
    BY DEF Inv, TypeInv, TypeOK
  <2>2. DOMAIN prunes = 1..Len(prunes) /\ k = prunes[1] /\ 1 \in DOMAIN prunes
    BY <2>1
  <2>3. /\ Len(prunes') = Len(prunes) - 1 /\ DOMAIN prunes' = 1..Len(prunes')
        /\ \A i \in 1..Len(prunes') : prunes'[i] = prunes[i + 1]
    BY <2>1, HeadTailProperties
  <2>4. \A i \in 1..Len(prunes') : i + 1 \in 1..Len(prunes)
    BY <2>1, <2>3
  <2> QED
    BY <2>1, <2>2, <2>3, <2>4 DEF Range, Inv, TypeInv
<1> HIDE DEF k
<1>2. /\ \A v \in Names : at[v] \in Nat /\ at'[v] \in Nat
      /\ dayMark \in Nat
  BY <1>1 DEF TypeOK, TypeInv
<1>3. \A v \in Names : Has(v)' => Has(v) /\ rows'[v] = rows[v] /\ at'[v] = at[v]
  BY DEF Has
<1>4. \A v \in Names : Has(v) /\ (v = k \/ dayMark < at[v]) => Has(v)' /\ rows'[v] = rows[v] /\ at'[v] = at[v]
  <2>1. \A v \in Names : dayMark < at[v] => ~(at[v] <= dayMark)
    BY <1>2
  <2> QED
    BY <2>1 DEF Has, Prunable, k
<1>5. \A v \in Names : Has(v) /\ Shielded(v) => Has(v)' /\ Shielded(v)' /\ rows'[v] = rows[v] /\ at'[v] = at[v]
  BY <1>1, <1>4 DEF Shielded
<1>6. \A v \in Names : Sound(v) => Sound(v)'
  BY <1>3, <1>5 DEF Sound
<1>7. \A v \in Names : at'[v] <= at[v]
  BY <1>2, <1>3 DEF Has
<1>8. Phases'
  <2>1. up # "down"
    BY DEF Inv, IInv, Phases
  <2> QED
    BY <2>1 DEF Inv, IInv, Phases
<1>9. Versioned'
  BY <1>3 DEF Inv, IInv, Versioned, Bounded
<1>10. Downloads'
  <2>1. \A v \in Names : Newer(v) => Newer(v)'
    BY <1>3 DEF Newer
  <2>2. \A v \in Names : Wanted(v) => Wanted(v)'
    BY <2>1, NamesFacts DEF Wanted
  <2>3. \A r \in Reloads : Wanted(job[r].version) => Wanted(job[r].version)'
    <3>1. \A r \in Reloads : Wanted(job[r].version) => job[r].version \in Names
      BY NamesFacts DEF Wanted
    <3> QED
      BY <1>3, <2>2, <3>1 DEF Wanted, Newer
  <2>4. ver \in Versions /\ Newer(ver) => Newer(ver)'
    BY <1>3, NamesFacts DEF Newer
  <2>5. Filed' = Filed /\ ver' = ver
    BY DEF Filed
  <2> QED
    BY <2>3, <2>4, <2>5 DEF Inv, IInv, Downloads, Downloading
<1>11. Latest' = Latest /\ (mem # <<>> => Latest.version \in Names)
       /\ \A i \in DOMAIN mem : mem[i].version \in Names
  BY <1>1, ListFields DEF Latest, TypeOK
<1>12. Hidden => Hidden'
  <2>1. \A i \in DOMAIN mem : Sound(mem[i].version) => Sound(mem[i].version)'
    BY <1>6, <1>11 DEF Sound, Shielded, Has
  <2> QED
    BY <2>1 DEF Hidden, Top
<1>13. Insertions'
  <2>1. SUFFICES ASSUME NEW j \in Jobs, Working(j)'
                 PROVE  Inserting(j)'
    BY DEF Insertions
  <2>2. Working(j) /\ Inserting(j) /\ Filed' = Filed
    BY <2>1, TheInsertion DEF Working, Filed
  <2>3. PICK v : v = job[j].version
    OBVIOUS
  <2>4. v # None => v \in Names
    BY <2>2, <2>3, NamesFacts DEF Inserting, Filed
  <2>5. 1 < job[j].next /\ ~job[j].only => rows'[v] = job[j].parsed /\ at'[v] = job[j].at
    <3>1. SUFFICES ASSUME 1 < job[j].next, ~job[j].only
                   PROVE  rows'[v] = job[j].parsed /\ at'[v] = job[j].at
      OBVIOUS
    <3>2. v \in Names /\ rows[v] = job[j].parsed /\ at[v] = job[j].at /\ dayMark < at[v]
      BY <2>2, <2>3, <2>4, <3>1 DEF Inserting
    <3>3. rows[v] # <<>>
      <4>1. Len(job[j].parsed) # 0
        <5>1. job[j].next \in Nat /\ Chunks \in Nat \ {0}
          BY <1>1, JobFields, Bounds
        <5>2. Len(job[j].parsed) = IF job[j].next <= Chunks THEN job[j].next - 1 ELSE Chunks
          BY <2>2 DEF Inserting
        <5> QED
          BY <3>1, <5>1, <5>2
      <4> QED
        BY <3>2, <4>1
    <3> QED
      BY <1>4, <3>2, <3>3 DEF Has
  <2>6. \A w \in Names : w = v \/ at'[w] < job[j].at
    <3>1. job[j].at \in Nat /\ \A w \in Names : w = v \/ at[w] < job[j].at
      BY <1>1, <2>2, <2>3, JobFields DEF Inserting
    <3> QED
      BY <1>2, <1>7, <3>1
  <2> QED
    BY <1>11, <1>12, <2>2, <2>3, <2>5, <2>6 DEF Inserting
<1>14. RowsOrdered'
  BY <1>2, <1>3, <1>7, NamesFacts DEF Inv, IInv, RowsOrdered, Has
<1>15. RowsWhole'
  <2>1. \A v \in Names : Has(v)' /\ Whole(v) => Whole(v)'
    BY <1>3 DEF Whole
  <2>2. ver \in Versions /\ Has(ver) => Has(ver)'
    BY <1>5, NamesFacts DEF Inv, IInv, RowsKept, Has
  <2>3. \A j \in Jobs, v \in Names : Filling(j, v)' <=> Filling(j, v)
    BY DEF Filling, Entries
  <2> QED
    BY <1>3, <2>1, <2>2, <2>3, NamesFacts DEF Inv, IInv, RowsWhole, Filling, Entries
<1>16. RowsKept'
  <2>1. ver \in Versions /\ Has(ver)' => Shielded(ver)'
    BY <1>3, <1>5, NamesFacts DEF Inv, IInv, RowsKept, Has, Shielded
  <2>2. ASSUME NEW x \in Versions, Has(x)', \A w \in Versions : Has(w)' => w <= x
        PROVE  best <= x
    <3>1. SUFFICES ASSUME NEW y \in Versions, Has(y), ~(y <= x)
                   PROVE  FALSE
      BY <1>3, <2>2, NamesFacts DEF Inv, IInv, RowsKept
    <3>2. x \in Names /\ y \in Names /\ x \in Nat /\ y \in Nat /\ x < y
      BY <3>1, NamesFacts
    <3>3. Has(x) /\ at[x] < at[y]
      BY <1>3, <2>2, <3>1, <3>2 DEF Inv, IInv, RowsOrdered
    <3>4. y # k /\ at[y] <= dayMark
      BY <1>2, <1>4, <2>2, <3>1, <3>2
    <3>5. x = k
      <4>1. at[x] <= dayMark
        BY <1>2, <3>2, <3>3, <3>4
      <4>2. ~Prunable(x, k) \/ rows' = rows
        BY <2>2, <3>2 DEF Has, k
      <4>3. rows' # rows
        BY <2>2, <3>1, <3>2 DEF Has
      <4> QED
        BY <4>1, <4>2, <4>3 DEF Prunable
    <3>6. dayMark < at[y]
      BY <1>1, <3>1, <3>2, <3>3, <3>5 DEF Inv, IInv, RowsKept
    <3> QED
      BY <1>2, <3>2, <3>4, <3>6
  <2>3. ASSUME NEW q \in Range(prunes'), Has(q)', NEW w \in Names, Has(w)', at'[q] < at'[w]
        PROVE  dayMark < at'[w]
    <3>1. q \in Range(prunes) /\ q \in Names
      BY <1>1
    <3> QED
      BY <1>3, <2>3, <3>1 DEF Inv, IInv, RowsKept
  <2> QED
    BY <2>1, <2>2, <2>3 DEF RowsKept, Range
<1>17. MemOrdered'
  BY DEF Inv, IInv, MemOrdered
<1>18. LatestSound'
  <2> SUFFICES ASSUME mem # <<>>
               PROVE  LatestSound'
    BY DEF LatestSound
  <2>1. ASSUME Latest.version \in Versions
        PROVE  /\ Sound(Latest.version)'
               /\ unhealed \/ Latest.version \in cut \/ Latest.count = rows'[Latest.version]
    <3>1. Sound(Latest.version) /\ Latest.version \in Names
      BY <1>11, <2>1 DEF Inv, IInv, LatestSound
    <3>2. Sound(Latest.version)'
      BY <1>6, <1>11, <3>1 DEF Sound, Shielded, Has
    <3>3. Latest.version \notin cut => rows'[Latest.version] = rows[Latest.version]
      BY <1>5, <3>1 DEF Sound
    <3> QED
      BY <2>1, <3>2, <3>3 DEF Inv, IInv, LatestSound
  <2>2. Has(Blank) /\ Shielded(Blank) => (Has(Blank) /\ Shielded(Blank))'
    BY <1>5, NamesFacts
  <2> QED
    BY <1>11, <1>12, <2>1, <2>2 DEF Inv, IInv, LatestSound
<1>19. Booting'
  BY <1>3, <1>11 DEF Inv, IInv, Booting
<1> QED
  BY <1>8, <1>9, <1>10, <1>13, <1>14, <1>15, <1>16, <1>17, <1>18, <1>19 DEF Inv, IInv

LEMMA PrunesKeep ==
  ASSUME Inv, TypeInv', Apart', PruneEntries \/ PruneMeta \/ PruneFails
  PROVE  Inv'
<1>1. CASE PruneEntries
  BY <1>1, PrunedKeeps DEF PruneEntries, fileVars, jobVars, historyVars
<1>2. CASE PruneMeta
  BY <1>2, UnseenKeeps DEF PruneMeta, Quiet, fileVars, jobVars, historyVars
<1>3. CASE PruneFails
  <2>1. UNCHANGED <<remote, json, ver, rows, at, mem, up, dayMark, cut, unhealed, best, pc, job>>
    BY <1>3 DEF PruneFails, fileVars, dbVars, jobVars, historyVars
  <2>2. CASE prunes # <<>> /\ prunes' = Tail(prunes)
    BY <2>1, <2>2, PrunedKeeps
  <2>3. CASE prunes' = prunes
    BY <2>1, <2>3, UnseenKeeps DEF Quiet
  <2> QED
    BY <1>3, <2>2, <2>3 DEF PruneFails
<1> QED
  BY <1>1, <1>2, <1>3

\* The list of an insertion that is complete, before anything old leaves it.
LEMMA ListGrows ==
  ASSUME Inv, NEW j \in Jobs, pc[j] = "append"
  PROVE  LET new == Inserted(j)
             v == job[j].version
         IN  /\ v \in Names /\ v = Filed /\ new.version = v /\ new.at = job[j].at
             /\ new.count = job[j].parsed /\ new.meta = Types
             /\ Len(job[j].parsed) = Chunks /\ job[j].parsed \in Seq(Versions)
             /\ job[j].parsed # <<>>
             /\ \A n \in 1..Chunks : job[j].parsed[n] = json
             /\ ~job[j].only => rows[v] = job[j].parsed /\ at[v] = job[j].at
             /\ Bounded(v) /\ best \in Nat
             /\ v \in Versions => best <= v /\ ver = v
             /\ v = Blank => ver \notin Versions
             /\ Working(j) /\ Inserting(j) /\ TypeOK
             /\ mem \in Seq(Catalog) /\ Append(mem, new) \in Seq(Catalog) /\ new \in Catalog
<1> DEFINE v == job[j].version
<1>1. Working(j) /\ Inserting(j) /\ TypeOK /\ TypeInv
  BY TheInsertion DEF Working, Inv
<1>2. v \in Names /\ v = Filed
  BY <1>1, NamesFacts DEF TypeInv, JobsKnow, Inserting
<1>3. Inserted(j) \in Catalog /\ Append(mem, Inserted(j)) \in Seq(Catalog)
  BY <1>1, InsertedType
<1>4. job[j].next = Chunks + MetaTypes + 1 /\ 1 < job[j].next /\ ~(job[j].next <= Chunks)
  BY <1>1, Bounds DEF Inserting
<1>5. /\ Len(job[j].parsed) = Chunks /\ job[j].parsed \in Seq(Versions)
      /\ job[j].parsed # <<>> /\ DOMAIN job[j].parsed = 1..Chunks
      /\ \A n \in DOMAIN job[j].parsed : job[j].parsed[n] = json
  BY <1>1, <1>4, JobFields, Bounds DEF Inserting
<1>6. ~job[j].only => rows[v] = job[j].parsed /\ at[v] = job[j].at
  BY <1>1, <1>4 DEF Inserting
<1>7. /\ remote \in Nat \ {0} /\ best \in Nat /\ mem \in Seq(Catalog) /\ Bounded(best)
  BY <1>1, NamesFacts DEF TypeOK, Inv, IInv, Versioned
<1>8. Bounded(v) /\ (v \in Versions => best <= v /\ ver = v) /\ (v = Blank => ver \notin Versions)
  <2>1. CASE ver \in Versions
    <3>1. v = ver /\ ver \in Nat /\ v # Blank
      BY <1>2, <2>1, NamesFacts DEF Filed
    <3> QED
      BY <1>7, <2>1, <3>1 DEF Bounded
  <2>2. CASE ver \notin Versions
    <3>1. v = Blank /\ v \notin Versions /\ v = 0
      BY <1>2, <2>2, NamesFacts DEF Filed
    <3> QED
      BY <1>7, <2>2, <3>1 DEF Bounded
  <2> QED
    BY <2>1, <2>2
<1> QED
  BY <1>1, <1>2, <1>3, <1>5, <1>6, <1>7, <1>8 DEF Inserted

\* What clients have seen when v is the latest.
LEMMA BestFacts ==
  ASSUME Inv, NEW cats \in Seq(Catalog), best' = Seen(cats), cats # <<>>,
         NEW v \in Names, Last(cats).version = v, v \in Versions => best <= v
  PROVE  /\ best' \in {best, v}
         /\ v \in Versions => best' <= v
         /\ v = Blank => best' = best
         /\ best' # best => v \in Versions /\ v \notin cut
<1>1. best \in Names /\ cut \in SUBSET Names /\ best \in Nat /\ v \in Nat /\ Blank = 0
      /\ (v # Blank => v \in Versions)
  BY NamesFacts DEF Inv, TypeInv, TypeOK, Names
<1>2. /\ best' \in {best, v} /\ best <= best'
      /\ best <= v => best' <= v
      /\ best' # best => v \notin cut
  BY <1>1, SeenFacts
<1> QED
  BY <1>1, <1>2

\* What neither adds entries nor takes any away leaves them whole.
LEMMA WholeKept ==
  ASSUME Inv, UNCHANGED <<rows, ver, cut>>,
         \A j \in Jobs, w \in Names : ~Filling(j, w),
         \A r \in Reloads : pc[r] # "check"
  PROVE  RowsWhole' /\ (ver \in Versions \ cut => Has(ver))
<1>1. ASSUME NEW v \in Versions \ cut, Has(v)
      PROVE  Whole(v)
  BY <1>1, NamesFacts DEF Inv, IInv, RowsWhole
<1>2. ver \in Versions \ cut => Has(ver)
  BY NamesFacts DEF Inv, IInv, RowsWhole
<1>3. \A v \in Versions : (Has(v)' <=> Has(v)) /\ (Whole(v)' <=> Whole(v))
  BY DEF Has, Whole
<1>4. \A v \in (Versions \ cut)' : Has(v)' => Whole(v)'
  BY <1>1, <1>3
<1>5. ver' \in (Versions \ cut)' => Has(ver)'
  BY <1>2 DEF Has
<1> QED
  BY <1>2, <1>4, <1>5 DEF RowsWhole

LEMMA BootedKeeps ==
  ASSUME Inv, TypeInv', Apart', Booted
  PROVE  Inv'
<1> DEFINE new == Inserted(Boot)
<1>0. PICK v \in Names : v = job[Boot].version
  BY NamesFacts, ListGrows DEF Booted
<1>1. /\ UNCHANGED <<remote, json, ver, rows, at, prunes, dayMark, cut, unhealed>>
      /\ mem' = Append(mem, new) /\ up' = "up" /\ best' = Seen(mem')
      /\ pc[Boot] = "append" /\ Goto(Boot, "idle") /\ Boot \in Jobs
  BY NamesFacts DEF Booted, fileVars, dbVars, pruneVars
<1>2. /\ v = Filed /\ new.version = v /\ new.at = job[Boot].at
      /\ new.count = job[Boot].parsed /\ new.meta = Types
      /\ Len(job[Boot].parsed) = Chunks /\ job[Boot].parsed \in Seq(Versions)
      /\ job[Boot].parsed # <<>>
      /\ \A n \in 1..Chunks : job[Boot].parsed[n] = json
      /\ ~job[Boot].only => rows[v] = job[Boot].parsed /\ at[v] = job[Boot].at
      /\ Bounded(v) /\ best \in Nat
      /\ v \in Versions => best <= v /\ ver = v
      /\ v = Blank => ver \notin Versions
      /\ Inserting(Boot) /\ TypeOK
      /\ mem \in Seq(Catalog) /\ mem' \in Seq(Catalog) /\ new \in Catalog
  BY <1>0, <1>1, ListGrows
<1> HIDE DEF new
<1>3. /\ DOMAIN mem = 1..Len(mem) /\ Len(mem) \in Nat
      /\ DOMAIN mem' = 1..(Len(mem) + 1) /\ Len(mem') = Len(mem) + 1
      /\ mem'[Len(mem) + 1] = new /\ \A i \in DOMAIN mem : mem'[i] = mem[i]
      /\ mem' # <<>>
      /\ Latest' = new /\ Last(mem') = new
  BY <1>1, <1>2, AppendProperties DEF Latest, Last
<1>4. \A i \in DOMAIN mem' : i \in DOMAIN mem \/ (i = Len(mem) + 1 /\ mem'[i] = new)
  BY <1>3
<1>5. \A i \in DOMAIN mem : mem[i].version \in Names /\ mem[i].version \in Nat /\ mem[i].at \in Nat
  BY <1>2, ListFields, NamesFacts
<1>6. /\ job[Boot].only => v # None /\ mem # <<>>
      /\ ~job[Boot].only => mem = <<>>
      /\ dayMark < job[Boot].at
      /\ \A i \in DOMAIN mem : mem[i].at < job[Boot].at
  BY <1>0, <1>2 DEF Inserting
<1>7. /\ best' \in {best, v}
      /\ v \in Versions => best' <= v
      /\ v = Blank => best' = best
      /\ best' # best => v \in Versions /\ v \notin cut
  BY <1>1, <1>2, <1>3, BestFacts
<1>8. up = "boot"
  BY <1>1 DEF Inv, IInv, Phases
<1>9. \A j \in Jobs : pc'[j] = "idle" /\ job'[j] = NoJob
  BY <1>1, LastJobEnds
<1>10. Phases'
  BY <1>1, <1>9, NamesFacts DEF Phases
<1>11. Downloads' /\ Insertions'
  BY <1>9, NoJobs
<1>12. Versioned'
  <2>1. Bounded(best')
    BY <1>2, <1>7 DEF Inv, IInv, Versioned
  <2>2. \A i \in DOMAIN mem' : Bounded(mem'[i].version)
    BY <1>2, <1>3, <1>4 DEF Inv, IInv, Versioned
  <2> QED
    BY <1>1, <2>1, <2>2 DEF Inv, IInv, Versioned, Bounded, Has
<1>13. RowsOrdered'
  BY <1>1 DEF Inv, IInv, RowsOrdered, Has
<1>14. \A j \in Jobs, w \in Names : ~Filling(j, w)
  BY <1>1, Alone DEF Filling
<1>15. \A r \in Reloads : pc[r] # "check"
  BY <1>8, Alone
<1>16. RowsWhole' /\ (ver \in Versions \ cut => Has(ver))
  BY <1>1, <1>14, <1>15, WholeKept
<1>17. v \in Versions /\ v \notin cut => Has(v)
  BY <1>2, <1>16
<1>18. RowsKept'
  <2>1. ASSUME NEW x \in Versions, Has(x), \A w \in Versions : Has(w) => w <= x
        PROVE  best' <= x
    <3>1. best <= x
      BY <2>1 DEF Inv, IInv, RowsKept
    <3> QED
      BY <1>7, <1>17, <2>1, <3>1
  <2> QED
    BY <1>1, <2>1 DEF Inv, IInv, RowsKept, Has, Shielded
<1>19. MemOrdered'
  <2>1. ASSUME NEW i \in DOMAIN mem', NEW k \in DOMAIN mem', i < k
        PROVE  /\ mem'[i].at < mem'[k].at
               /\ mem'[k].version # Blank => mem'[i].version <= mem'[k].version
    <3>1. i \in DOMAIN mem
      BY <1>3, <1>4, <2>1
    <3>2. CASE k \in DOMAIN mem
      BY <1>3, <2>1, <3>1, <3>2 DEF Inv, IInv, MemOrdered
    <3>3. CASE k = Len(mem) + 1 /\ mem'[k] = new
      <4>1. v # Blank => v \in Versions /\ ver = v
        BY <1>2 DEF Names
      <4>2. Bounded(mem[i].version)
        BY <3>1 DEF Inv, IInv, Versioned
      <4> QED
        BY <1>2, <1>3, <1>6, <3>1, <3>3, <4>1, <4>2 DEF Bounded
    <3> QED
      BY <1>4, <3>2, <3>3
  <2>2. \A i \in DOMAIN mem' : mem'[i].count # <<>>
    BY <1>2, <1>3, <1>4 DEF Inv, IInv, MemOrdered
  <2> QED
    BY <2>1, <2>2 DEF MemOrdered
<1>20. Booting'
  BY <1>1 DEF Booting
<1>21. ASSUME v \in Versions
       PROVE  /\ Sound(v)'
              /\ unhealed \/ v \in cut \/ new.count = rows[v]
  <2>1. Has(v) => Shielded(v)
    BY <1>2, <1>21 DEF Inv, IInv, RowsKept
  <2>2. Has(v) => \E i \in DOMAIN mem' : mem'[i].version = v /\ mem'[i].at <= at[v]
    <3>1. CASE job[Boot].only
      BY <1>3, <1>6, <1>8, <3>1 DEF Inv, IInv, Booting
    <3>2. CASE ~job[Boot].only
      <4>1. mem'[Len(mem) + 1].version = v /\ mem'[Len(mem) + 1].at <= at[v]
        BY <1>2, <1>3, <3>2, JobFields, <1>1
      <4> QED
        BY <1>3, <4>1
    <3> QED
      BY <3>1, <3>2
  <2>3. Sound(v)'
    BY <1>1, <1>7, <1>17, <1>21, <2>1, <2>2 DEF Sound, Has, Shielded
  <2>4. ASSUME ~unhealed, v \notin cut, job[Boot].only
        PROVE  new.count = rows[v]
    <3>1. ver = Latest.version /\ Range(Latest.count) \subseteq {json} /\ ver = v
      BY <1>2, <1>6, <1>8, <1>21, <2>4 DEF Inv, IInv, Booting
    <3>2. Latest.count = rows[v]
      BY <1>6, <1>21, <2>4, <3>1 DEF Inv, IInv, LatestSound
    <3>3. Whole(v)
      BY <1>14, <1>17, <1>21, <2>4, NamesFacts DEF Inv, IInv, RowsWhole
    <3>4. rows[v] \in Seq(Versions) /\ Len(rows[v]) = Chunks /\ DOMAIN rows[v] = 1..Chunks
      <4>1. rows[v] \in Seq(Versions)
        BY <1>2 DEF TypeOK
      <4> QED
        BY <3>3, <4>1 DEF Whole
    <3>5. \A n \in 1..Chunks : rows[v][n] = json
      BY <3>1, <3>2, <3>4 DEF Range
    <3> QED
      BY <1>2, <3>4, <3>5, SeqEqual
  <2> QED
    BY <1>2, <2>3, <2>4
<1>22. ASSUME v = Blank
       PROVE  (Has(Blank) /\ Shielded(Blank)) \/ Hidden'
  <2>1. CASE ~job[Boot].only
    BY <1>2, <1>6, <1>22, <2>1 DEF Has, Shielded
  <2>2. CASE job[Boot].only
    <3>1. mem # <<>> /\ Latest.version \in Names /\ Latest = mem[Len(mem)] /\ Len(mem) \in DOMAIN mem
      BY <1>2, <1>6, <2>2, ListFields DEF Latest
    <3>2. CASE ~unhealed
      <4>1. Latest.version = Blank
        BY <1>2, <1>8, <1>22, <3>1, <3>2, NamesFacts DEF Inv, IInv, Booting, Filed, Names
      <4> QED
        BY <3>1, <3>2, <4>1 DEF Inv, IInv, LatestSound, Hidden
    <3>3. CASE unhealed
      <4>1. ASSUME NEW i \in DOMAIN mem', Top(i)', ~(Has(Blank) /\ Shielded(Blank))
            PROVE  Sound(mem'[i].version)
        <5>1. i \in DOMAIN mem /\ mem'[i] = mem[i] /\ Top(i) /\ mem[i].version \in Versions
          BY <1>2, <1>3, <1>4, <1>22, <4>1, NamesFacts DEF Top
        <5>2. CASE Latest.version \in Versions
          <6>1. mem[i].version <= Latest.version
            <7>1. i = Len(mem) \/ i < Len(mem)
              BY <1>3, <5>1
            <7>2. Latest.version # Blank
              BY <5>2, NamesFacts
            <7> QED
              BY <1>5, <3>1, <5>1, <7>1, <7>2 DEF Inv, IInv, MemOrdered
          <6>2. Latest.version <= mem[i].version
            BY <3>1, <5>1 DEF Top
          <6>3. mem[i].version = Latest.version
            BY <1>5, <3>1, <5>1, <6>1, <6>2
          <6> QED
            BY <3>1, <5>1, <5>2, <6>3 DEF Inv, IInv, LatestSound
        <5>3. CASE Latest.version = Blank
          BY <3>1, <4>1, <5>1, <5>3 DEF Inv, IInv, LatestSound, Hidden
        <5> QED
          BY <3>1, <5>2, <5>3 DEF Names
      <4>2. ASSUME NEW w \in Names, Sound(w)
            PROVE  Sound(w)'
        BY <1>1, <1>3, <1>7, <1>22, <4>2 DEF Sound, Has, Shielded
      <4>3. \A i \in DOMAIN mem' : mem'[i].version \in Names
        BY <1>2, ListFields
      <4>4. ASSUME NEW i \in DOMAIN mem', Sound(mem'[i].version)
            PROVE  Sound(mem[i].version)'
        BY <4>2, <4>3, <4>4 DEF Sound, Has, Shielded
      <4> QED
        BY <1>1, <3>3, <4>1, <4>4 DEF Hidden
    <3> QED
      BY <3>2, <3>3
  <2> QED
    BY <2>1, <2>2
<1>23. LatestSound'
  <2>1. ASSUME v \in Versions
        PROVE  Sound(Latest.version)'
    <3>1. Sound(v)' /\ Latest.version' = v
      BY <1>2, <1>3, <1>21, <2>1
    <3> QED
      BY <3>1 DEF Sound, Has, Shielded
  <2>2. (Has(Blank) /\ Shielded(Blank))' <=> (Has(Blank) /\ Shielded(Blank))
    BY <1>1 DEF Has, Shielded
  <2> QED
    BY <1>1, <1>2, <1>3, <1>21, <1>22, <2>1, <2>2 DEF LatestSound
<1> QED
  BY <1>10, <1>11, <1>12, <1>13, <1>16, <1>18, <1>19, <1>20, <1>23 DEF Inv, IInv

\* The list after an update: what is no more than a day old is still there in its
\* order, with the new catalogue at the end, unless that is the blank version and
\* takes all others of that version with it.  Then a version is the last that is
\* Sound.
LEMMA UpdateList ==
  ASSUME Inv, NEW r \in Reloads, OnCatalogueUpdate(r),
         NEW v \in Names, v = job[r].version
  PROVE  LET new == Inserted(r)
             latest == Last(mem')
         IN  /\ mem' \in Seq(Catalog)
             /\ \A n \in DOMAIN mem' : mem'[n] = new \/ \E i \in DOMAIN mem : mem'[n] = mem[i]
             /\ \A m, n \in DOMAIN mem' : m < n =>
                  /\ mem'[m].at < mem'[n].at
                  /\ mem'[n].version # Blank => mem'[m].version <= mem'[n].version
             /\ mem' # <<>> =>
                  \/ latest = new
                  \/ /\ v = Blank /\ Hidden /\ latest.version \in Versions
                     /\ Sound(latest.version)
                     /\ Has(latest.version) => dayMark < at[latest.version]
                     /\ \A i \in DOMAIN mem : mem[i].version = latest.version
                          => \E n \in DOMAIN mem' : mem'[n] = mem[i]
<1> DEFINE new == Inserted(r)
           cats == Append(mem, new)
           old == {cats[i].version : i \in {n \in DOMAIN cats : cats[n].at <= dayMark}}
           places == {n \in DOMAIN cats : cats[n].version \notin old}
           p == Picked(cats, places)
<1>1. mem' = p /\ pc[r] = "append" /\ r \in Jobs /\ r # Boot
  BY NamesFacts DEF OnCatalogueUpdate
<1>2. /\ v = Filed /\ new.version = v /\ new.at = job[r].at
      /\ v \in Versions => ver = v
      /\ Inserting(r) /\ TypeOK
      /\ mem \in Seq(Catalog) /\ cats \in Seq(Catalog) /\ new \in Catalog
      /\ dayMark \in Nat /\ job[r].at \in Nat
  BY <1>1, ListGrows, JobFields DEF TypeOK
<1> HIDE DEF new
<1>3. /\ DOMAIN mem = 1..Len(mem) /\ Len(mem) \in Nat
      /\ DOMAIN cats = 1..(Len(mem) + 1)
      /\ cats[Len(mem) + 1] = new /\ \A i \in DOMAIN mem : cats[i] = mem[i]
  BY <1>2, AppendProperties
<1> HIDE DEF cats
<1>4. \A i \in DOMAIN cats : i \in DOMAIN mem \/ i = Len(mem) + 1
  BY <1>3
<1>5. \A i \in DOMAIN mem : /\ mem[i].version \in Names /\ mem[i].version \in Nat /\ mem[i].at \in Nat
                            /\ mem[i].at < job[r].at
  BY <1>2, ListFields, NamesFacts DEF Inserting
<1>6. /\ dayMark < job[r].at
      /\ v \in Versions => \A i \in DOMAIN mem : mem[i].version < v
      /\ v = Blank /\ mem # <<>> => Latest.version = Blank /\ Hidden
  <2>1. job[r].next = Chunks + MetaTypes + 1 /\ 1 < job[r].next
    BY <1>1, <1>2, Bounds DEF Inserting
  <2> QED
    BY <1>1, <1>2, <2>1 DEF Inserting
<1>7. ASSUME NEW i \in DOMAIN cats, NEW k \in DOMAIN cats, i < k
      PROVE  /\ cats[i].at < cats[k].at
             /\ cats[k].version # Blank => cats[i].version <= cats[k].version
  <2>1. i \in DOMAIN mem
    BY <1>3, <1>4, <1>7
  <2>2. CASE k \in DOMAIN mem
    BY <1>3, <1>7, <2>1, <2>2 DEF Inv, IInv, MemOrdered
  <2>3. CASE k = Len(mem) + 1
    <3>1. v # Blank => v \in Versions /\ v \in Nat
      BY <1>2, NamesFacts DEF Names
    <3> QED
      BY <1>2, <1>3, <1>5, <1>6, <2>1, <2>3, <3>1
  <2> QED
    BY <1>4, <2>2, <2>3
<1>8. places \in SUBSET DOMAIN cats
  OBVIOUS
<1>9. /\ p \in Seq(Catalog)
      /\ \E keeps \in [DOMAIN p -> places] :
           /\ \A n \in DOMAIN p : p[n] = cats[keeps[n]]
           /\ \A m, n \in DOMAIN p : m < n => keeps[m] < keeps[n]
           /\ \A i \in places : \E n \in DOMAIN p : keeps[n] = i
  <2>1. ASSUME NEW some \in SUBSET DOMAIN cats, NEW q, q = Picked(cats, some)
        PROVE  /\ q \in Seq(Catalog)
               /\ \E keeps \in [DOMAIN q -> some] :
                    /\ \A n \in DOMAIN q : q[n] = cats[keeps[n]]
                    /\ \A m, n \in DOMAIN q : m < n => keeps[m] < keeps[n]
                    /\ \A i \in some : \E n \in DOMAIN q : keeps[n] = i
    BY <1>2, <2>1, PickedFacts
  <2>2. p = Picked(cats, places)
    OBVIOUS
  <2> HIDE DEF places, p
  <2> QED
    BY <1>8, <2>1, <2>2
<1>10. PICK keeps \in [DOMAIN p -> places] :
         /\ \A n \in DOMAIN p : p[n] = cats[keeps[n]]
         /\ \A m, n \in DOMAIN p : m < n => keeps[m] < keeps[n]
         /\ \A i \in places : \E n \in DOMAIN p : keeps[n] = i
  BY <1>9
<1> HIDE DEF p
<1>11. \A n \in DOMAIN p : keeps[n] \in DOMAIN cats /\ cats[keeps[n]].version \notin old
  <2>1. \A n \in DOMAIN p : keeps[n] \in places
    OBVIOUS
  <2> QED
    BY <2>1
<1>12. \A n \in DOMAIN p : p[n] = new \/ \E i \in DOMAIN mem : p[n] = mem[i]
  BY <1>3, <1>4, <1>10, <1>11
<1>13. \A m, n \in DOMAIN p : m < n =>
         /\ p[m].at < p[n].at
         /\ p[n].version # Blank => p[m].version <= p[n].version
  BY <1>7, <1>10, <1>11
<1>14. ASSUME p # <<>>
       PROVE  /\ Len(p) \in DOMAIN p /\ Last(p) = cats[keeps[Len(p)]]
              /\ \A i \in places : i <= keeps[Len(p)]
  <2>1. DOMAIN p = 1..Len(p) /\ Len(p) \in DOMAIN p /\ Last(p) = p[Len(p)]
    BY <1>9, <1>14, ListFields
  <2>2. \A n \in DOMAIN p : n = Len(p) \/ n < Len(p)
    BY <1>9, <2>1
  <2>3. \A n \in DOMAIN p : keeps[n] \in Nat
    BY <1>3, <1>11
  <2>4. \A n \in DOMAIN p : keeps[n] <= keeps[Len(p)]
    BY <1>10, <2>1, <2>2, <2>3
  <2> QED
    BY <1>10, <2>1, <2>4
<1>15. ASSUME v \notin old, p # <<>>
       PROVE  Last(p) = new
  <2>1. Len(mem) + 1 \in places
    BY <1>2, <1>3, <1>15
  <2>2. keeps[Len(p)] \in DOMAIN cats /\ Len(mem) + 1 <= keeps[Len(p)]
    BY <1>11, <1>14, <1>15, <2>1
  <2>3. keeps[Len(p)] = Len(mem) + 1
    BY <1>3, <2>2
  <2> QED
    BY <1>3, <1>14, <1>15, <2>3
<1>16. ASSUME v \in old
       PROVE  v = Blank /\ Hidden
  <2>1. PICK i \in DOMAIN cats : cats[i].at <= dayMark /\ cats[i].version = v
    BY <1>16
  <2>2. i \in DOMAIN mem
    BY <1>2, <1>3, <1>4, <1>6, <2>1
  <2>3. v \notin Versions
    BY <1>3, <1>5, <1>6, <2>1, <2>2
  <2> QED
    BY <1>3, <1>6, <2>2, <2>3 DEF Names
<1>17. ASSUME v \in old, p # <<>>
       PROVE  LET latest == Last(p)
              IN  /\ latest.version \in Versions
                  /\ Sound(latest.version)
                  /\ Has(latest.version) => dayMark < at[latest.version]
                  /\ \A i \in DOMAIN mem : mem[i].version = latest.version
                       => \E n \in DOMAIN p : p[n] = mem[i]
  <2>1. PICK k \in DOMAIN cats : k = keeps[Len(p)]
    BY <1>11, <1>14, <1>17
  <2>2. Last(p) = cats[k] /\ cats[k].version \notin old /\ \A i \in places : i <= k
    BY <1>11, <1>14, <1>17, <2>1
  <2>3. v = Blank /\ Hidden
    BY <1>16, <1>17
  <2>4. k \in DOMAIN mem /\ cats[k] = mem[k] /\ mem[k].version # Blank
    BY <1>2, <1>3, <1>4, <1>17, <2>2, <2>3
  <2>5. mem[k].version \in Versions
    BY <1>5, <2>4 DEF Names
  <2>6. \A i \in DOMAIN mem : mem[i].at <= dayMark => mem[i].version \in old
    BY <1>3
  <2>7. \A i \in DOMAIN mem : mem[i].version = mem[k].version => dayMark < mem[i].at
    <3>1. ASSUME NEW i \in DOMAIN mem, mem[i].version = mem[k].version
          PROVE  ~(mem[i].at <= dayMark)
      BY <2>2, <2>4, <2>6, <3>1
    <3> QED
      BY <1>2, <1>5, <3>1
  <2>8. ASSUME NEW i \in DOMAIN mem
        PROVE  mem[i].version <= mem[k].version
    <3>1. CASE i <= k
      <4>1. i = k \/ i < k
        BY <1>3, <2>4, <3>1
      <4> QED
        BY <1>5, <2>4, <4>1 DEF Inv, IInv, MemOrdered
    <3>2. CASE ~(i <= k)
      <4>1. mem[i].version \in old
        BY <1>3, <2>2, <3>2
      <4>2. PICK m \in DOMAIN cats : cats[m].at <= dayMark /\ cats[m].version = mem[i].version
        BY <4>1
      <4>3. m \in DOMAIN mem /\ mem[m].at <= dayMark /\ mem[m].version = mem[i].version
        BY <1>2, <1>3, <1>4, <1>6, <4>2
      <4>4. m < k
        <5>1. mem[m].at < mem[k].at
          BY <1>2, <1>5, <2>4, <2>7, <4>3
        <5>2. ~(k < m) /\ m # k
          BY <1>5, <2>4, <4>3, <5>1 DEF Inv, IInv, MemOrdered
        <5> QED
          BY <1>3, <2>4, <4>3, <5>2
      <4> QED
        BY <2>4, <4>3, <4>4 DEF Inv, IInv, MemOrdered
    <3> QED
      BY <3>1, <3>2
  <2>9. Sound(mem[k].version)
    BY <2>3, <2>4, <2>5, <2>8 DEF Hidden, Top
  <2>10. Has(mem[k].version) => dayMark < at[mem[k].version]
    <3>1. SUFFICES ASSUME Has(mem[k].version)
                   PROVE  dayMark < at[mem[k].version]
      OBVIOUS
    <3>2. PICK i \in DOMAIN mem : mem[i].version = mem[k].version /\ mem[i].at <= at[mem[k].version]
      BY <2>9, <3>1 DEF Sound
    <3>3. at[mem[k].version] \in Nat
      BY <1>2, <1>5, <2>4 DEF TypeOK
    <3> QED
      BY <1>2, <1>5, <2>7, <3>2, <3>3
  <2>11. ASSUME NEW i \in DOMAIN mem, mem[i].version = mem[k].version
         PROVE  \E n \in DOMAIN p : p[n] = mem[i]
    <3>1. i \in places /\ cats[i] = mem[i]
      BY <1>3, <2>2, <2>4, <2>11
    <3> QED
      BY <1>10, <3>1
  <2> QED
    BY <2>2, <2>4, <2>5, <2>9, <2>10, <2>11
<1> HIDE DEF old
<1> QED
  BY <1>1, <1>9, <1>12, <1>13, <1>15, <1>16, <1>17 DEF new

LEMMA UpdateKeeps ==
  ASSUME Inv, TypeInv', Apart', NEW r \in Reloads, OnCatalogueUpdate(r)
  PROVE  Inv'
<1> DEFINE new == Inserted(r)
           cats == Append(mem, new)
           k == Last(mem').version
<1>1. /\ UNCHANGED <<remote, json, ver, rows, at, up, dayMark, cut, unhealed>>
      /\ best' = Seen(mem') /\ pc[r] = "append" /\ Goto(r, "idle") /\ r \in Jobs /\ r # Boot
      /\ prunes' = IF Len(cats) > 1 /\ mem' # <<>> THEN Append(prunes, k) ELSE prunes
  BY NamesFacts DEF OnCatalogueUpdate, fileVars, dbVars
<1>2. PICK v \in Names : v = job[r].version
  BY <1>1, ListGrows
<1>3. /\ v = Filed /\ new.version = v /\ new.at = job[r].at
      /\ new.count = job[r].parsed /\ new.meta = Types /\ job[r].parsed # <<>>
      /\ ~job[r].only => rows[v] = job[r].parsed /\ at[v] = job[r].at
      /\ Bounded(v) /\ best \in Nat
      /\ v \in Versions => best <= v /\ ver = v
      /\ v = Blank => ver \notin Versions
      /\ Inserting(r) /\ TypeOK /\ mem \in Seq(Catalog) /\ new \in Catalog
  BY <1>1, <1>2, ListGrows
<1>4. /\ mem' \in Seq(Catalog)
      /\ \A n \in DOMAIN mem' : mem'[n] = new \/ \E i \in DOMAIN mem : mem'[n] = mem[i]
      /\ \A m, n \in DOMAIN mem' : m < n =>
           /\ mem'[m].at < mem'[n].at
           /\ mem'[n].version # Blank => mem'[m].version <= mem'[n].version
  BY <1>2, UpdateList
<1>5. mem' # <<>> =>
        \/ Last(mem') = new
        \/ /\ v = Blank /\ Hidden /\ k \in Versions
           /\ Sound(k)
           /\ Has(k) => dayMark < at[k]
           /\ \A i \in DOMAIN mem : mem[i].version = k => \E n \in DOMAIN mem' : mem'[n] = mem[i]
  BY <1>2, UpdateList
<1> HIDE DEF new
<1>6. /\ \A n \in DOMAIN mem' : mem'[n].version \in Names /\ mem'[n].at \in Nat
      /\ mem' # <<>> => /\ Len(mem') \in DOMAIN mem' /\ Last(mem') = mem'[Len(mem')]
                        /\ k \in Names
      /\ Latest' = Last(mem')
  BY <1>4, ListFields DEF Latest
<1>7. /\ ~job[r].only /\ dayMark < job[r].at /\ dayMark \in Nat /\ job[r].at \in Nat
      /\ rows[v] = job[r].parsed /\ at[v] = job[r].at /\ Has(v)
  <2>1. ~job[r].only
    BY <1>1, <1>3 DEF Inserting
  <2> QED
    BY <1>1, <1>3, <2>1, JobFields DEF Inserting, Has, TypeOK
<1>8. \A w \in Names : at[w] \in Nat
  BY <1>3 DEF TypeOK
<1>9. \A x \in Range(prunes') : x \in Range(prunes) \/ (mem' # <<>> /\ x = k)
  <2>1. prunes \in Seq(Names)
    BY <1>3 DEF TypeOK
  <2>2. CASE prunes' = prunes
    BY <2>2
  <2>3. CASE mem' # <<>> /\ prunes' = Append(prunes, k)
    <3>1. k \in Names
      BY <1>6, <2>3
    <3> HIDE DEF k
    <3> QED
      BY <2>1, <2>3, <3>1 DEF Range
  <2> QED
    BY <1>1, <2>2, <2>3
<1> HIDE DEF cats, k
<1>10. ASSUME mem' # <<>>
       PROVE  /\ k \in Names
              /\ k \in Versions => best <= k
              /\ Has(k) => dayMark < at[k]
              /\ k \in Versions \ cut => Has(k)
  BY <1>3, <1>5, <1>6, <1>7, <1>10 DEF Sound, k
<1>11. /\ best' \in Nat
       /\ best' # best => /\ mem' # <<>> /\ best' = k /\ k \in Versions /\ k \notin cut
       /\ mem' # <<>> /\ k \in Versions => best' <= k
  <2>1. CASE mem' = <<>>
    <3>1. best' = best
      BY <1>1, <1>3, <1>4, <2>1, SeenFacts DEF TypeOK
    <3> QED
      BY <1>3, <2>1, <3>1
  <2>2. CASE mem' # <<>>
    <3>1. PICK w \in Names : w = k
      BY <1>10, <2>2
    <3>2. /\ best' \in {best, w}
          /\ w \in Versions => best' <= w
          /\ w = Blank => best' = best
          /\ best' # best => w \in Versions /\ w \notin cut
      BY <1>1, <1>4, <1>10, <2>2, <3>1, BestFacts DEF k
    <3> QED
      BY <1>3, <2>2, <3>1, <3>2, NamesFacts
  <2> QED
    BY <2>1, <2>2
<1>12. up = "up" /\ \A i \in Jobs : pc'[i] = "idle" /\ job'[i] = NoJob
  BY <1>1, LastJobEnds, Alone
<1>13. Phases'
  BY <1>1, <1>12, NamesFacts DEF Phases
<1>14. Downloads' /\ Insertions'
  BY <1>12, NoJobs
<1>15. Versioned'
  <2>1. \A i \in DOMAIN mem' : Bounded(mem'[i].version)
    BY <1>3, <1>4 DEF Inv, IInv, Versioned
  <2>2. Bounded(best')
    <3>1. best' = best \/ Bounded(k)
      BY <1>6, <1>11, <2>1 DEF k
    <3> QED
      BY <1>11, <3>1 DEF Inv, IInv, Versioned
  <2> QED
    BY <1>1, <2>1, <2>2 DEF Inv, IInv, Versioned, Bounded, Has
<1>16. RowsOrdered'
  BY <1>1 DEF Inv, IInv, RowsOrdered, Has
<1>17. \A j \in Jobs, w \in Names : ~Filling(j, w)
  BY <1>1, Alone DEF Filling
<1>18. \A s \in Reloads : pc[s] # "check"
  BY <1>1, NamesFacts, Alone
<1>19. RowsWhole'
  BY <1>1, <1>17, <1>18, WholeKept
<1>20. ASSUME NEW w \in Names, Shielded(w), (mem' # <<>> /\ w # k) => dayMark < at[w]
       PROVE  Shielded(w)'
  BY <1>1, <1>9, <1>20 DEF Shielded
<1>21. RowsKept'
  <2>1. ASSUME ver \in Versions, Has(ver)
        PROVE  Shielded(ver)'
    <3>1. v = ver /\ Shielded(ver) /\ ver \in Names
      BY <1>3, <2>1, NamesFacts DEF Inv, IInv, RowsKept, Filed
    <3> QED
      <4>1. Shielded(v)'
        BY <1>7, <1>20, <3>1
      <4> QED
        BY <1>1, <3>1, <4>1 DEF Shielded
  <2>2. ASSUME NEW x \in Versions, Has(x), \A w \in Versions : Has(w) => w <= x
        PROVE  best' <= x
    <3>1. best <= x
      BY <2>2 DEF Inv, IInv, RowsKept
    <3> QED
      BY <1>10, <1>11, <2>2, <3>1
  <2>3. ASSUME NEW x \in Range(prunes'), Has(x), NEW w \in Names, Has(w), at[x] < at[w]
        PROVE  dayMark < at[w]
    <3>1. CASE x \in Range(prunes)
      BY <2>3, <3>1 DEF Inv, IInv, RowsKept
    <3>2. CASE mem' # <<>> /\ x = k
      <4>1. x \in Names /\ dayMark < at[x]
        BY <1>10, <2>3, <3>2
      <4> QED
        BY <1>7, <1>8, <2>3, <4>1
    <3> QED
      BY <1>9, <2>3, <3>1, <3>2
  <2> QED
    BY <1>1, <2>1, <2>2, <2>3 DEF RowsKept, Has
<1>22. MemOrdered'
  <2>1. \A i \in DOMAIN mem' : mem'[i].count # <<>>
    BY <1>3, <1>4 DEF Inv, IInv, MemOrdered
  <2> QED
    BY <1>4, <2>1 DEF MemOrdered
<1>23. Booting'
  BY <1>1, <1>12 DEF Booting
<1>24. ASSUME mem' # <<>>, Last(mem') = new, v \in Versions
       PROVE  Sound(v)'
  <2>1. k = v /\ mem'[Len(mem')].version = v /\ mem'[Len(mem')].at = at[v]
    BY <1>3, <1>6, <1>7, <1>24 DEF k
  <2>2. Shielded(v)'
    BY <1>1, <1>7 DEF Shielded
  <2>3. \E i \in DOMAIN mem' : mem'[i].version = v /\ mem'[i].at <= at[v]
    BY <1>6, <1>8, <1>24, <2>1
  <2> QED
    BY <1>1, <1>7, <1>11, <1>24, <2>1, <2>2, <2>3 DEF Sound, Has
<1>25. ASSUME mem' # <<>>, Last(mem') # new
       PROVE  unhealed /\ \E w \in Versions : w = k /\ Sound(w)'
  <2>1. /\ k \in Versions /\ Sound(k) /\ Hidden
        /\ Has(k) => dayMark < at[k]
        /\ \A i \in DOMAIN mem : mem[i].version = k => \E n \in DOMAIN mem' : mem'[n] = mem[i]
    BY <1>5, <1>25
  <2>2. PICK w \in Versions : w = k
    BY <2>1
  <2>3. Has(w) => dayMark < at[w] /\ \E i \in DOMAIN mem' : mem'[i].version = w /\ mem'[i].at <= at[w]
    BY <2>1, <2>2 DEF Sound
  <2>4. Has(w) => Shielded(w)'
    BY <1>1, <2>3 DEF Shielded
  <2>5. Sound(w)'
    BY <1>1, <1>10, <1>11, <1>25, <2>2, <2>3, <2>4 DEF Sound, Has
  <2> QED
    BY <2>1, <2>2, <2>5 DEF Hidden
<1>26. LatestSound'
  <2>1. CASE mem' = <<>>
    BY <2>1 DEF LatestSound
  <2>2. CASE mem' # <<>> /\ Last(mem') = new
    <3>1. Latest' = new
      BY <1>6, <2>2
    <3>2. v \in Versions => Sound(Latest.version)'
      BY <1>3, <1>24, <2>2, <3>1 DEF Sound, Has, Shielded
    <3>3. v = Blank => (Has(Blank) /\ Shielded(Blank))'
      BY <1>1, <1>7 DEF Has, Shielded
    <3>4. v = Blank => ver' \notin Versions
      BY <1>1, <1>3
    <3>5. Latest.count' = rows'[v]
      BY <1>1, <1>3, <1>7, <3>1
    <3> QED
      BY <1>3, <3>1, <3>2, <3>3, <3>4, <3>5, NamesFacts DEF LatestSound
  <2>3. CASE mem' # <<>> /\ Last(mem') # new
    <3>1. PICK w \in Versions : w = k /\ Sound(w)'
      BY <1>25, <2>3
    <3>2. Latest.version' = w /\ unhealed'
      BY <1>1, <1>6, <1>25, <2>3, <3>1 DEF k
    <3>3. Sound(Latest.version)'
      BY <3>1, <3>2 DEF Sound, Has, Shielded
    <3> QED
      BY <3>1, <3>2, <3>3, NamesFacts DEF LatestSound
  <2> QED
    BY <2>1, <2>2, <2>3
<1>27. IInv'
  BY <1>13, <1>14, <1>15, <1>16, <1>19, <1>21, <1>22, <1>23, <1>26 DEF IInv
<1> QED
  BY <1>27, Zenon DEF Inv

\* What a start finds: the version loaded last is the newest of those in the
\* database, and the one in the file if that is among them.
LEMMA LoadedLast ==
  ASSUME Inv, NEW cats, cats = Read(Stored), cats # <<>>
  PROVE  LET k == Last(cats).version
         IN  /\ Len(cats) \in DOMAIN cats /\ Last(cats) = cats[Len(cats)]
             /\ k \in Names /\ Has(k)
             /\ \A w \in Names : Has(w) => at[w] <= at[k]
             /\ k \in Versions => best <= k
             /\ ver \in Versions /\ Has(ver) => ver = k
             /\ \A i, n \in DOMAIN cats : i < n /\ cats[n].version # Blank
                                            => cats[i].version <= cats[n].version
<1> DEFINE k == Last(cats).version
<1>1. TypeOK /\ Stamped
  BY DEF Inv, TypeInv
<1>2. /\ cats \in Seq(Catalog)
      /\ \A i \in DOMAIN cats : /\ cats[i].version \in Names /\ Has(cats[i].version)
                                /\ cats[i].at = at[cats[i].version]
      /\ \A v \in Names : Has(v) => \E i \in DOMAIN cats : cats[i].version = v
      /\ \A i, n \in DOMAIN cats : i < n => cats[i].at < cats[n].at
  BY <1>1, WhatIsRead
<1>3. /\ DOMAIN cats = 1..Len(cats) /\ Len(cats) \in Nat /\ Len(cats) \in DOMAIN cats
      /\ Last(cats) = cats[Len(cats)]
  BY <1>2, ListFields
<1>4. \A v \in Names : at[v] \in Nat /\ v \in Nat /\ (v # Blank => v \in Versions)
  BY <1>1, NamesFacts DEF TypeOK, Names
<1>5. k \in Names /\ Has(k)
  BY <1>2, <1>3
<1>6. ASSUME NEW w \in Names, Has(w)
      PROVE  at[w] <= at[k]
  <2>1. PICK i \in DOMAIN cats : cats[i].version = w
    BY <1>2, <1>6
  <2>2. i = Len(cats) \/ i < Len(cats)
    BY <1>3
  <2> QED
    BY <1>2, <1>3, <1>4, <1>5, <2>1, <2>2
<1> HIDE DEF k
<1>7. ASSUME k \in Versions
      PROVE  best <= k
  <2>1. ASSUME NEW w \in Versions, Has(w)
        PROVE  w <= k
    <3>1. at[w] <= at[k] /\ w \in Names /\ w \in Nat /\ k \in Nat /\ at[w] \in Nat /\ at[k] \in Nat
      BY <1>4, <1>5, <1>6, <2>1, NamesFacts
    <3>2. ~(k < w)
      BY <1>5, <1>7, <2>1, <3>1 DEF Inv, IInv, RowsOrdered
    <3> QED
      BY <3>1, <3>2
  <2> QED
    BY <1>5, <1>7, <2>1 DEF Inv, IInv, RowsKept
<1>8. ASSUME ver \in Versions, Has(ver)
      PROVE  ver = k
  <2>1. at[ver] <= at[k] /\ at[k] <= at[ver] /\ ver \in Names
    BY <1>5, <1>6, <1>8, NamesFacts DEF Inv, IInv, RowsOrdered
  <2>2. at[ver] = at[k]
    BY <1>4, <1>5, <2>1
  <2> QED
    BY <1>5, <1>8, <2>1, <2>2 DEF Inv, IInv, RowsOrdered
<1>9. ASSUME NEW i \in DOMAIN cats, NEW n \in DOMAIN cats, i < n, cats[n].version # Blank
      PROVE  cats[i].version <= cats[n].version
  <2>1. PICK v \in Names : v = cats[i].version
    BY <1>2
  <2>2. PICK w \in Names : w = cats[n].version
    BY <1>2
  <2>3. at[v] < at[w] /\ Has(v) /\ Has(w)
    BY <1>2, <1>9, <2>1, <2>2
  <2>4. CASE v = Blank
    BY <1>4, <2>1, <2>2, <2>4, NamesFacts
  <2>5. CASE v # Blank
    <3>1. v \in Versions /\ w \in Versions
      BY <1>4, <1>9, <2>2, <2>5
    <3>2. ~(w < v)
      BY <1>4, <2>3, <3>1 DEF Inv, IInv, RowsOrdered
    <3> QED
      BY <1>4, <2>1, <2>2, <3>2
  <2> QED
    BY <2>4, <2>5
<1> QED
  BY <1>3, <1>5, <1>6, <1>7, <1>8, <1>9 DEF k

\* What a start does, by whether it inserts the files.
LEMMA StartSets ==
  ASSUME TypeInv, Start, NEW cats, cats = Read(Stored)
  PROVE  /\ UNCHANGED <<remote, json, ver, rows, at, dayMark, cut>>
         /\ up = "down" /\ mem' = cats
         /\ prunes' = IF Len(cats) > 1 THEN Append(prunes, Last(cats).version) ELSE prunes
         /\ \/ /\ up' = "boot" /\ best' = best
               /\ ver \in Names /\ json # None
               /\ cats = <<>> \/ Incomplete(cats)
               /\ OnlyJob(Boot, "insert", Insertion(Boot, ver, Incomplete(cats)))
               /\ cats # <<>> /\ ~unhealed' => /\ ver = Last(cats).version
                                               /\ Range(Last(cats).count) \subseteq {json}
            \/ /\ up' = "up" /\ best' = Seen(cats) /\ UNCHANGED <<pc, job>>
               /\ ~unhealed' => cats # <<>> /\ ~Incomplete(cats)
<1> DEFINE new == Insertion(Boot, ver, Incomplete(cats))
           wanting == cats = <<>> \/ Incomplete(cats)
           files == json # None /\ ver # None
           match == cats # <<>> => /\ ver = Last(cats).version
                                   /\ Range(Last(cats).count) \subseteq {json}
<1>1. TypeOK /\ Boot \in Jobs
  BY NamesFacts DEF TypeInv
<1>2. /\ UNCHANGED <<remote, json, ver, rows, at, dayMark, cut>>
      /\ up = "down" /\ mem' = cats
      /\ prunes' = IF Len(cats) > 1 THEN Append(prunes, Last(cats).version) ELSE prunes
      /\ best' = IF up' = "up" THEN Seen(cats) ELSE best
      /\ unhealed' = (wanting /\ ~(files /\ match))
      /\ IF wanting /\ files
         THEN /\ up' = "boot" /\ pc' = [pc EXCEPT ![Boot] = "insert"]
              /\ job' = [job EXCEPT ![Boot] = new]
         ELSE up' = "up" /\ UNCHANGED <<pc, job>>
  BY DEF Start, fileVars, dbVars, jobVars
<1>3. CASE wanting /\ files
  <2>1. ver \in Names /\ Incomplete(cats) \in BOOLEAN
    BY <1>1, <1>3 DEF TypeOK, Incomplete
  <2>2. new \in Job
    BY <1>1, <2>1, InsertionFacts
  <2> HIDE DEF new
  <2>3. OnlyJob(Boot, "insert", new)
    BY <1>1, <1>2, <1>3, <2>2, JobSet DEF Places
  <2>4. up' = "boot" /\ best' = best
    BY <1>2, <1>3
  <2>5. cats # <<>> /\ ~unhealed' => match
    BY <1>2, <1>3
  <2> QED
    BY <1>2, <1>3, <2>1, <2>3, <2>4, <2>5 DEF new
<1>4. CASE ~(wanting /\ files)
  <2>1. up' = "up" /\ best' = Seen(cats) /\ UNCHANGED <<pc, job>>
    BY <1>2, <1>4
  <2>2. ~unhealed' => ~wanting
    BY <1>2, <1>4
  <2> QED
    BY <1>2, <2>1, <2>2
<1> QED
  BY <1>3, <1>4

LEMMA StartKeeps ==
  ASSUME Inv, TypeInv', Apart', Start
  PROVE  Inv'
<1>1. PICK cats : cats = Read(Stored)
  OBVIOUS
<1> DEFINE k == Last(cats).version
           new == Insertion(Boot, ver, Incomplete(cats))
<1>2. /\ UNCHANGED <<remote, json, ver, rows, at, dayMark, cut>>
      /\ up = "down" /\ mem' = cats
      /\ prunes' = IF Len(cats) > 1 THEN Append(prunes, k) ELSE prunes
  BY <1>1, StartSets DEF Inv
<1>3. \/ /\ up' = "boot" /\ best' = best
         /\ ver \in Names /\ json # None
         /\ cats = <<>> \/ Incomplete(cats)
         /\ OnlyJob(Boot, "insert", new)
         /\ cats # <<>> /\ ~unhealed' => /\ ver = k
                                         /\ Range(Last(cats).count) \subseteq {json}
      \/ /\ up' = "up" /\ best' = Seen(cats) /\ UNCHANGED <<pc, job>>
         /\ ~unhealed' => cats # <<>> /\ ~Incomplete(cats)
  BY <1>1, StartSets DEF Inv
<1>4. TypeOK /\ Boot \in Jobs /\ best \in Nat /\ \A w \in Names : at[w] \in Nat
  BY NamesFacts DEF Inv, TypeInv, TypeOK
<1>5. /\ cats \in Seq(Catalog)
      /\ \A i \in DOMAIN cats : /\ cats[i].version \in Names /\ Has(cats[i].version)
                                /\ cats[i].count = rows[cats[i].version]
                                /\ cats[i].at = at[cats[i].version]
      /\ \A v \in Names : Has(v) => \E i \in DOMAIN cats : cats[i].version = v
      /\ \A i, n \in DOMAIN cats : i < n => cats[i].at < cats[n].at
  BY <1>1, WhatIsRead DEF Inv, TypeInv
<1>6. cats # <<>> =>
        /\ Len(cats) \in DOMAIN cats /\ Last(cats) = cats[Len(cats)]
        /\ k \in Names /\ Has(k)
        /\ \A w \in Names : Has(w) => at[w] <= at[k]
        /\ k \in Versions => best <= k
        /\ ver \in Versions /\ Has(ver) => ver = k
        /\ \A i, n \in DOMAIN cats : i < n /\ cats[n].version # Blank
                                       => cats[i].version <= cats[n].version
  BY <1>1, LoadedLast
<1>7. prunes = <<>> /\ \A j \in Jobs : pc[j] = "idle" /\ job[j] = NoJob
  BY <1>2, NamesFacts DEF Inv, IInv, Phases
<1>8. \A x \in Range(prunes') : cats # <<>> /\ x = k
  <2>1. CASE Len(cats) > 1
    <3>1. cats # <<>> /\ k \in Names /\ prunes' = Append(<<>>, k)
      BY <1>2, <1>5, <1>6, <1>7, <2>1
    <3> HIDE DEF k
    <3> QED
      BY <3>1 DEF Range
  <2>2. CASE ~(Len(cats) > 1)
    <3>1. prunes' = <<>>
      BY <1>2, <1>7, <2>2
    <3> QED
      BY <3>1 DEF Range
  <2> QED
    BY <2>1, <2>2
<1> HIDE DEF k, new
<1>9. /\ best' # best => cats # <<>> /\ best' = k /\ k \in Versions
      /\ cats # <<>> /\ k \in Versions => best' <= k
  <2>1. CASE best' = best
    BY <1>6, <2>1
  <2>2. CASE best' = Seen(cats) /\ cats = <<>>
    <3>1. best' = best
      BY <1>4, <1>5, <2>2, SeenFacts DEF TypeOK
    <3> QED
      BY <1>6, <3>1
  <2>3. CASE best' = Seen(cats) /\ cats # <<>>
    <3>1. PICK w \in Names : w = k
      BY <1>6, <2>3
    <3>2. /\ best' \in {best, w}
          /\ w \in Versions => best' <= w
          /\ best' # best => w \in Versions
      BY <1>5, <1>6, <2>3, <3>1, BestFacts DEF k
    <3> QED
      BY <2>3, <3>1, <3>2
  <2> QED
    BY <1>3, <2>1, <2>2, <2>3
<1>10. Phases'
  <2>1. CASE up' = "up" /\ UNCHANGED <<pc, job>>
    BY <1>7, <2>1, NamesFacts DEF Phases
  <2>2. CASE up' = "boot" /\ OnlyJob(Boot, "insert", new)
    BY <1>7, <2>2, NamesFacts DEF Phases, OnlyJob
  <2> QED
    BY <1>3, <2>1, <2>2
<1>11. Versioned'
  <2>1. Bounded(best')
    BY <1>6, <1>9 DEF Inv, IInv, Versioned
  <2> QED
    BY <1>2, <1>5, <2>1 DEF Inv, IInv, Versioned, Bounded, Has
<1>12. Downloads' /\ (up' = "up" => Insertions')
  <2>1. CASE up' = "up" /\ UNCHANGED <<pc, job>>
    BY <1>7, <2>1, NoJobs
  <2>2. CASE up' = "boot" /\ OnlyJob(Boot, "insert", new)
    BY <1>7, <2>2, NamesFacts DEF Downloads, Downloading, OnlyJob
  <2> QED
    BY <1>3, <2>1, <2>2
<1>13. ASSUME up' = "boot"
       PROVE  Insertions'
  <2>1. /\ ver \in Names
        /\ cats = <<>> \/ Incomplete(cats)
        /\ OnlyJob(Boot, "insert", new)
    BY <1>3, <1>13
  <2>2. Incomplete(cats) \in BOOLEAN /\ (Incomplete(cats) => cats # <<>>)
    BY DEF Incomplete
  <2>3. /\ new.version = ver /\ new.only = Incomplete(cats)
        /\ new.parsed = <<>> /\ new.next = 1 /\ new.at = Now
    BY <1>4, <2>1, <2>2, InsertionFacts DEF new
  <2>4. \A j \in Jobs : Working(j)' => j = Boot
    BY <1>7, <2>1 DEF Working, OnlyJob
  <2>5. ver = Filed' /\ ver # None
    BY <1>2, <2>1, NamesFacts DEF Filed, Names
  <2>6. /\ Now \in Nat /\ dayMark < Now
        /\ \A w \in Names : at[w] < Now
        /\ \A i \in DOMAIN cats : cats[i].at < Now
    BY <1>4, <1>5, NowIsLater
  <2>7. 1 \in 1..(Chunks + MetaTypes) /\ 1 <= Chunks /\ Len(<<>>) = 1 - 1
    BY Bounds
  <2>8. Inserting(Boot)'
    BY <1>2, <2>1, <2>2, <2>3, <2>5, <2>6, <2>7 DEF Inserting, OnlyJob
  <2> QED
    BY <2>4, <2>8 DEF Insertions
<1>14. RowsOrdered'
  BY <1>2 DEF Inv, IInv, RowsOrdered, Has
<1>15. /\ \A j \in Jobs, w \in Names : ~Filling(j, w)
       /\ \A r \in Reloads : pc[r] # "check"
  BY <1>7, NamesFacts DEF Filling
<1>16. RowsWhole'
  BY <1>2, <1>15, WholeKept
<1>17. RowsKept'
  <2>1. ASSUME ver \in Versions, Has(ver)
        PROVE  Shielded(ver)'
    BY <1>2, <1>6, <1>8, <2>1 DEF Shielded
  <2>2. ASSUME NEW x \in Versions, Has(x), \A w \in Versions : Has(w) => w <= x
        PROVE  best' <= x
    <3>1. best <= x
      BY <2>2 DEF Inv, IInv, RowsKept
    <3> QED
      BY <1>6, <1>9, <2>2, <3>1
  <2>3. ASSUME NEW x \in Range(prunes'), NEW w \in Names, Has(w)
        PROVE  ~(at[x] < at[w])
    BY <1>4, <1>6, <1>8, <2>3
  <2> QED
    BY <1>2, <2>1, <2>2, <2>3 DEF RowsKept, Has
<1>18. MemOrdered'
  <2>1. \A i, n \in DOMAIN cats : i < n /\ cats[n].version # Blank
                                    => cats[i].version <= cats[n].version
    BY <1>5, <1>6
  <2> QED
    BY <1>2, <1>5, <2>1 DEF MemOrdered, Has
<1>19. ASSUME cats # <<>>
       PROVE  Shielded(k)' /\ cats[Len(cats)].version = k /\ cats[Len(cats)].at = at[k]
  BY <1>5, <1>6, <1>8, <1>19 DEF Shielded, k
<1>20. LatestSound'
  <2>1. SUFFICES ASSUME cats # <<>>
                 PROVE  LatestSound'
    BY <1>2 DEF LatestSound
  <2>2. /\ Latest' = Last(cats) /\ Last(cats).version = k /\ Last(cats).count = rows[k]
        /\ Has(k) /\ k \in Names
    BY <1>2, <1>5, <1>6, <2>1 DEF Latest, k
  <2>3. ASSUME k \in Versions
        PROVE  Sound(Latest.version)'
    <3>1. \E i \in DOMAIN cats : cats[i].version = k /\ cats[i].at <= at[k]
      BY <1>4, <1>6, <1>19, <2>1, <2>2
    <3> QED
      BY <1>2, <1>9, <1>19, <2>1, <2>2, <2>3, <3>1 DEF Sound, Has, Shielded
  <2>4. ASSUME k = Blank
        PROVE  /\ (Has(Blank) /\ Shielded(Blank))'
               /\ ver \in Versions => \A i \in DOMAIN cats : cats[i].version # ver
    <3>1. (Has(Blank) /\ Shielded(Blank))'
      BY <1>2, <1>19, <2>1, <2>2, <2>4 DEF Has, Shielded
    <3>2. ASSUME ver \in Versions, NEW i \in DOMAIN cats, cats[i].version = ver
          PROVE  FALSE
      BY <1>5, <1>6, <2>1, <2>4, <3>2, NamesFacts
    <3> QED
      BY <3>1, <3>2
  <2>5. up' = "up" /\ ~unhealed' => Latest.meta' = Types
    BY <1>3, <2>2 DEF Incomplete
  <2> QED
    BY <1>2, <2>2, <2>3, <2>4, <2>5 DEF LatestSound
<1>21. Booting'
  <2>1. ASSUME NEW w \in Names, Has(w)
        PROVE  \E i \in DOMAIN cats : cats[i].version = w /\ cats[i].at <= at[w]
    BY <1>4, <1>5, <2>1
  <2>2. up' = "boot" /\ cats # <<>> /\ ~unhealed'
           => ver = Last(cats).version /\ Range(Last(cats).count) \subseteq {json}
    BY <1>3 DEF k
  <2> QED
    BY <1>2, <2>1, <2>2 DEF Booting, Has, Latest
<1> QED
  BY <1>3, <1>10, <1>11, <1>12, <1>13, <1>14, <1>16, <1>17, <1>18, <1>20, <1>21
  DEF Inv, IInv

LEMMA CommitKeeps ==
  ASSUME Inv, TypeInv', Apart', NEW j \in Jobs, Commit(j)
  PROVE  Inv'
<1>1. job[j].only \in BOOLEAN /\ job[j].next \in Nat /\ Chunks \in Nat
  BY JobFields, Bounds DEF Inv, TypeInv
<1>2. job[j].only \/ Chunks < job[j].next \/ (~job[j].only /\ job[j].next <= Chunks)
  BY <1>1
<1> QED
  BY <1>2, CommitKeepsRows, CommitKeepsEntries

\* The step of one reload.
LEMMA WorkKeeps ==
  ASSUME Inv, TypeInv', Apart', NEW r \in Reloads, Work(r)
  PROVE  Inv'
<1>1. r \in Jobs
  BY NamesFacts
<1>2. CASE Download(r)
  BY <1>2, AskKeeps, FetchKeeps, OpenJsonKeeps, WriteJsonKeeps, OpenVersionKeeps,
     WriteVersionKeeps DEF Download
<1>3. CASE Reload(r) \/ Check(r)
  BY <1>3, ReloadKeeps, CheckKeeps
<1>4. CASE Commit(r) \/ Raise(r) \/ OnCatalogueUpdate(r)
  BY <1>1, <1>4, CommitKeeps, RaiseKeeps, UpdateKeeps
<1> QED
  BY <1>2, <1>3, <1>4 DEF Work

LEMMA Step ==
  ASSUME Inv, Apart', [Next]_vars
  PROVE  Inv'
<1>1. TypeInv'
  BY TypeStep DEF Inv
<1>2. CASE BootStep
  BY <1>1, <1>2, NamesFacts, StartKeeps, CommitKeeps, RaiseKeeps, BootedKeeps DEF BootStep
<1>3. CASE \E r \in Reloads : Work(r)
  BY <1>1, <1>3, WorkKeeps
<1>4. CASE PruneEntries \/ PruneMeta \/ PruneFails
  BY <1>1, <1>4, PrunesKeep
<1>5. CASE Publish \/ Day \/ Crash
  BY <1>1, <1>5, PublishKeeps, DayKeeps, CrashKeeps
<1>6. CASE UNCHANGED vars
  BY <1>1, <1>6, UnseenKeeps
  DEF Quiet, vars, fileVars, dbVars, jobVars, pruneVars, historyVars
<1> QED
  BY <1>2, <1>3, <1>4, <1>5, <1>6 DEF Next

-----------------------------------------------------------------------------
(* What clients see, however many reloads there are as long as no two       *)
(* overlap: each is done before the throttle lets the next one start.       *)

\* The version clients are shown can be searched in full, whatever was pruned
\* since, whatever failed and whenever the server died, unless the insertion of
\* that very version was cut short; and its entries are those that were counted,
\* unless the server had to start with files of another version
\* (__insert_catalogue, __load_catalogues, __on_catalogue_update and
\* __prune_entries together).
THEOREM LatestFound == Spec /\ []Apart => []LatestIsWhole
<1>1. Init => Inv
  BY InitInv
<1>2. Inv => LatestIsWhole
  <2> SUFFICES ASSUME Inv, up = "up", Loaded, Latest.version \notin cut
               PROVE  Whole(Latest.version) /\ (unhealed \/ Latest.count = rows[Latest.version])
    BY DEF LatestIsWhole
  <2>1. mem \in Seq(Catalog) /\ mem # <<>>
    BY DEF Inv, TypeInv, TypeOK, Loaded
  <2>2. Len(mem) \in DOMAIN mem /\ Latest = mem[Len(mem)] /\ Latest.version \in Names
    BY <2>1, ListFields DEF Latest
  <2>3. PICK v \in Versions : v = Latest.version
    BY <2>2 DEF Loaded, Names
  <2>4. Sound(v) /\ (unhealed \/ Latest.count = rows[v])
    BY <2>1, <2>3 DEF Inv, IInv, LatestSound
  <2>5. Has(v)
    BY <2>3, <2>4 DEF Sound
  <2>6. ASSUME NEW j \in Jobs, Filling(j, v)
        PROVE  FALSE
    <3>1. pc[j] = "insert" /\ job[j].version = v /\ Inserting(j)
      BY <2>6 DEF Inv, IInv, Insertions, Filling, Working
    <3>2. j # Boot
      BY <3>1, Alone
    <3>3. mem[Len(mem)].version < v /\ v \in Nat
      BY <2>2, <3>1, <3>2, NamesFacts DEF Inserting
    <3> QED
      BY <2>2, <2>3, <3>3
  <2>7. Whole(v)
    BY <2>3, <2>5, <2>6 DEF Inv, IInv, RowsWhole
  <2> QED
    BY <2>3, <2>4, <2>7
<1>3. Inv /\ Apart' /\ [Next]_vars => Inv'
  BY Step
<1> QED
  BY <1>1, <1>2, <1>3, PTL DEF Spec

\* Every meta type has values for the latest version, although a crash between
\* two commits or a prune that came late may have removed some of them from the
\* database: a start inserts them from the files (__load_catalogues), unless
\* those are torn or of another version.
THEOREM MetaFound == Spec /\ []Apart => []MetaIsWhole
<1>1. Inv => MetaIsWhole
  BY DEF Inv, IInv, LatestSound, MetaIsWhole, Loaded
<1>2. Init => Inv
  BY InitInv
<1>3. Inv /\ Apart' /\ [Next]_vars => Inv'
  BY Step
<1> QED
  BY <1>1, <1>2, <1>3, PTL DEF Spec

\* Clients are never shown a version older than one they have seen, not after a
\* restart either, which takes what was loaded last for the latest
\* (load_catalogues' ORDER BY, __on_catalogue_update).
THEOREM NeverOlder == Spec /\ []Apart => []NeverBack
<1>1. Inv => NeverBack
  <2> SUFFICES ASSUME Inv, Loaded
               PROVE  best <= Latest.version
    <3>1. ASSUME Inv, Loaded
          PROVE  best \in Nat /\ Latest.version \in Nat
      BY <3>1, ListFields, NamesFacts DEF Inv, TypeInv, TypeOK, Loaded, Latest
    <3> QED
      BY <3>1 DEF NeverBack
  <2>1. mem # <<>> /\ Latest.version \in Versions
    BY ListFields DEF Inv, TypeInv, TypeOK, Loaded, Latest, Names
  <2> QED
    BY <2>1 DEF Inv, IInv, LatestSound, Sound
<1>2. Init => Inv
  BY InitInv
<1>3. Inv /\ Apart' /\ [Next]_vars => Inv'
  BY Step
<1> QED
  BY <1>1, <1>2, <1>3, PTL DEF Spec
=============================================================================
