--------------------------- MODULE PipelineStore ---------------------------
(* The pipelines a router knows (runtime/router.py).                          *)
(*                                                                          *)
(* Named (v1) pipelines live in the memory of one process and in files of   *)
(* the image. Pipelines of version 2 come from three places, later ones     *)
(* winning: the image, the data directory (PIPELINES_DATA_DIR, one volume), *)
(* and the table pipelines_v2, whose rows belong to a tenant or to all.     *)
(* Every replica loads them when it starts and when it is told to, answers  *)
(* from memory, and on a deploy or delete changes the store and its own     *)
(* memory only. A handler has no await after its body is read: one action.  *)
EXTENDS Naturals, Sequences

CONSTANTS
    Replicas,    \* router processes
    Tenants,     \* tenants with API keys
    Names,       \* names of pipelines
    Shipped,     \* names with a file in the image
    MaxVersions, \* bound: definitions deployed or registered
    MaxMishaps   \* bound: connections and outages of the database


VARIABLES
    dbUp,    \* the database accepts connections
    conn,    \* _db_conn of a replica: "none", "open" or "broken"
    rows,    \* pipelines_v2, by owner and name
    data,    \* files of the data directory
    mem,     \* v2_pipelines of a replica
    dbMem,   \* v2_db_pipelines of a replica, by owner and name
    named,   \* named_pipelines of a replica
    author,  \* history: who wrote each definition
    filed,   \* history: definitions that were stored as a file
    off,     \* history: names a replica may answer wrongly, until it loads
    job,     \* the background job that is followed
    mishaps  \* connections and outages so far

stores == <<rows, data>>
memory == <<mem, dbMem>>
history == <<author, filed, off>>
database == <<dbUp, conn, mishaps>>
vars == <<stores, memory, named, history, job, database>>

Global == "global"               \* tenant_id '': legacy rows, seen by all
Owners == Tenants \cup {Global}

PipelineStoreAssumption ==
    /\ Shipped \subseteq Names
    /\ Global \notin Tenants      \* a tenant's id is never the empty string
    /\ MaxVersions \in Nat /\ MaxMishaps \in Nat

\* A definition is a number: none, the shipped one, a row of an older release,
\* or one that was deployed or registered here.
NoDef == 0
Seed == 1
Legacy == 2
Defs == 0..(2 + MaxVersions)
NewDef == 3 + Len(author)
NoJob == [state |-> "none"]
JobType ==
    [state : {"queued", "started", "lost"}, at : Replicas, tenant : Tenants,
     name : Names, batch : BOOLEAN, seen : Defs, handed : Defs, ran : Defs,
     stored : BOOLEAN, moved : BOOLEAN]

TypeOK ==
    /\ dbUp \in BOOLEAN /\ conn \in [Replicas -> {"none", "open", "broken"}]
    /\ rows \in [Owners -> [Names -> Defs]] /\ data \in [Names -> Defs]
    /\ mem \in [Replicas -> [Names -> Defs]]
    /\ dbMem \in [Replicas -> [Owners -> [Names -> Defs]]]
    /\ named \in [Replicas -> [Names -> Defs]]
    /\ author \in Seq(Tenants) /\ filed \subseteq Defs
    /\ off \in [Replicas -> SUBSET Names]
    /\ job \in JobType \cup {NoJob} /\ mishaps \in 0..MaxMishaps

-----------------------------------------------------------------------------
(* Looking a name up.                                                        *)

\* The first of a sequence that is a definition: Python's `a or b or c`.
FirstOf(s) ==
    IF \A i \in DOMAIN s : s[i] = NoDef THEN NoDef
    ELSE s[CHOOSE i \in DOMAIN s :
               s[i] # NoDef /\ \A j \in 1..(i - 1) : s[j] = NoDef]

Image(n) == IF n \in Shipped THEN Seed ELSE NoDef

\* What the files say: the data directory is read after the image.
Files(n) == FirstOf(<<data[n], Image(n)>>)

Resolve(r, t, n) == FirstOf(<<dbMem[r][t][n], dbMem[r][Global][n], mem[r][n]>>)

\* Own rows, rows for all, files: what Resolve would say of the stores.
Stored(t, n) == FirstOf(<<rows[t][n], rows[Global][n], Files(n)>>)

\* Mutant: the list of one tenant shows the rows of all.
ListedOfAll(r, t, n) ==
    LET own == {dbMem[r][o][n] : o \in Owners} \ {NoDef}
    IN  IF own = {} THEN {mem[r][n]} \ {NoDef} ELSE own

\* The list of a tenant walks the rows in no order of owners, the last wins.
Listed(r, t, n) ==
    LET own == {dbMem[r][o][n] : o \in {Global, t}} \ {NoDef}
    IN  IF own = {} THEN {mem[r][n]} \ {NoDef} ELSE own

-----------------------------------------------------------------------------
(* The connection: opened when first needed, kept for ever.                  *)

Usable(r) == conn[r] = "open" \/ (conn[r] = "none" /\ dbUp)
Opens(r) == conn' = [conn EXCEPT ![r] = IF Usable(r) THEN "open" ELSE @]
Breaks(r) == conn' = [conn EXCEPT ![r] = "broken"]

\* A statement that commits and whose answer does not arrive.
AnswerLost(r) ==
    /\ Usable(r) /\ mishaps < MaxMishaps
    /\ mishaps' = mishaps + 1 /\ Breaks(r)

\* Every replica but r may answer n wrongly from now on, and r if it is wrong.
OthersBehind(r, n, wrong) ==
    off' = [x \in Replicas |->
               IF x # r \/ wrong THEN off[x] \cup {n} ELSE off[x]]

\* The job was accepted on r under that name and has not started.
Waits(r, n) == job # NoJob /\ job.at = r /\ job.name = n /\ job.state = "queued"

\* v2_pipelines of r changes: the children of a batch look there.
FilesMove(r, n) ==
    job' = IF Waits(r, n) THEN [job EXCEPT !.moved = @ \/ job.batch] ELSE job

Init ==
    /\ dbUp = TRUE /\ conn = [r \in Replicas |-> "open"] /\ mishaps = 0
    /\ \E legacy \in SUBSET Names :
           rows = [o \in Owners |-> [n \in Names |->
                      IF o = Global /\ n \in legacy THEN Legacy ELSE NoDef]]
    /\ data = [n \in Names |-> NoDef]
    /\ mem = [r \in Replicas |-> [n \in Names |-> Image(n)]]
    /\ dbMem = [r \in Replicas |-> rows]
    /\ named = [r \in Replicas |-> [n \in Names |-> NoDef]]
    /\ author = <<>> /\ filed = {} /\ off = [r \in Replicas |-> {}]
    /\ job = NoJob

-----------------------------------------------------------------------------
(* deploy_v2_pipeline. Definitions that do not validate, unsafe names, and   *)
(* shipped names without `replace` are answered 4xx and change nothing.      *)

\* The row is written and the definition registered under its tenant.
DeployRow(r, t, n) ==
    /\ Len(author) < MaxVersions /\ Usable(r) /\ Opens(r)
    /\ rows' = [rows EXCEPT ![t][n] = NewDef]
    /\ dbMem' = [dbMem EXCEPT ![r][t][n] = NewDef]
    /\ author' = Append(author, t)
    /\ OthersBehind(r, n, FALSE)
    /\ UNCHANGED <<data, mem, named, filed, job, dbUp, mishaps>>

\* The row is not written, or nobody hears that it was: a file for all tenants.
DeployFile(r, t, n) ==
    /\ Len(author) < MaxVersions
    /\ \/ ~Usable(r) /\ UNCHANGED <<rows, conn, mishaps>>
          /\ OthersBehind(r, n, FALSE)
       \/ AnswerLost(r) /\ rows' = [rows EXCEPT ![t][n] = NewDef]
          /\ OthersBehind(r, n, TRUE)
    /\ data' = [data EXCEPT ![n] = NewDef]
    /\ mem' = [mem EXCEPT ![r][n] = NewDef]
    /\ author' = Append(author, t) /\ filed' = filed \cup {NewDef}
    /\ FilesMove(r, n)
    /\ UNCHANGED <<dbMem, named, dbUp>>

(* delete_v2_pipeline: the file, then the caller's row or else the row for   *)
(* all; and memory by whether a row went. 404 when the name does not resolve.*)

\* Mutant: the tenant is left out of the statement.
RowToDeleteOfAnyone(t, n) == {o \in Owners : rows[o][n] # NoDef}

\* The owner whose row a delete of the tenant removes.
RowToDelete(t, n) ==
    IF rows[t][n] # NoDef THEN {t}
    ELSE IF rows[Global][n] # NoDef THEN {Global} ELSE {}

Delete(r, t, n) ==
    LET removedFile == data[n] # NoDef
        gone == IF Usable(r) THEN RowToDelete(t, n) ELSE {}
        left == [o \in Owners |-> IF o \in gone THEN [rows[o] EXCEPT ![n] = NoDef]
                                  ELSE rows[o]]
    IN
    /\ Resolve(r, t, n) # NoDef /\ (removedFile \/ gone # {})
    /\ data' = [data EXCEPT ![n] = NoDef] /\ rows' = left
    /\ \/ /\ gone # {} /\ Opens(r)                            \* a row went
          /\ dbMem' = [dbMem EXCEPT ![r][t][n] = NoDef, ![r][Global][n] = NoDef]
          /\ OthersBehind(r, n, removedFile \/ left[Global][n] # NoDef)
          /\ UNCHANGED <<mem, job, mishaps>>
       \/ /\ \/ gone = {} /\ Opens(r) /\ UNCHANGED mishaps      \* no row, as it seems
                /\ OthersBehind(r, n, n \in Shipped)
             \/ gone # {} /\ AnswerLost(r) /\ OthersBehind(r, n, TRUE)
          /\ IF removedFile
             THEN mem' = [mem EXCEPT ![r][n] = NoDef] /\ FilesMove(r, n)
             ELSE UNCHANGED <<mem, job>>                       \* answered 409
          /\ UNCHANGED dbMem
    /\ UNCHANGED <<named, author, filed, dbUp>>

-----------------------------------------------------------------------------
(* Loading: lifespan and reload_all_pipelines.                               *)

\* Registered named pipelines go: only files are read again, and none is
\* called like one of Names. Without the database its pipelines go as well.
Load(r) ==
    /\ named' = [named EXCEPT ![r] = [n \in Names |-> NoDef]]
    /\ mem' = [mem EXCEPT ![r] = [n \in Names |-> Files(n)]]

LoadRows(r, reachable) ==
    /\ dbMem' = [dbMem EXCEPT ![r] =
           IF reachable THEN rows ELSE [o \in Owners |-> [n \in Names |-> NoDef]]]
    /\ off' = [off EXCEPT ![r] = IF reachable THEN {} ELSE Names]

\* The job's registries are not what they were when it was accepted.
Moves(r) ==
    job' = IF \E n \in Names : Waits(r, n)
           THEN LET changed == \/ named[r][job.name] # NoDef
                               \/ job.batch /\ mem[r][job.name] # Files(job.name)
                IN  [job EXCEPT !.moved = @ \/ changed]
           ELSE job

Reload(r) ==
    /\ Load(r) /\ LoadRows(r, Usable(r)) /\ Opens(r) /\ Moves(r)
    /\ UNCHANGED <<stores, author, filed, dbUp, mishaps>>

\* The process ends with its tasks and its connection, and another one loads.
Restart(r) ==
    /\ Load(r) /\ LoadRows(r, dbUp)
    /\ conn' = [conn EXCEPT ![r] = IF dbUp THEN "open" ELSE "none"]
    /\ job' = IF \E n \in Names : Waits(r, n)
              THEN [job EXCEPT !.state = "lost"] ELSE job
    /\ UNCHANGED <<stores, author, filed, dbUp, mishaps>>

\* register_pipeline, with stages that name registered MCPs and tools.
RegisterNamed(r, t, n) ==
    /\ Len(author) < MaxVersions
    /\ named' = [named EXCEPT ![r][n] = NewDef]
    /\ author' = Append(author, t)
    /\ job' = IF Waits(r, n) THEN [job EXCEPT !.moved = TRUE] ELSE job
    /\ UNCHANGED <<stores, memory, filed, off, database>>

-----------------------------------------------------------------------------
(* Background jobs look their pipeline up twice.                             *)

\* create_job and create_batch_job: the caller may run what the name resolves
\* to now, a named pipeline first. A job takes a v2 definition along; a batch
\* leaves its children to look the name up themselves.
AcceptJob(r, t, n, batch) ==
    LET v1 == named[r][n]
        v2 == Resolve(r, t, n)
    IN
    /\ job = NoJob /\ FirstOf(<<v1, v2>>) # NoDef
    /\ job' = [state |-> "queued", at |-> r, tenant |-> t, name |-> n,
               batch |-> batch, seen |-> FirstOf(<<v1, v2>>),
               handed |-> IF v1 = NoDef /\ ~batch THEN v2 ELSE NoDef, ran |-> NoDef,
               stored |-> v1 = NoDef /\ v2 \in {dbMem[r][o][n] : o \in {t, Global}},
               moved |-> FALSE]
    /\ UNCHANGED <<stores, memory, named, history, database>>

\* Mutant: what came along is not looked at.
LooksUpByNameOnly == FirstOf(<<named[job.at][job.name], mem[job.at][job.name]>>)

\* _execute_job: the named pipeline, what came along, or v2_pipelines.
LooksUp == FirstOf(<<named[job.at][job.name], job.handed, mem[job.at][job.name]>>)

StartJob ==
    /\ job # NoJob /\ job.state = "queued"
    /\ job' = [job EXCEPT !.state = "started", !.ran = LooksUp]
    /\ UNCHANGED <<stores, memory, named, history, database>>

-----------------------------------------------------------------------------
ConnectionLost(r) ==
    /\ conn[r] = "open" /\ mishaps < MaxMishaps
    /\ mishaps' = mishaps + 1 /\ Breaks(r)
    /\ UNCHANGED <<stores, memory, named, history, job, dbUp>>

OutageBegins ==
    /\ dbUp /\ mishaps < MaxMishaps
    /\ mishaps' = mishaps + 1 /\ dbUp' = FALSE
    /\ conn' = [r \in Replicas |-> IF conn[r] = "open" THEN "broken" ELSE conn[r]]
    /\ UNCHANGED <<stores, memory, named, history, job>>

OutageEnds ==
    /\ ~dbUp /\ dbUp' = TRUE
    /\ UNCHANGED <<stores, memory, named, history, job, conn, mishaps>>

Next ==
    \/ \E r \in Replicas, t \in Tenants, n \in Names :
          \/ DeployRow(r, t, n) \/ DeployFile(r, t, n) \/ Delete(r, t, n)
          \/ RegisterNamed(r, t, n)
          \/ \E batch \in BOOLEAN : AcceptJob(r, t, n, batch)
    \/ \E r \in Replicas : Reload(r) \/ Restart(r) \/ ConnectionLost(r)
    \/ StartJob \/ OutageBegins \/ OutageEnds

Spec == Init /\ [][Next]_vars

-----------------------------------------------------------------------------
(* Properties.                                                               *)

\* A replica answers every tenant what the stores say, whatever was deployed,
\* deleted, lost and reloaded, except for names another replica changed since
\* it last loaded, names it deleted while a file, a shipped file or a row for
\* all was left behind, and, when it loaded without the database, all names.
LoadedAgrees ==
    \A r \in Replicas, t \in Tenants : \A n \in Names \ off[r] :
        Resolve(r, t, n) = Stored(t, n)

\* No tenant is served or shown what another one wrote, on any replica and
\* through outages, unless it had to be stored as a file.
OwnOrShared ==
    \A r \in Replicas, t \in Tenants, n \in Names :
        \A d \in Listed(r, t, n) \cup {Resolve(r, t, n)} :
            d > Legacy => author[d - 2] = t \/ d \in filed

\* A job runs what its creator was authorised for when it was accepted, unless
\* the named pipelines (for a batch, the files) of its replica changed before
\* it started, or it is a batch of a pipeline that lives in the database.
JobRunsWhatWasAccepted ==
    job # NoJob /\ job.state = "started" /\ ~job.moved /\ ~(job.batch /\ job.stored)
        => job.ran = job.seen

\* As stated of jobs by the docstring of _resolve_job_pipeline, batches included.
BatchRunsWhatWasAccepted ==
    job # NoJob /\ job.state = "started" /\ ~job.moved => job.ran = job.seen
=============================================================================
