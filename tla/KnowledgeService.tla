-------------------------- MODULE KnowledgeService --------------------------
(***************************************************************************)
(* The knowledge base service: knowledge bases, embedding profiles,        *)
(* sources and the jobs that a worker runs for them (knowledge_bases/).    *)
(*                                                                         *)
(* The chunks of a source are kept as what made their vectors: embedding   *)
(* models, or the service itself, which hashes words into 256 dimensions   *)
(* whenever a provider fails.  A handler's transaction is one step where   *)
(* its decision cannot become false before the commit; a profile is        *)
(* changed in two, a read with its checks and the commit.  The service's   *)
(* one process runs one worker, which may be stopped at any time and       *)
(* started again.                                                          *)
(***************************************************************************)
EXTENDS Naturals, Sequences, FiniteSets

CONSTANTS
  KBs,         \* names of knowledge bases; no name is used twice, here and below
  Profiles,    \* names of embedding profiles
  Models,      \* what a profile may embed with: provider, model and address
  Local,       \* the service's own hash vectors
  Sources,     \* names of sources
  MaxCrashes,  \* stops of the worker in all
  Nil,         \* no row, or no value
  Gone         \* a row that was deleted

VARIABLES
  kb,       \* kb[k]: the row, Nil before its creation, Gone after its deletion
  profile,  \* profile[p]: what it embeds with, Nil or Gone
  source,   \* source[s]: its knowledge base, kind and the makers of its vectors, Nil or Gone
  jobs,     \* jobs in the order of their creation
  worker,   \* the job in work and what was read for it, or Nil
  doubt,    \* history: knowledge bases that were changed on stale grounds
  crashes

ASSUME NamesAssumption == KBs \in SUBSET Nat /\ IsFiniteSet(KBs)

\* Rows of the tables, and what the worker and a request have read of them.
Target == [profile : Profiles \union {Nil}, model : Models]
KbRow == [profile : Profiles \union {Nil}, model : Models, next : {Nil} \union Target,
          regen : {"idle", "pending", "failed"}]
SourceRow == [kb : KBs, kind : {"url", "upload"}, made : SUBSET (Models \union {Local})]
JobRow == [type : {"ingest", "reembed", "refresh"}, kb : KBs, source : Sources \union {Nil},
           status : {"pending", "processing", "completed", "failed"}]
Task == [job : Nat, step : {"claimed", "ingest", "reembed"}, row : {Nil} \union KbRow,
         chunked : SUBSET Sources]
Read == [kb : KbRow, model : Models, chunks : BOOLEAN]

ASSUME LocalAssumption == Local \notin Models

ASSUME NilAssumption ==
  /\ Nil # Gone
  /\ {Nil, Gone} \cap (Profiles \union Models \union Sources) = {}
  /\ Nil \notin Target /\ Nil \notin Task
  /\ Nil \notin KbRow /\ Gone \notin KbRow /\ Nil \notin SourceRow /\ Gone \notin SourceRow

ServiceOK ==
  /\ kb \in [KBs -> {Nil, Gone} \union KbRow]
  /\ profile \in [Profiles -> {Nil, Gone} \union Models]
  /\ source \in [Sources -> {Nil, Gone} \union SourceRow]
  /\ jobs \in Seq(JobRow)
  /\ worker \in {Nil} \union Task
  /\ worker # Nil => worker.job \in DOMAIN jobs /\ jobs[worker.job].status = "processing"

service == <<kb, profile, source, jobs, worker, doubt, crashes>>

Live(k) == kb[k] \notin {Nil, Gone}
Exists(p) == profile[p] \notin {Nil, Gone}
Stored(s) == source[s] \notin {Nil, Gone}
SourcesOf(k) == {s \in Sources : Stored(s) /\ source[s].kb = k}
Chunked(k) == {s \in SourcesOf(k) : source[s].made # {}}
HasChunks(k) == Chunked(k) # {}
Users(p) == {k \in KBs : Live(k) /\ kb[k].profile = p}
Job(type, k, s) == [type |-> type, kb |-> k, source |-> s, status |-> "pending"]
Enqueue(type, k, s) == jobs' = Append(jobs, Job(type, k, s))

-----------------------------------------------------------------------------
(* Knowledge bases. *)

CreateKb(k, p) ==
  /\ kb[k] = Nil /\ Exists(p)
  /\ kb' = [kb EXCEPT ![k] = [profile |-> p, model |-> profile[p], next |-> Nil, regen |-> "idle"]]
  /\ UNCHANGED <<profile, source, jobs, worker, doubt, crashes>>

\* Its sources go with it, its jobs stay.
DeleteKb(k) ==
  /\ Live(k)
  /\ kb' = [kb EXCEPT ![k] = Gone]
  /\ source' = [s \in Sources |-> IF s \in SourcesOf(k) THEN Gone ELSE source[s]]
  /\ UNCHANGED <<profile, jobs, worker, doubt, crashes>>

\* What an update reads before it decides, and how it does.
UpdateRead(k, p) == [kb |-> kb[k], model |-> profile[p], chunks |-> HasChunks(k)]

\* Mutant: a regeneration under way does not stand in the way.
MutantMayUpdate(k, p, confirmed) ==
  /\ Live(k) /\ p # kb[k].profile
  /\ Exists(p)
  /\ HasChunks(k) => confirmed

MayUpdate(k, p, confirmed) ==
  /\ Live(k) /\ p # kb[k].profile
  /\ kb[k].regen # "pending"
  /\ Exists(p)
  /\ HasChunks(k) => confirmed

\* While vectors exist, a new profile waits until they are made again.
Waiting(row, p, m) == [row EXCEPT !.next = [profile |-> p, model |-> m], !.regen = "pending"]
Applied(row, p, m) == [row EXCEPT !.profile = p, !.model = m]

\* The worker embeds for k with what it has read of it.
Ingesting(k) == worker # Nil /\ worker.step = "ingest" /\ jobs[worker.job].kb = k

UpdateKb(k, p, read) ==
  /\ Live(k)
  /\ IF read.chunks
       THEN /\ kb' = [kb EXCEPT ![k] = Waiting(@, p, read.model)]
            /\ Enqueue("reembed", k, Nil)
       ELSE kb' = [kb EXCEPT ![k] = Applied(@, p, read.model)] /\ UNCHANGED jobs
  /\ doubt' = IF read # UpdateRead(k, p) \/ (~read.chunks /\ Ingesting(k))
                THEN doubt \union {k} ELSE doubt
  /\ UNCHANGED <<profile, source, worker, crashes>>

-----------------------------------------------------------------------------
(* Embedding profiles. *)

CreateProfile(p, m) ==
  /\ profile[p] = Nil
  /\ profile' = [profile EXCEPT ![p] = m]
  /\ UNCHANGED <<kb, source, jobs, worker, doubt, crashes>>

ProfileRead(p) == [k \in Users(p) |-> UpdateRead(k, p)]
MayChange(p, confirmed) ==
  /\ Exists(p)
  /\ (\E k \in Users(p) : HasChunks(k)) => confirmed
  /\ \A k \in Users(p) : kb[k].regen # "pending"

\* Knowledge bases one after the other, each once.
Listed(ks) == CHOOSE s \in [1..Cardinality(ks) -> ks] : \A k \in ks : \E i \in DOMAIN s : s[i] = k

\* The knowledge bases that were read as its users follow, each as above; the
\* column that points to the profile keeps its value and is not written.
ChangeProfile(p, m, read) ==
  LET users == {k \in DOMAIN read : Live(k)}
      waiting == {k \in users : read[k].chunks}
      order == Listed(waiting)
  IN
  /\ Exists(p) /\ users = DOMAIN read
  /\ profile' = [profile EXCEPT ![p] = m]
  /\ kb' = [k \in KBs |-> CASE k \in waiting -> Waiting(kb[k], p, m)
                            [] k \in users \ waiting -> Applied(kb[k], kb[k].profile, m)
                            [] OTHER -> kb[k]]
  /\ jobs' = jobs \o [i \in DOMAIN order |-> Job("reembed", order[i], Nil)]
  /\ doubt' = doubt \union {k \in users : \/ read[k] # UpdateRead(k, p)
                                          \/ ~read[k].chunks /\ Ingesting(k)}
  /\ UNCHANGED <<source, worker, crashes>>

\* Refused while a knowledge base uses it or is to use it.
MayDelete(p) ==
  /\ Exists(p)
  /\ \A k \in KBs : Live(k) => kb[k].profile # p /\ (kb[k].next # Nil => kb[k].next.profile # p)

\* Foreign keys that point to it are set to null; the copies stay.
DeleteProfile(p) ==
  LET Detached(row) ==
        LET here == IF row.profile = p THEN [row EXCEPT !.profile = Nil] ELSE row
        IN  IF row.next # Nil /\ row.next.profile = p THEN [here EXCEPT !.next.profile = Nil] ELSE here
  IN
  /\ Exists(p)
  /\ profile' = [profile EXCEPT ![p] = Gone]
  /\ kb' = [k \in KBs |-> IF Live(k) THEN Detached(kb[k]) ELSE kb[k]]
  /\ doubt' = doubt \union {k \in KBs : Live(k) /\ Detached(kb[k]) # kb[k]}
  /\ UNCHANGED <<source, jobs, worker, crashes>>

-----------------------------------------------------------------------------
(* Sources. *)

AddSource(k, s, kind) ==
  /\ Live(k) /\ source[s] = Nil
  /\ source' = [source EXCEPT ![s] = [kb |-> k, kind |-> kind, made |-> {}]]
  /\ Enqueue("ingest", k, s)
  /\ UNCHANGED <<kb, profile, worker, doubt, crashes>>

Recrawl(s) ==
  /\ Stored(s) /\ source[s].kind = "url"
  /\ Enqueue("ingest", source[s].kb, s)
  /\ UNCHANGED <<kb, profile, source, worker, doubt, crashes>>

DeleteSource(s) ==
  /\ Stored(s)
  /\ source' = [source EXCEPT ![s] = Gone]
  /\ Enqueue("refresh", source[s].kb, Nil)
  /\ UNCHANGED <<kb, profile, worker, doubt, crashes>>

\* The only document of a source, and its chunks.
DeleteDocument(s) ==
  /\ Stored(s) /\ source[s].made # {}
  /\ source' = [source EXCEPT ![s].made = {}]
  /\ Enqueue("refresh", source[s].kb, Nil)
  /\ UNCHANGED <<kb, profile, worker, doubt, crashes>>

RefreshIndex(k) ==
  /\ Live(k)
  /\ Enqueue("refresh", k, Nil)
  /\ UNCHANGED <<kb, profile, source, worker, doubt, crashes>>

-----------------------------------------------------------------------------
(* The worker. *)

Claim ==
  \E j \in DOMAIN jobs :
    /\ worker = Nil
    /\ jobs[j].status = "pending" /\ \A i \in 1..(j - 1) : jobs[i].status # "pending"
    /\ jobs' = [jobs EXCEPT ![j].status = "processing"]
    /\ worker' = [job |-> j, step |-> "claimed", row |-> Nil, chunked |-> {}]
    /\ UNCHANGED <<kb, profile, source, doubt, crashes>>

Doing(step, type) == worker # Nil /\ worker.step = step /\ jobs[worker.job].type = type
TheKb == jobs[worker.job].kb
TheSource == jobs[worker.job].source

\* The job ends; what it has written is committed with its status.
Finish(status) ==
  /\ jobs' = [jobs EXCEPT ![worker.job].status = status]
  /\ worker' = Nil
  /\ UNCHANGED <<profile, doubt, crashes>>

\* Mutant: the failure is not written into the knowledge base.
MutantFail ==
  /\ worker # Nil
  /\ Finish("failed")
  /\ UNCHANGED <<kb, source>>

\* Any exception: the work is rolled back, a regeneration is marked failed.
Fail ==
  /\ worker # Nil
  /\ kb' = IF jobs[worker.job].type = "reembed" /\ Live(TheKb)
             THEN [kb EXCEPT ![TheKb].regen = "failed"] ELSE kb
  /\ Finish("failed")
  /\ UNCHANGED source

Start(step, ready, chunked) ==
  IF ready
    THEN /\ worker' = [worker EXCEPT !.step = step, !.row = kb[TheKb], !.chunked = chunked]
         /\ UNCHANGED <<kb, profile, source, jobs, doubt, crashes>>
    ELSE Fail

\* The embedding profile is that of the row that is read first, before the
\* pages are fetched.
StartIngest ==
  /\ Doing("claimed", "ingest")
  /\ Start("ingest", Stored(TheSource) /\ Live(TheKb), {})

\* The chunks of TheSource as its pages were embedded: each request to the
\* provider is answered, or the service makes the vectors itself.  Duplicates are
\* left out, and with them perhaps all.
Embed(model) ==
  \E made \in SUBSET {model, Local} : source' = [source EXCEPT ![TheSource].made = made]

\* Mutant: it embeds with the profile that the knowledge base is to have.
MutantFinishIngest ==
  LET model == IF worker.row.next = Nil THEN worker.row.model ELSE worker.row.next.model IN
  /\ Doing("ingest", "ingest")
  /\ IF ~Stored(TheSource) \/ ~Live(TheKb) THEN Fail
     ELSE Embed(model) /\ Finish("completed") /\ UNCHANGED kb

FinishIngest ==
  /\ Doing("ingest", "ingest")
  /\ IF ~Stored(TheSource) \/ ~Live(TheKb) THEN Fail
     ELSE Embed(worker.row.model) /\ Finish("completed") /\ UNCHANGED kb

StartReembed ==
  /\ Doing("claimed", "reembed")
  /\ Start("reembed", Live(TheKb) /\ kb[TheKb].next # Nil /\ kb[TheKb].next.profile # Nil, Chunked(TheKb))

\* A column that is to point to another profile than it did needs that profile.
Activatable ==
  Live(TheKb) /\ (worker.row.next.profile # worker.row.profile => Exists(worker.row.next.profile))

\* All texts are sent in one request, which is answered or not.
Activate ==
  LET next == worker.row.next
      kept == worker.chunked \cap Chunked(TheKb)
      moves == next.profile # worker.row.profile
  IN
  /\ \E maker \in {next.model, Local} :
       source' = [s \in Sources |-> IF s \in kept THEN [source[s] EXCEPT !.made = {maker}]
                                     ELSE source[s]]
  /\ kb' = [kb EXCEPT ![TheKb] = [profile |-> IF moves THEN next.profile ELSE @.profile,
                                  model |-> next.model, next |-> Nil, regen |-> "idle"]]

\* All vectors or none.  When chunks are gone meanwhile, the statement that
\* updates several of them does not notice; the one for a single chunk does.
FinishReembed ==
  /\ Doing("reembed", "reembed")
  /\ \/ (~Activatable \/ ~(worker.chunked \subseteq Chunked(TheKb))) /\ Fail
     \/ Activatable /\ Activate /\ Finish("completed")

\* The summary and its status are not part of the model.
Refresh ==
  /\ Doing("claimed", "refresh")
  /\ IF Live(TheKb) THEN Finish("completed") /\ UNCHANGED <<kb, source>> ELSE Fail

\* The service stops, and nobody takes the job up again: it stays as one that is
\* being processed.  A worker that is killed leaves no more.  One that is cancelled
\* commits what it has written so far: what it has ingested of a source, and a
\* regeneration if it was at its last query, should the driver let it.
Stop ==
  /\ worker # Nil /\ crashes < MaxCrashes
  /\ worker' = Nil /\ crashes' = crashes + 1
  /\ \/ UNCHANGED <<kb, source>>
     \/ /\ Doing("ingest", "ingest") /\ Stored(TheSource) /\ Live(TheKb)
        /\ Embed(worker.row.model) /\ UNCHANGED kb
     \/ Doing("reembed", "reembed") /\ Activatable /\ Activate
  /\ UNCHANGED <<profile, jobs, doubt>>

Work == Claim \/ StartIngest \/ FinishIngest \/ StartReembed \/ FinishReembed \/ Refresh \/ Fail
=============================================================================
