--------------------------- MODULE KnowledgeProofs ---------------------------
(***************************************************************************)
(* Proofs about Knowledge, for any number of knowledge bases, profiles,    *)
(* sources, requests under way and stops of the worker.                    *)
(***************************************************************************)
EXTENDS Knowledge, FiniteSetTheorems, SequenceTheorems, WellFoundedInduction, TLAPS

\* A source is deleted with its knowledge base.
SourcesHaveKbs == \A s \in Sources : Stored(s) => Live(source[s].kb)

\* A job is about a knowledge base that was created, and if it is to ingest, about one of
\* its sources.
OfSource(job, sources) ==
  /\ job.source \in Sources /\ sources[job.source] # Nil
  /\ sources[job.source] # Gone => sources[job.source].kb = job.kb

JobsHaveRows ==
  \A j \in DOMAIN jobs :
    kb[jobs[j].kb] # Nil /\ (jobs[j].type = "ingest" => OfSource(jobs[j], source))

\* What the worker has read is as good as what is stored.
WorkerKnows ==
  worker # Nil =>
    /\ worker.step = "ingest" =>
         /\ worker.row # Nil
         /\ Live(TheKb) /\ TheKb \notin doubt => worker.row.model = kb[TheKb].model
    /\ worker.step = "reembed" =>
         /\ worker.row # Nil /\ worker.row.next # Nil
         /\ Chunked(TheKb) \subseteq worker.chunked

\* One job that works on k, or one that the worker was stopped over.
InWork(k) ==
  IF kb[k].regen = "pending"
    THEN (\E j \in DOMAIN jobs : Working(k) = {j}) \/ (Working(k) = {} /\ Abandoned(k))
    ELSE Working(k) = {}

OneOpen == \A k \in KBs \ doubt : Live(k) => InWork(k)

ServiceInv ==
  ServiceOK /\ SourcesHaveKbs /\ JobsHaveRows /\ WorkerKnows /\ VectorsOfOneModel /\ OneOpen

\* A request that will write on the grounds of a read has found no regeneration under way.
Allowed(q) ==
  q # Nil =>
    /\ q.step = "update" => q.read.kb.regen # "pending"
    /\ q.step = "change" => \A k \in DOMAIN q.read : q.read[k].kb.regen # "pending"

ReadsAllow == \A r \in Requests : Allowed(req[r])

\* Who adds the reference that is missing, and removes the one that is left.
Adding(r, k) == (At(r, "find_ref") \/ At(r, "write_ref")) /\ req[r].todo = {k}
Removing(r, k) == At(r, "delete_ref") /\ req[r].kb = k

RefInv ==
  /\ \A a \in Apps : assigned[a].refs \subseteq ref
  /\ \A k \in KBs \ loose : Live(k) /\ k \notin ref => \E r \in Requests : Adding(r, k)
  /\ \A k \in KBs \ loose : ~Live(k) /\ k \in ref => \E r \in Requests : Removing(r, k)
  /\ \A r \in Requests, k \in KBs : Removing(r, k) => kb[k] = Gone
  /\ \A r \in Requests, k \in KBs :
       At(r, "write_ref") /\ k \in req[r].todo /\ (\A b \in req[r].todo : k <= b) /\ req[r].found =>
         k \in ref \/ kb[k] = Gone

DashboardOK ==
  /\ ref \subseteq KBs
  /\ assigned \in [Apps -> [refs : SUBSET KBs, n : Nat]]
  /\ req \in [Requests -> {Nil} \union Request]

KnowledgeInv == ServiceInv /\ DashboardOK /\ ReadsAllow /\ RefInv

\* A step by which no knowledge base comes or goes.
RowsStay ==
  \A k \in KBs : (kb'[k] = Nil <=> kb[k] = Nil) /\ (kb'[k] = Gone <=> kb[k] = Gone)

-----------------------------------------------------------------------------
(* How the list of jobs changes. *)

\* The jobs are those there were and, from number n on, the new ones.
JobsGrow(n) ==
  /\ jobs' \in Seq(JobRow)
  /\ n \in Nat /\ DOMAIN jobs = 1..n
  /\ DOMAIN jobs \subseteq DOMAIN jobs'
  /\ \A j \in DOMAIN jobs : jobs'[j] = jobs[j]

\* enqueue_job adds one job, after the others.
LEMMA OneJobMore ==
  ASSUME ServiceOK, NEW type \in {"ingest", "reembed", "refresh"}, NEW k \in KBs,
         NEW s \in Sources \union {Nil}, Enqueue(type, k, s)
  PROVE  /\ JobsGrow(Len(jobs))
         /\ DOMAIN jobs' = DOMAIN jobs \union {Len(jobs) + 1} /\ Len(jobs) + 1 \notin DOMAIN jobs
         /\ jobs'[Len(jobs) + 1] = Job(type, k, s)
<1>1. jobs \in Seq(JobRow) /\ Job(type, k, s) \in JobRow
  BY DEF ServiceOK, Job, JobRow
<1>2. PICK n \in Nat : n = Len(jobs) /\ DOMAIN jobs = 1..n
  BY <1>1, LenProperties
<1>3. /\ jobs' \in Seq(JobRow) /\ Len(jobs') = n + 1
      /\ \A j \in 1..n : jobs'[j] = jobs[j]
      /\ jobs'[n + 1] = Job(type, k, s)
  BY <1>1, <1>2, AppendProperties DEF Enqueue
<1>4. DOMAIN jobs' = 1..(n + 1)
  BY <1>3, LenProperties
<1>5. 1..(n + 1) = 1..n \union {n + 1} /\ n + 1 \notin 1..n
  OBVIOUS
<1>6. QED
  BY <1>2, <1>3, <1>4, <1>5 DEF JobsGrow

\* A job goes on to another status.
LEMMA JobMoves ==
  ASSUME ServiceOK, NEW j \in DOMAIN jobs,
         NEW status \in {"pending", "processing", "completed", "failed"},
         jobs' = [jobs EXCEPT ![j].status = status]
  PROVE  /\ jobs' \in Seq(JobRow) /\ DOMAIN jobs' = DOMAIN jobs
         /\ \A i \in DOMAIN jobs : i # j => jobs'[i] = jobs[i]
         /\ jobs'[j] = [jobs[j] EXCEPT !.status = status]
<1>1. jobs \in Seq(JobRow)
  BY DEF ServiceOK
<1>2. DOMAIN jobs = 1..Len(jobs)
  BY <1>1, LenProperties
<1>3. jobs[j] \in JobRow
  BY <1>1, <1>2, ElementOfSeq
<1>4. [jobs[j] EXCEPT !.status = status] \in JobRow
  BY <1>3 DEF JobRow
<1>5. jobs' \in Seq(JobRow) /\ Len(jobs') = Len(jobs)
  BY <1>1, <1>2, <1>4, ExceptSeq
<1>6. DOMAIN jobs' = 1..Len(jobs)
  BY <1>5, LenProperties
<1>7. QED
  BY <1>1, <1>2, <1>5, <1>6

\* Jobs that do not regenerate leave the knowledge bases as busy as they were.
LEMMA OtherJobs ==
  ASSUME ServiceOK, NEW type \in {"ingest", "refresh"}, NEW k \in KBs,
         NEW s \in Sources \union {Nil}, Enqueue(type, k, s), UNCHANGED worker
  PROVE  \A b \in KBs : Working(b)' = Working(b) /\ (Abandoned(b)' <=> Abandoned(b))
<1>1. /\ DOMAIN jobs' = DOMAIN jobs \union {Len(jobs) + 1} /\ jobs'[Len(jobs) + 1].type # "reembed"
      /\ \A j \in DOMAIN jobs : jobs'[j] = jobs[j]
  <2>1. Job(type, k, s).type = type
    BY DEF Job
  <2>2. QED
    BY <2>1, OneJobMore DEF JobsGrow
<1>2. QED
  BY <1>1 DEF OpenReembeds, Working, Abandoned, Orphan

-----------------------------------------------------------------------------
(* The service's steps. *)

\* What a job is.
LEMMA JobFacts ==
  ASSUME ServiceOK, NEW j \in DOMAIN jobs
  PROVE  jobs[j] \in JobRow /\ jobs[j].kb \in KBs
<1>1. jobs \in Seq(JobRow) /\ j \in 1..Len(jobs)
  BY LenProperties DEF ServiceOK
<1>2. jobs[j] \in JobRow
  BY <1>1, ElementOfSeq
<1>3. QED
  BY <1>2 DEF JobRow

\* What a source is.
LEMMA SourceFacts ==
  ASSUME ServiceOK, NEW s \in Sources, Stored(s)
  PROVE  source[s] \in SourceRow /\ source[s].kb \in KBs
BY DEF ServiceOK, SourceRow, Stored

\* A new knowledge base has no source and no job.
LEMMA CreateKbKeeps ==
  ASSUME ServiceInv, NEW k \in KBs, NEW p \in Profiles, CreateKb(k, p)
  PROVE  ServiceInv'
<1> USE NilAssumption DEF ServiceInv
<1>1. PICK row \in KbRow : row.regen = "idle" /\ kb' = [kb EXCEPT ![k] = row]
  <2>1. profile[p] \in Models
    BY DEF CreateKb, Exists, ServiceOK
  <2>2. [profile |-> p, model |-> profile[p], next |-> Nil, regen |-> "idle"] \in KbRow
    BY <2>1 DEF KbRow
  <2>3. QED
    BY <2>2 DEF CreateKb
<1>2. kb[k] = Nil /\ UNCHANGED <<profile, source, jobs, worker, doubt>>
  BY DEF CreateKb
<1>3. /\ kb' \in [KBs -> {Nil, Gone} \union KbRow]
      /\ kb'[k] \notin {Nil, Gone} /\ kb'[k].regen = "idle"
      /\ \A b \in KBs : b # k => kb'[b] = kb[b]
  BY <1>1 DEF ServiceOK
<1>4. ServiceOK'
  BY <1>2, <1>3 DEF ServiceOK
<1>5. ASSUME NEW j \in DOMAIN jobs PROVE jobs[j].kb \in KBs /\ jobs[j].kb # k
  BY <1>2, JobFacts DEF JobsHaveRows
<1>6. ASSUME NEW s \in Sources, Stored(s) PROVE source[s].kb \in KBs /\ source[s].kb # k
  BY <1>2, <1>6, SourceFacts DEF SourcesHaveKbs, Live
<1>7. SourcesHaveKbs'
  BY <1>2, <1>3, <1>6 DEF SourcesHaveKbs, Stored, Live
<1>8. JobsHaveRows'
  BY <1>2, <1>3, <1>5 DEF JobsHaveRows
<1>9. WorkerKnows'
  BY <1>2, <1>3, <1>5 DEF WorkerKnows, TheKb, Live, Chunked, SourcesOf, Stored, ServiceOK
<1>10. VectorsOfOneModel'
  BY <1>2, <1>3, <1>6 DEF VectorsOfOneModel, Chunked, SourcesOf, Stored
<1>11. OneOpen'
  BY <1>2, <1>3, <1>5 DEF OneOpen, InWork, OpenReembeds, Working, Abandoned, Orphan, Live
<1>12. QED
  BY <1>4, <1>7, <1>8, <1>9, <1>10, <1>11

\* A knowledge base goes with its sources; its jobs go by without effect.
LEMMA DeleteKbKeeps ==
  ASSUME ServiceInv, NEW k \in KBs, DeleteKb(k)
  PROVE  ServiceInv'
<1> USE NilAssumption DEF ServiceInv
<1>1. Live(k) /\ UNCHANGED <<profile, jobs, worker, doubt>>
  BY DEF DeleteKb
<1>2. /\ kb' \in [KBs -> {Nil, Gone} \union KbRow]
      /\ kb'[k] = Gone
      /\ \A b \in KBs : b # k => kb'[b] = kb[b]
  BY DEF DeleteKb, ServiceOK
<1>3. source' \in [Sources -> {Nil, Gone} \union SourceRow]
  BY DEF DeleteKb, ServiceOK
<1>4. ASSUME NEW s \in Sources
      PROVE  source'[s] = source[s] \/ (Stored(s) /\ source[s].kb = k /\ source'[s] = Gone)
  BY DEF DeleteKb, SourcesOf
<1>5. ASSUME NEW s \in Sources
      PROVE  ~(Stored(s) /\ source[s].kb = k)'
  <2>1. CASE s \in SourcesOf(k)
    BY <2>1 DEF DeleteKb, Stored
  <2>2. CASE s \notin SourcesOf(k)
    BY <2>2 DEF DeleteKb, Stored, SourcesOf
  <2>3. QED
    BY <2>1, <2>2
<1>6. ServiceOK'
  BY <1>1, <1>2, <1>3 DEF ServiceOK
<1>7. SourcesHaveKbs'
  <2> SUFFICES ASSUME NEW s \in Sources, Stored(s)' PROVE Live(source[s].kb)'
    BY DEF SourcesHaveKbs
  <2>1. source'[s] = source[s] /\ Stored(s) /\ source[s].kb # k
    BY <1>4, <1>5 DEF Stored
  <2>2. QED
    BY <1>2, <2>1, SourceFacts DEF SourcesHaveKbs, Live
<1>8. JobsHaveRows'
  <2> SUFFICES ASSUME NEW j \in DOMAIN jobs
               PROVE  kb'[jobs[j].kb] # Nil /\ (jobs[j].type = "ingest" => OfSource(jobs[j], source'))
    BY <1>1 DEF JobsHaveRows
  <2>1. kb'[jobs[j].kb] # Nil
    BY <1>2, JobFacts DEF JobsHaveRows
  <2>2. jobs[j].type = "ingest" => OfSource(jobs[j], source')
    BY <1>4 DEF JobsHaveRows, OfSource, Stored
  <2>3. QED
    BY <2>1, <2>2
<1>9. WorkerKnows'
  <2>1. ASSUME worker # Nil PROVE TheKb \in KBs /\ TheKb' = TheKb
    BY <1>1, <2>1, JobFacts DEF TheKb, ServiceOK
  <2>2. ASSUME NEW b \in KBs PROVE Chunked(b)' \subseteq Chunked(b)
    BY <1>4 DEF Chunked, SourcesOf, Stored
  <2>3. \A b \in KBs : Live(b)' => Live(b) /\ kb'[b] = kb[b]
    BY <1>2 DEF Live
  <2>4. QED
    BY <1>1, <2>1, <2>2, <2>3 DEF WorkerKnows
<1>10. VectorsOfOneModel'
  <2> SUFFICES ASSUME NEW b \in KBs \ doubt, NEW s \in Chunked(b)'
               PROVE  source'[s].made \subseteq {kb'[b].model, Local}
    BY <1>1 DEF VectorsOfOneModel
  <2>1. s \in Sources /\ Stored(s)' /\ source'[s].kb = b /\ source'[s].made # {}
    BY DEF Chunked, SourcesOf
  <2>2. source'[s] = source[s] /\ b # k /\ Stored(s)
    BY <1>4, <1>5, <2>1 DEF Stored
  <2>3. s \in Chunked(b) /\ kb'[b] = kb[b]
    BY <1>2, <2>1, <2>2 DEF Chunked, SourcesOf
  <2>4. QED
    BY <2>2, <2>3 DEF VectorsOfOneModel
<1>11. OneOpen'
  BY <1>1, <1>2 DEF OneOpen, InWork, OpenReembeds, Working, Abandoned, Orphan, Live
<1>12. QED
  BY <1>6, <1>7, <1>8, <1>9, <1>10, <1>11

\* Steps that change neither the rows nor the worker, and add no regeneration.
LEMMA OneMoreKeeps ==
  ASSUME ServiceInv, UNCHANGED <<kb, profile, worker, doubt>>, ServiceOK',
         NEW type \in {"ingest", "refresh"}, NEW k \in KBs,
         NEW s \in Sources \union {Nil}, Enqueue(type, k, s), kb[k] # Nil,
         \A x \in Sources : source'[x] # Nil \/ source[x] = Nil,
         \A x \in Sources : Stored(x)' =>
           \/ Stored(x) /\ source'[x].kb = source[x].kb /\ source'[x].made \subseteq source[x].made
           \/ source[x] = Nil /\ Live(source'[x].kb) /\ source'[x].made = {},
         type = "ingest" => OfSource(Job(type, k, s), source')
  PROVE  ServiceInv'
<1> USE NilAssumption DEF ServiceInv
<1>1. /\ DOMAIN jobs' = DOMAIN jobs \union {Len(jobs) + 1}
      /\ \A j \in DOMAIN jobs : jobs'[j] = jobs[j]
      /\ jobs'[Len(jobs) + 1] = Job(type, k, s)
  <2>1. type \in {"ingest", "reembed", "refresh"} /\ ServiceOK
    OBVIOUS
  <2>2. /\ JobsGrow(Len(jobs))
        /\ DOMAIN jobs' = DOMAIN jobs \union {Len(jobs) + 1}
        /\ jobs'[Len(jobs) + 1] = Job(type, k, s)
    BY ONLY <2>1, OneJobMore, k \in KBs, s \in Sources \union {Nil}, Enqueue(type, k, s)
  <2>3. QED
    BY <2>2 DEF JobsGrow
<1>2. SourcesHaveKbs'
  BY DEF SourcesHaveKbs, Live
<1>3. ASSUME NEW j \in DOMAIN jobs'
      PROVE  kb[jobs'[j].kb] # Nil /\ (jobs'[j].type = "ingest" => OfSource(jobs'[j], source'))
  <2>1. CASE j \in DOMAIN jobs
    <3>1. jobs'[j] = jobs[j] /\ kb[jobs[j].kb] # Nil
      BY <1>1, <2>1 DEF JobsHaveRows
    <3>2. jobs[j].type = "ingest" => OfSource(jobs[j], source')
      BY <2>1 DEF JobsHaveRows, OfSource, Stored
    <3>3. QED
      BY <3>1, <3>2
  <2>2. CASE j = Len(jobs) + 1
    <3>1. jobs'[j] = Job(type, k, s) /\ jobs'[j].kb = k /\ jobs'[j].type = type
      BY <1>1, <2>2 DEF Job
    <3>2. QED
      BY <3>1
  <2>3. QED
    BY <1>1, <2>1, <2>2
<1>4. JobsHaveRows'
  BY <1>3 DEF JobsHaveRows
<1>5. ASSUME NEW b \in KBs PROVE Chunked(b)' \subseteq Chunked(b)
  BY DEF Chunked, SourcesOf
<1>6. WorkerKnows'
  <2>1. worker # Nil => worker.job \in DOMAIN jobs /\ TheKb \in KBs /\ TheKb' = TheKb
    BY <1>1, JobFacts DEF TheKb, ServiceOK
  <2>2. QED
    BY <1>5, <2>1 DEF WorkerKnows, Live
<1>7. VectorsOfOneModel'
  BY <1>5 DEF VectorsOfOneModel, Chunked, SourcesOf
<1>8. OneOpen'
  <2>1. \A b \in KBs : Working(b)' = Working(b) /\ (Abandoned(b)' <=> Abandoned(b))
    BY OtherJobs
  <2>2. QED
    BY <1>1, <2>1 DEF OneOpen, InWork, Live
<1>9. QED
  BY <1>2, <1>4, <1>6, <1>7, <1>8

\* Sources come and go; a new one has no chunks and one job.
LEMMA SourceStepsKeep ==
  ASSUME ServiceInv, NEW k \in KBs, NEW s \in Sources,
         \/ AddSource(k, s, "url") \/ AddSource(k, s, "upload")
         \/ Recrawl(s) \/ DeleteSource(s) \/ DeleteDocument(s)
  PROVE  ServiceInv'
<1> USE NilAssumption DEF ServiceInv
<1>1. ASSUME NEW kind \in {"url", "upload"}, AddSource(k, s, kind) PROVE ServiceInv'
  <2>1. [kb |-> k, kind |-> kind, made |-> {}] \in SourceRow
    BY DEF SourceRow
  <2>2. /\ source' \in [Sources -> {Nil, Gone} \union SourceRow]
        /\ \A x \in Sources : x # s => source'[x] = source[x]
        /\ source[s] = Nil /\ Stored(s)' /\ source'[s].kb = k /\ source'[s].made = {} /\ source'[s] # Nil
    BY <1>1, <2>1 DEF AddSource, ServiceOK, Stored
  <2>3. Live(k) /\ UNCHANGED <<kb, profile, worker, doubt>> /\ Enqueue("ingest", k, s)
    BY <1>1 DEF AddSource
  <2>4. ServiceOK'
    BY <2>2, <2>3, OneJobMore DEF ServiceOK, JobsGrow
  <2>5. QED
    BY <2>2, <2>3, <2>4, OneMoreKeeps DEF Live, Stored, OfSource, Job
<1>2. CASE Recrawl(s)
  <2>1. source[s].kb \in KBs /\ Live(source[s].kb) /\ Stored(s)
    BY <1>2, SourceFacts DEF Recrawl, SourcesHaveKbs
  <2>2. UNCHANGED <<kb, profile, source, worker, doubt>> /\ Enqueue("ingest", source[s].kb, s)
    BY <1>2 DEF Recrawl
  <2>3. ServiceOK'
    BY <2>1, <2>2, OneJobMore DEF ServiceOK, JobsGrow
  <2>4. QED
    BY <2>1, <2>2, <2>3, OneMoreKeeps DEF Live, Stored, OfSource, Job
<1>3. CASE DeleteSource(s) \/ DeleteDocument(s)
  <2>1. source[s] \in SourceRow /\ source[s].kb \in KBs /\ Live(source[s].kb) /\ Stored(s)
    BY <1>3, SourceFacts DEF DeleteSource, DeleteDocument, SourcesHaveKbs
  <2>2. UNCHANGED <<kb, profile, worker, doubt>> /\ Enqueue("refresh", source[s].kb, Nil)
    BY <1>3 DEF DeleteSource, DeleteDocument
  <2>3. [source[s] EXCEPT !.made = {}] \in SourceRow
    BY <2>1 DEF SourceRow
  <2>4. /\ source' \in [Sources -> {Nil, Gone} \union SourceRow]
        /\ \A x \in Sources : x # s => source'[x] = source[x]
        /\ \/ source'[s] = Gone
           \/ source'[s] \in SourceRow /\ source'[s].kb = source[s].kb /\ source'[s].made = {}
    BY <1>3, <2>1, <2>3 DEF DeleteSource, DeleteDocument, ServiceOK, SourceRow
  <2>5. ServiceOK'
    BY <2>1, <2>2, <2>4, OneJobMore DEF ServiceOK, JobsGrow
  <2>6. \A x \in Sources : source'[x] # Nil \/ source[x] = Nil
    BY <2>4
  <2>7. \A x \in Sources : Stored(x)' =>
          Stored(x) /\ source'[x].kb = source[x].kb /\ source'[x].made \subseteq source[x].made
    BY <2>1, <2>4 DEF Stored
  <2>8. QED
    BY <2>1, <2>2, <2>5, <2>6, <2>7, OneMoreKeeps DEF Live
<1>4. QED
  BY <1>1, <1>2, <1>3

\* A refresh touches no vector.
LEMMA RefreshKeepsInv ==
  ASSUME ServiceInv, NEW k \in KBs, RefreshIndex(k)
  PROVE  ServiceInv'
<1>1. UNCHANGED <<kb, profile, source, worker, doubt>> /\ Enqueue("refresh", k, Nil) /\ Live(k) /\ ServiceOK
  BY DEF RefreshIndex, ServiceInv
<1>2. ServiceOK'
  BY <1>1, OneJobMore DEF ServiceOK, JobsGrow
<1>3. QED
  BY <1>1, <1>2, OneMoreKeeps DEF Live, Stored

-----------------------------------------------------------------------------
(* Steps that change rows of knowledge bases for another profile. *)

NewJobs(k) == {j \in DOMAIN jobs' \ DOMAIN jobs : jobs'[j].kb = k}

\* What such a step may do to a knowledge base that is not in doubt afterwards.
RowMoves(k) ==
  \/ /\ kb'[k].regen = kb[k].regen /\ NewJobs(k) = {}
     /\ kb'[k].model = kb[k].model \/ (Chunked(k) = {} /\ ~Ingesting(k))
  \/ /\ kb'[k].model = kb[k].model
     /\ kb[k].regen # "pending" /\ kb'[k].regen = "pending"
     /\ \E j \in DOMAIN jobs' : NewJobs(k) = {j}

\* What changes rows for another profile, and queues re-embeddings for those
\* that have chunks, keeps the invariant.
LEMMA RowsChangeKeep ==
  ASSUME ServiceInv, UNCHANGED <<source, worker>>,
         profile' \in [Profiles -> {Nil, Gone} \union Models],
         kb' \in [KBs -> {Nil, Gone} \union KbRow],
         JobsGrow(Len(jobs)),
         \A j \in DOMAIN jobs' \ DOMAIN jobs :
           /\ jobs'[j].type = "reembed" /\ jobs'[j].status = "pending"
           /\ kb[jobs'[j].kb] # Nil /\ jobs'[j].kb \in KBs,
         RowsStay,
         doubt \subseteq doubt',
         \A k \in KBs \ doubt' : Live(k) => RowMoves(k)
  PROVE  ServiceInv' /\ RowsStay
<1> USE NilAssumption DEF ServiceInv
<1>1. /\ jobs' \in Seq(JobRow) /\ DOMAIN jobs \subseteq DOMAIN jobs'
      /\ \A j \in DOMAIN jobs : jobs'[j] = jobs[j]
  BY DEF JobsGrow
<1>2. \A k \in KBs : Live(k)' <=> Live(k)
  BY DEF Live, RowsStay
<1>3. ServiceOK'
  BY <1>1 DEF ServiceOK
<1>4. SourcesHaveKbs'
  BY <1>2, SourceFacts DEF SourcesHaveKbs, Stored
<1>5. ASSUME NEW j \in DOMAIN jobs'
      PROVE  kb'[jobs'[j].kb] # Nil /\ (jobs'[j].type = "ingest" => OfSource(jobs'[j], source))
  <2>1. CASE j \in DOMAIN jobs
    <3>1. jobs'[j] = jobs[j] /\ jobs[j].kb \in KBs /\ kb[jobs[j].kb] # Nil
      BY <1>1, <2>1, JobFacts DEF JobsHaveRows
    <3>2. jobs[j].type = "ingest" => OfSource(jobs[j], source)
      BY <2>1 DEF JobsHaveRows
    <3>3. QED
      BY <3>1, <3>2 DEF RowsStay
  <2>2. CASE j \notin DOMAIN jobs
    BY <2>2 DEF RowsStay
  <2>3. QED
    BY <2>1, <2>2
<1>6. JobsHaveRows'
  BY <1>5 DEF JobsHaveRows
<1>7. worker # Nil => worker.job \in DOMAIN jobs /\ TheKb \in KBs /\ TheKb' = TheKb
  BY <1>1, JobFacts DEF TheKb, ServiceOK
<1>8. \A k \in KBs : Chunked(k)' = Chunked(k)
  BY DEF Chunked, SourcesOf, Stored
<1>9. WorkerKnows'
  <2> SUFFICES ASSUME worker # Nil PROVE WorkerKnows'
    BY DEF WorkerKnows
  <2>1. ASSUME worker.step = "ingest" 
        PROVE  worker.row # Nil /\ (Live(TheKb) /\ TheKb \notin doubt' => worker.row.model = kb'[TheKb].model)
    <3>1. Ingesting(TheKb)
      BY <2>1 DEF Ingesting, TheKb
    <3>2. QED
      BY <1>7, <2>1, <3>1 DEF WorkerKnows, RowMoves
  <2>2. QED
    BY <1>2, <1>7, <1>8, <2>1 DEF WorkerKnows
<1>10. VectorsOfOneModel'
  <2> SUFFICES ASSUME NEW k \in KBs \ doubt', NEW s \in Chunked(k)
               PROVE  source[s].made \subseteq {kb'[k].model, Local}
    BY <1>8 DEF VectorsOfOneModel
  <2>1. Live(k)
    BY DEF Chunked, SourcesOf, SourcesHaveKbs
  <2>2. QED
    BY <2>1 DEF VectorsOfOneModel, RowMoves
<1>11. OneOpen'
  <2> SUFFICES ASSUME NEW k \in KBs \ doubt', Live(k)
               PROVE  InWork(k)'
    BY <1>2 DEF OneOpen
  <2>1. Working(k)' = Working(k) \union NewJobs(k)
    BY <1>1 DEF OpenReembeds, NewJobs, Working, Orphan
  <2>2. Abandoned(k) => Abandoned(k)'
    BY <1>1 DEF OpenReembeds, Abandoned, Orphan
  <2>3. InWork(k)
    BY DEF OneOpen
  <2>4. QED
    BY <1>1, <2>1, <2>2, <2>3 DEF RowMoves, InWork
<1>12. QED
  BY <1>3, <1>4, <1>6, <1>9, <1>10, <1>11

\* What leaves the jobs alone queues none.
LEMMA NoJobMore ==
  ASSUME ServiceOK, UNCHANGED jobs
  PROVE  JobsGrow(Len(jobs)) /\ DOMAIN jobs' \ DOMAIN jobs = {} /\ \A k \in KBs : NewJobs(k) = {}
<1>1. jobs \in Seq(JobRow)
  BY DEF ServiceOK
<1>2. QED
  BY <1>1, LenProperties DEF JobsGrow, NewJobs

\* A new profile is used by nobody.
LEMMA CreateProfileKeeps ==
  ASSUME ServiceInv, NEW p \in Profiles, NEW m \in Models, CreateProfile(p, m)
  PROVE  ServiceInv' /\ RowsStay
<1>1. ServiceOK /\ UNCHANGED <<kb, source, jobs, worker, doubt>>
  BY DEF ServiceInv, CreateProfile
<1>2. profile' \in [Profiles -> {Nil, Gone} \union Models] /\ kb \in [KBs -> {Nil, Gone} \union KbRow]
  BY <1>1 DEF CreateProfile, ServiceOK
<1>3. JobsGrow(Len(jobs)) /\ DOMAIN jobs' \ DOMAIN jobs = {} /\ \A k \in KBs : NewJobs(k) = {}
  BY <1>1, NoJobMore
<1>4. \A k \in KBs : RowMoves(k)
  BY <1>1, <1>3 DEF RowMoves
<1>5. RowsStay
  BY <1>1 DEF RowsStay
<1>6. QED
  BY <1>1, <1>2, <1>3, <1>4, <1>5, RowsChangeKeep

\* A profile goes, the copies that rows hold of it stay.
LEMMA DeleteProfileKeeps ==
  ASSUME ServiceInv, NEW p \in Profiles, DeleteProfile(p)
  PROVE  ServiceInv' /\ RowsStay
<1> USE NilAssumption
<1> DEFINE Detached(row) ==
             LET here == IF row.profile = p THEN [row EXCEPT !.profile = Nil] ELSE row
             IN  IF row.next # Nil /\ row.next.profile = p THEN [here EXCEPT !.next.profile = Nil]
                                                           ELSE here
<1>1. ServiceOK /\ UNCHANGED <<source, jobs, worker>>
  BY DEF ServiceInv, DeleteProfile
<1>2. ASSUME NEW row \in KbRow PROVE Detached(row) \in KbRow
  BY DEF KbRow, Target
<1>3. profile' \in [Profiles -> {Nil, Gone} \union Models]
  BY <1>1 DEF DeleteProfile, ServiceOK
<1>4. /\ kb' = [k \in KBs |-> IF Live(k) THEN Detached(kb[k]) ELSE kb[k]]
      /\ doubt' = doubt \union {k \in KBs : Live(k) /\ Detached(kb[k]) # kb[k]}
  BY DEF DeleteProfile
<1>5. \A k \in KBs : Live(k) => kb[k] \in KbRow
  BY <1>1 DEF ServiceOK, Live
<1> HIDE DEF Detached
<1>6. kb' \in [KBs -> {Nil, Gone} \union KbRow]
  BY <1>1, <1>2, <1>4, <1>5 DEF ServiceOK
<1>7. RowsStay
  BY <1>2, <1>4, <1>5 DEF Live, RowsStay
<1>8. JobsGrow(Len(jobs)) /\ DOMAIN jobs' \ DOMAIN jobs = {} /\ \A k \in KBs : NewJobs(k) = {}
  BY <1>1, NoJobMore
<1>9. \A k \in KBs \ doubt' : Live(k) => RowMoves(k)
  <2> SUFFICES ASSUME NEW k \in KBs \ doubt', Live(k) PROVE RowMoves(k)
    OBVIOUS
  <2>1. kb'[k] = kb[k]
    BY <1>4
  <2>2. QED
    BY <1>8, <2>1 DEF RowMoves
<1>10. doubt \subseteq doubt'
  BY <1>4
<1>11. QED
  BY <1>1, <1>3, <1>6, <1>7, <1>8, <1>9, <1>10, RowsChangeKeep

\* A row that waits for a new model keeps its own; one that takes it over at
\* once keeps its mark.
LEMMA RowFollows ==
  ASSUME NEW row \in KbRow, NEW p \in Profiles \union {Nil}, NEW m \in Models
  PROVE  /\ Waiting(row, p, m) \in KbRow
         /\ Waiting(row, p, m).model = row.model /\ Waiting(row, p, m).regen = "pending"
         /\ Applied(row, p, m) \in KbRow /\ Applied(row, p, m).regen = row.regen
BY DEF Waiting, Applied, KbRow, Target

\* PATCH of a knowledge base with another profile.
LEMMA UpdateKbKeeps ==
  ASSUME ServiceInv, NEW k \in KBs, NEW p \in Profiles, NEW read \in Read,
         read.kb.regen # "pending", UpdateKb(k, p, read)
  PROVE  ServiceInv' /\ RowsStay
<1> USE NilAssumption
<1>1. ServiceOK /\ Live(k) /\ UNCHANGED <<profile, source, worker>>
  BY DEF ServiceInv, UpdateKb
<1>2. kb[k] \in KbRow /\ read.kb \in KbRow /\ read.model \in Models /\ read.chunks \in BOOLEAN
  BY <1>1 DEF ServiceOK, Live, Read
<1>3. profile' \in [Profiles -> {Nil, Gone} \union Models] /\ doubt \subseteq doubt'
  BY <1>1 DEF ServiceOK, UpdateKb
<1>4. ASSUME k \notin doubt'
      PROVE  read = UpdateRead(k, p) /\ (read.chunks \/ ~Ingesting(k))
  BY <1>4 DEF UpdateKb
<1>5. ASSUME k \notin doubt'
      PROVE  kb[k].regen # "pending" /\ (read.chunks \/ (Chunked(k) = {} /\ ~Ingesting(k)))
  <2>1. read = UpdateRead(k, p) /\ (read.chunks \/ ~Ingesting(k))
    BY <1>4, <1>5
  <2>2. read.kb = kb[k] /\ read.chunks = HasChunks(k)
    BY <2>1, Zenon DEF UpdateRead
  <2>3. read.chunks \/ Chunked(k) = {}
    BY <2>2, Zenon DEF HasChunks
  <2>4. QED
    BY <2>1, <2>2, <2>3
<1>6. CASE read.chunks
  <2> DEFINE row == Waiting(kb[k], p, read.model)
  <2>1. /\ row \in KbRow /\ row.model = kb[k].model /\ row.regen = "pending"
    BY <1>2, RowFollows
  <2>2. kb' = [kb EXCEPT ![k] = row] /\ Enqueue("reembed", k, Nil)
    BY <1>6 DEF UpdateKb
  <2> HIDE DEF row
  <2>3. /\ kb' \in [KBs -> {Nil, Gone} \union KbRow] /\ kb'[k] = row
        /\ \A b \in KBs : b # k => kb'[b] = kb[b]
    BY <1>1, <2>1, <2>2 DEF ServiceOK
  <2>4. RowsStay
    BY <1>2, <2>1, <2>3 DEF RowsStay
  <2>5. /\ JobsGrow(Len(jobs))
        /\ DOMAIN jobs' = DOMAIN jobs \union {Len(jobs) + 1} /\ Len(jobs) + 1 \notin DOMAIN jobs
        /\ jobs'[Len(jobs) + 1] = Job("reembed", k, Nil)
    BY <1>1, <2>2, OneJobMore
  <2>6. /\ jobs'[Len(jobs) + 1].type = "reembed" /\ jobs'[Len(jobs) + 1].status = "pending"
        /\ jobs'[Len(jobs) + 1].kb = k
    BY <2>5 DEF Job
  <2>7. NewJobs(k) = {Len(jobs) + 1} /\ \A b \in KBs : b # k => NewJobs(b) = {}
    BY <2>5, <2>6 DEF NewJobs
  <2>8. \A b \in KBs \ doubt' : Live(b) => RowMoves(b)
    BY <1>5, <2>1, <2>3, <2>5, <2>7 DEF RowMoves
  <2>9. \A j \in DOMAIN jobs' \ DOMAIN jobs :
          /\ jobs'[j].type = "reembed" /\ jobs'[j].status = "pending"
          /\ kb[jobs'[j].kb] # Nil /\ jobs'[j].kb \in KBs
    BY <1>1, <2>5, <2>6 DEF Live
  <2>10. QED
    BY <1>1, <1>3, <2>3, <2>4, <2>5, <2>8, <2>9, RowsChangeKeep
<1>7. CASE ~read.chunks
  <2> DEFINE row == Applied(kb[k], p, read.model)
  <2>1. row \in KbRow /\ row.regen = kb[k].regen
    BY <1>2, RowFollows
  <2>2. kb' = [kb EXCEPT ![k] = row] /\ UNCHANGED jobs
    BY <1>7 DEF UpdateKb
  <2> HIDE DEF row
  <2>3. /\ kb' \in [KBs -> {Nil, Gone} \union KbRow] /\ kb'[k] = row
        /\ \A b \in KBs : b # k => kb'[b] = kb[b]
    BY <1>1, <2>1, <2>2 DEF ServiceOK
  <2>4. RowsStay
    BY <1>2, <2>1, <2>3 DEF RowsStay
  <2>5. JobsGrow(Len(jobs)) /\ DOMAIN jobs' \ DOMAIN jobs = {} /\ \A b \in KBs : NewJobs(b) = {}
    BY <1>1, <2>2, NoJobMore
  <2>6. \A b \in KBs \ doubt' : Live(b) => RowMoves(b)
    BY <1>5, <1>7, <2>1, <2>3, <2>5 DEF RowMoves
  <2>7. QED
    BY <1>1, <1>3, <2>3, <2>4, <2>5, <2>6, RowsChangeKeep
<1>8. QED
  BY <1>2, <1>6, <1>7

\* A set of knowledge bases as a sequence names each of them once.
LEMMA ListedOnce ==
  ASSUME NEW ks \in SUBSET KBs
  PROVE  /\ Cardinality(ks) \in Nat
         /\ Listed(ks) \in [1..Cardinality(ks) -> ks]
         /\ \A k \in ks : \E i \in 1..Cardinality(ks) :
              Listed(ks)[i] = k /\ \A j \in 1..Cardinality(ks) : Listed(ks)[j] = k => j = i
<1> DEFINE n == Cardinality(ks)
           Lists(s) == \A k \in ks : \E i \in DOMAIN s : s[i] = k
<1>1. IsFiniteSet(ks) /\ n \in Nat /\ ExistsBijection(1..n, ks)
  BY NamesAssumption, FS_Subset, FS_CardinalityType
<1>2. \E s \in [1..n -> ks] : Lists(s)
  BY <1>1 DEF ExistsBijection, Bijection, Surjection
<1>3. Listed(ks) \in [1..n -> ks] /\ Lists(Listed(ks))
  BY <1>2 DEF Listed
<1>4. Listed(ks) \in Surjection(1..n, ks)
  BY <1>3 DEF Surjection
<1>5. IsFiniteSet(1..n) /\ Cardinality(1..n) = n
  BY <1>1, FS_Interval
<1>6. Listed(ks) \in Injection(1..n, ks)
  BY <1>4, <1>5, FS_SurjSameCardinalityImpliesInj
<1>7. \A i, j \in 1..n : Listed(ks)[i] = Listed(ks)[j] => i = j
  BY <1>3, <1>6 DEF Injection, IsInjective
<1>8. QED
  BY <1>1, <1>3, <1>7

\* Jobs appended at once are numbered after the others.
LEMMA Appended ==
  ASSUME ServiceOK, NEW n \in Nat, NEW more \in [1..n -> JobRow], jobs' = jobs \o more
  PROVE  \E l \in Nat :
           /\ DOMAIN jobs = 1..l /\ DOMAIN jobs' = 1..(l + n) /\ l = Len(jobs)
           /\ jobs' \in Seq(JobRow)
           /\ \A i \in 1..l : jobs'[i] = jobs[i]
           /\ \A i \in 1..n : jobs'[l + i] = more[i]
<1>1. more \in Seq(JobRow) /\ jobs \in Seq(JobRow)
  BY SeqDef DEF ServiceOK
<1>2. PICK l \in Nat : l = Len(jobs) /\ DOMAIN jobs = 1..l
  BY <1>1, LenProperties
<1>3. Len(more) = n
  <2>1. DOMAIN more = 1..n /\ DOMAIN more = 1..Len(more) /\ Len(more) \in Nat
    BY <1>1, LenProperties
  <2>2. QED
    BY <2>1
<1>4. /\ jobs' \in Seq(JobRow) /\ Len(jobs') = Len(jobs) + Len(more)
      /\ \A i \in 1 .. Len(jobs) + Len(more) :
           jobs'[i] = IF i <= Len(jobs) THEN jobs[i] ELSE more[i - Len(jobs)]
  BY ONLY <1>1, jobs' = jobs \o more, ConcatProperties
<1>5. DOMAIN jobs' = 1..(l + n)
  BY <1>2, <1>3, <1>4, LenProperties
<1>6. \A i \in 1..l : jobs'[i] = jobs[i]
  BY <1>2, <1>3, <1>4
<1>7. ASSUME NEW i \in 1..n PROVE jobs'[l + i] = more[i]
  <2>1. l + i \in 1 .. l + n /\ ~(l + i <= l) /\ (l + i) - l = i
    OBVIOUS
  <2>2. QED
    BY <1>2, <1>3, <1>4, <2>1
<1>8. QED
  BY <1>2, <1>4, <1>5, <1>6, <1>7

\* Every knowledge base of the set gets one job to re-embed.
LEMMA JobsAppended ==
  ASSUME ServiceOK, NEW ks \in SUBSET KBs,
         jobs' = jobs \o [i \in DOMAIN Listed(ks) |-> Job("reembed", Listed(ks)[i], Nil)]
  PROVE  /\ JobsGrow(Len(jobs))
         /\ \A j \in DOMAIN jobs' \ DOMAIN jobs :
              jobs'[j].type = "reembed" /\ jobs'[j].status = "pending" /\ jobs'[j].kb \in ks
         /\ \A k \in ks : \E j \in DOMAIN jobs' : NewJobs(k) = {j}
<1>0. PICK n, list : n = Cardinality(ks) /\ list = Listed(ks)
  OBVIOUS
<1>1. /\ n \in Nat /\ list \in [1..n -> ks]
      /\ \A k \in ks : \E i \in 1..n : list[i] = k /\ \A j \in 1..n : list[j] = k => j = i
  BY <1>0, ListedOnce
<1>2. PICK more : more = [i \in 1..n |-> Job("reembed", list[i], Nil)]
  OBVIOUS
<1>3. \A i \in 1..n : /\ more[i] \in JobRow /\ more[i].type = "reembed"
                      /\ more[i].status = "pending" /\ more[i].kb = list[i]
  <2>1. \A k \in ks : Job("reembed", k, Nil) \in JobRow
    BY DEF Job, JobRow
  <2>2. \A k : Job("reembed", k, Nil).type = "reembed" /\ Job("reembed", k, Nil).status = "pending"
                 /\ Job("reembed", k, Nil).kb = k
    BY DEF Job
  <2>3. \A i \in 1..n : list[i] \in ks /\ more[i] = Job("reembed", list[i], Nil)
    BY <1>1, <1>2
  <2>4. QED
    BY <2>1, <2>2, <2>3
<1>4. more \in [1..n -> JobRow]
  BY <1>2, <1>3
<1>5. jobs' = jobs \o more
  BY <1>0, <1>1, <1>2
<1>6. PICK l \in Nat :
        /\ DOMAIN jobs = 1..l /\ DOMAIN jobs' = 1..(l + n) /\ l = Len(jobs)
        /\ jobs' \in Seq(JobRow)
        /\ \A i \in 1..l : jobs'[i] = jobs[i]
        /\ \A i \in 1..n : jobs'[l + i] = more[i]
  BY <1>1, <1>4, <1>5, Appended
<1>7. JobsGrow(Len(jobs))
  BY <1>6 DEF JobsGrow
<1>8. ASSUME NEW j \in DOMAIN jobs' \ DOMAIN jobs PROVE \E i \in 1..n : j = l + i
  <2>1. j \in 1..(l + n) /\ j \notin 1..l
    BY <1>6
  <2>2. j - l \in 1..n /\ j = l + (j - l)
    BY <1>1, <2>1
  <2>3. QED
    BY <2>2
<1>9. \A i \in 1..n : l + i \in DOMAIN jobs' \ DOMAIN jobs
  <2>1. \A i \in 1..n : l + i \in 1..(l + n) /\ l + i \notin 1..l
    BY <1>1
  <2>2. QED
    BY <1>6, <2>1
<1>10. ASSUME NEW j \in DOMAIN jobs' \ DOMAIN jobs
       PROVE  jobs'[j].type = "reembed" /\ jobs'[j].status = "pending" /\ jobs'[j].kb \in ks
  <2>1. PICK i \in 1..n : j = l + i
    BY <1>8
  <2>2. jobs'[j] = more[i] /\ list[i] \in ks
    BY <1>1, <1>6, <2>1
  <2>3. QED
    BY <1>3, <2>2
<1>11. ASSUME NEW k \in ks PROVE \E j \in DOMAIN jobs' : NewJobs(k) = {j}
  <2>1. PICK i \in 1..n : list[i] = k /\ \A j \in 1..n : list[j] = k => j = i
    BY <1>1
  <2>2. l + i \in DOMAIN jobs' \ DOMAIN jobs /\ jobs'[l + i].kb = k
    BY <1>3, <1>6, <1>9, <2>1
  <2>3. ASSUME NEW j \in DOMAIN jobs' \ DOMAIN jobs, jobs'[j].kb = k PROVE j = l + i
    <3>1. PICK h \in 1..n : j = l + h
      BY <1>8
    <3>2. list[h] = k
      BY <1>3, <1>6, <2>3, <3>1
    <3>3. QED
      BY <2>1, <3>1, <3>2
  <2>4. NewJobs(k) = {l + i}
    BY <2>2, <2>3 DEF NewJobs
  <2>5. QED
    BY <2>2, <2>4
<1>12. QED
  BY <1>7, <1>10, <1>11

\* PATCH of a profile, with all the knowledge bases that use it.
LEMMA ChangeProfileKeeps ==
  ASSUME ServiceInv, NEW p \in Profiles, NEW m \in Models,
         NEW ks \in SUBSET KBs, NEW read \in [ks -> Read],
         \A k \in ks : read[k].kb.regen # "pending", ChangeProfile(p, m, read)
  PROVE  ServiceInv' /\ RowsStay
<1> USE NilAssumption
<1> DEFINE waiting == {k \in ks : read[k].chunks}
<1>1. ServiceOK /\ UNCHANGED <<source, worker>> /\ (\A k \in ks : Live(k)) /\ DOMAIN read = ks
  BY DEF ServiceInv, ChangeProfile
<1>2. profile' \in [Profiles -> {Nil, Gone} \union Models] /\ doubt \subseteq doubt'
  BY <1>1 DEF ServiceOK, ChangeProfile
<1>3. {k \in DOMAIN read : Live(k)} = ks
  BY <1>1
<1>4. /\ kb' = [k \in KBs |-> CASE k \in waiting -> Waiting(kb[k], p, m)
                                [] k \in ks \ waiting -> Applied(kb[k], kb[k].profile, m)
                                [] OTHER -> kb[k]]
      /\ jobs' = jobs \o [i \in DOMAIN Listed(waiting) |-> Job("reembed", Listed(waiting)[i], Nil)]
      /\ doubt' = doubt \union {k \in ks : read[k] # UpdateRead(k, p) \/ (~read[k].chunks /\ Ingesting(k))}
  BY <1>3 DEF ChangeProfile
<1>5. /\ JobsGrow(Len(jobs))
      /\ \A j \in DOMAIN jobs' \ DOMAIN jobs :
           jobs'[j].type = "reembed" /\ jobs'[j].status = "pending" /\ jobs'[j].kb \in waiting
      /\ \A k \in waiting : \E j \in DOMAIN jobs' : NewJobs(k) = {j}
  <2>1. waiting \in SUBSET KBs
    OBVIOUS
  <2> HIDE DEF waiting
  <2>2. jobs' = jobs \o [i \in DOMAIN Listed(waiting) |-> Job("reembed", Listed(waiting)[i], Nil)]
    BY <1>4
  <2>3. QED
    BY ONLY <1>1, <2>1, <2>2, JobsAppended
<1>6. \A k \in KBs \ waiting : NewJobs(k) = {}
  BY <1>5 DEF NewJobs
<1>7. ASSUME NEW k \in ks \ doubt'
      PROVE  kb[k].regen # "pending" /\ (k \in waiting \/ (Chunked(k) = {} /\ ~Ingesting(k)))
  <2>1. PICK row : row = read[k]
    OBVIOUS
  <2>2. row = UpdateRead(k, p) /\ (row.chunks \/ ~Ingesting(k))
    BY <1>4, <2>1
  <2>3. row.kb = kb[k] /\ row.chunks = HasChunks(k)
    BY <2>2, Zenon DEF UpdateRead
  <2>4. row.chunks \/ Chunked(k) = {}
    BY <2>3, Zenon DEF HasChunks
  <2>5. QED
    BY <1>1, <2>1, <2>2, <2>3, <2>4
<1>8. ASSUME NEW k \in KBs
      PROVE  CASE k \in waiting -> /\ kb'[k] \in KbRow /\ kb'[k].model = kb[k].model
                                   /\ kb'[k].regen = "pending"
               [] k \in ks \ waiting -> kb'[k] \in KbRow /\ kb'[k].regen = kb[k].regen
               [] OTHER -> kb'[k] = kb[k]
  <2>1. k \in ks => kb[k] \in KbRow
    BY <1>1 DEF ServiceOK, Live
  <2>2. CASE k \in waiting
    <3>1. kb'[k] = Waiting(kb[k], p, m)
      BY <1>4, <2>2
    <3>2. kb'[k] \in KbRow /\ kb'[k].model = kb[k].model /\ kb'[k].regen = "pending"
      BY <2>1, <2>2, <3>1, RowFollows
    <3>3. QED
      BY <2>2, <3>2
  <2>3. CASE k \in ks \ waiting
    <3>1. kb'[k] = Applied(kb[k], kb[k].profile, m)
      BY <1>4, <2>3
    <3>2. kb'[k] \in KbRow /\ kb'[k].regen = kb[k].regen
      <4>1. kb[k].profile \in Profiles \union {Nil}
        BY <2>1, <2>3 DEF KbRow
      <4>2. kb[k] \in KbRow
        BY <2>1, <2>3
      <4>3. Applied(kb[k], kb[k].profile, m) \in KbRow
              /\ Applied(kb[k], kb[k].profile, m).regen = kb[k].regen
        BY ONLY <4>1, <4>2, m \in Models, RowFollows
      <4>4. QED
        BY <3>1, <4>3
    <3>3. QED
      BY <2>3, <3>2
  <2>4. CASE k \notin ks
    BY <1>4, <2>4
  <2>5. QED
    BY <2>2, <2>3, <2>4
<1> HIDE DEF waiting
<1>9. waiting \subseteq ks
  BY DEF waiting
<1>10. kb' \in [KBs -> {Nil, Gone} \union KbRow]
  <2>1. kb' = [k \in KBs |-> kb'[k]]
    BY <1>4
  <2>2. \A k \in KBs : kb'[k] \in {Nil, Gone} \union KbRow
    BY <1>1, <1>8, <1>9 DEF ServiceOK
  <2>3. QED
    BY <2>1, <2>2
<1>11. RowsStay
  BY <1>1, <1>8, <1>9 DEF Live, RowsStay
<1>12. \A j \in DOMAIN jobs' \ DOMAIN jobs :
          /\ jobs'[j].type = "reembed" /\ jobs'[j].status = "pending"
          /\ kb[jobs'[j].kb] # Nil /\ jobs'[j].kb \in KBs
  BY <1>1, <1>5, <1>9 DEF Live
<1>13. ASSUME NEW k \in KBs \ doubt' PROVE RowMoves(k)
  <2>1. CASE k \in waiting
    BY <1>5, <1>7, <1>8, <1>9, <2>1 DEF RowMoves
  <2>2. CASE k \in ks \ waiting
    BY <1>6, <1>7, <1>8, <2>2 DEF RowMoves
  <2>3. CASE k \notin ks
    BY <1>6, <1>8, <1>9, <2>3 DEF RowMoves
  <2>4. QED
    BY <2>1, <2>2, <2>3
<1>14. QED
  BY <1>1, <1>2, <1>5, <1>10, <1>11, <1>12, <1>13, RowsChangeKeep

-----------------------------------------------------------------------------
(* The worker's steps. *)

\* What the worker is busy with.
LEMMA WorkerFacts ==
  ASSUME ServiceOK, worker # Nil
  PROVE  /\ worker \in Task /\ worker.job \in DOMAIN jobs /\ TheKb \in KBs
         /\ jobs[worker.job] \in JobRow /\ jobs[worker.job].status = "processing"
BY JobFacts DEF ServiceOK, TheKb

\* The worker claims the next job.
LEMMA ClaimKeeps ==
  ASSUME ServiceInv, Claim
  PROVE  ServiceInv' /\ RowsStay
<1> USE NilAssumption
<1>1. PICK j \in DOMAIN jobs :
        /\ worker = Nil /\ jobs[j].status = "pending"
        /\ jobs' = [jobs EXCEPT ![j].status = "processing"]
        /\ worker' = [job |-> j, step |-> "claimed", row |-> Nil, chunked |-> {}]
        /\ UNCHANGED <<kb, profile, source, doubt>>
  BY DEF Claim
<1>2. ServiceOK /\ SourcesHaveKbs /\ JobsHaveRows /\ VectorsOfOneModel /\ OneOpen
  BY DEF ServiceInv
<1>3. /\ jobs' \in Seq(JobRow) /\ DOMAIN jobs' = DOMAIN jobs
      /\ \A i \in DOMAIN jobs : i # j => jobs'[i] = jobs[i]
      /\ jobs'[j] = [jobs[j] EXCEPT !.status = "processing"]
  BY <1>1, <1>2, JobMoves
<1>4. jobs[j] \in JobRow /\ jobs'[j].status = "processing"
  BY <1>2, <1>3, JobFacts DEF JobRow
<1>5. \A i \in DOMAIN jobs : jobs'[i].kb = jobs[i].kb /\ jobs'[i].type = jobs[i].type
                               /\ jobs'[i].source = jobs[i].source
  BY <1>3, <1>4 DEF JobRow
<1>6. j \in Nat
  BY <1>1, <1>2, LenProperties DEF ServiceOK
<1>7. worker' \in Task /\ worker'.job = j /\ worker'.step = "claimed"
  BY <1>1, <1>6 DEF Task
<1>8. ServiceOK'
  BY <1>1, <1>2, <1>3, <1>4, <1>7 DEF ServiceOK
<1>9. SourcesHaveKbs' /\ VectorsOfOneModel'
  BY <1>1, <1>2 DEF SourcesHaveKbs, VectorsOfOneModel, Stored, Live, Chunked, SourcesOf
<1>10. JobsHaveRows'
  BY <1>1, <1>2, <1>3, <1>5 DEF JobsHaveRows, OfSource
<1>11. WorkerKnows'
  BY <1>7 DEF WorkerKnows
<1>12. \A k \in KBs : Working(k)' = Working(k) /\ (Abandoned(k)' <=> Abandoned(k))
  <2>1. \A k \in KBs : OpenReembeds(k)' = OpenReembeds(k)
    BY <1>1, <1>3, <1>4, <1>5 DEF OpenReembeds
  <2>2. \A i \in DOMAIN jobs : Orphan(i)' <=> Orphan(i)
    BY <1>1, <1>3, <1>4, <1>7, NilAssumption DEF Orphan
  <2>3. \A k \in KBs : OpenReembeds(k) \subseteq DOMAIN jobs
    BY DEF OpenReembeds
  <2>4. QED
    BY <2>1, <2>2, <2>3 DEF Working, Abandoned
<1>13. OneOpen'
  BY <1>1, <1>2, <1>3, <1>12 DEF OneOpen, InWork, Live
<1>14. QED
  BY <1>1, <1>8, <1>9, <1>10, <1>11, <1>13 DEF ServiceInv, RowsStay

\* The worker's job ends, and with it the regeneration, if it was one; or the
\* worker is stopped over it.
LEMMA FinishKeeps ==
  ASSUME ServiceInv, worker # Nil, NEW status \in {"processing", "completed", "failed"},
         jobs' = [jobs EXCEPT ![worker.job].status = status], worker' = Nil,
         UNCHANGED <<profile, doubt>>,
         kb' \in [KBs -> {Nil, Gone} \union KbRow],
         source' \in [Sources -> {Nil, Gone} \union SourceRow],
         RowsStay,
         \A s \in Sources : (source'[s] = Nil <=> source[s] = Nil) /\ (source'[s] = Gone <=> source[s] = Gone),
         \A s \in Sources : Stored(s) => source'[s].kb = source[s].kb,
         \A k \in KBs : Live(k) =>
           IF jobs[worker.job].type = "reembed" /\ k = TheKb
             THEN kb'[k].regen = "pending" => status = "processing" /\ kb[k].regen = "pending"
             ELSE kb'[k].regen = kb[k].regen,
         VectorsOfOneModel'
  PROVE  ServiceInv' /\ RowsStay
<1> USE NilAssumption
<1>1. ServiceOK /\ SourcesHaveKbs /\ JobsHaveRows /\ OneOpen
  BY DEF ServiceInv
<1>2. PICK j \in DOMAIN jobs : j = worker.job /\ jobs[j] \in JobRow /\ jobs[j].status = "processing"
  BY <1>1, WorkerFacts
<1>3. jobs' = [jobs EXCEPT ![j].status = status] /\ worker' = Nil /\ UNCHANGED <<profile, doubt>>
  BY <1>2
<1>4. /\ jobs' \in Seq(JobRow) /\ DOMAIN jobs' = DOMAIN jobs
      /\ \A i \in DOMAIN jobs : i # j => jobs'[i] = jobs[i]
      /\ jobs'[j] = [jobs[j] EXCEPT !.status = status]
  BY <1>1, <1>3, JobMoves
<1>5. jobs'[j].status = status
  BY <1>2, <1>4 DEF JobRow
<1>6. \A i \in DOMAIN jobs : jobs'[i].kb = jobs[i].kb /\ jobs'[i].type = jobs[i].type
                               /\ jobs'[i].source = jobs[i].source
  BY <1>2, <1>4 DEF JobRow
<1>7. ServiceOK'
  BY <1>1, <1>3, <1>4 DEF ServiceOK
<1>8. \A k \in KBs : Live(k)' <=> Live(k)
  BY DEF Live, RowsStay
<1>9. SourcesHaveKbs'
  BY <1>1, <1>8, SourceFacts DEF SourcesHaveKbs, Stored
<1>10. JobsHaveRows'
  <2> SUFFICES ASSUME NEW i \in DOMAIN jobs
               PROVE  kb'[jobs'[i].kb] # Nil /\ (jobs'[i].type = "ingest" => OfSource(jobs'[i], source'))
    BY <1>4 DEF JobsHaveRows
  <2>1. jobs[i].kb \in KBs /\ kb'[jobs[i].kb] # Nil
    BY <1>1, JobFacts DEF JobsHaveRows, RowsStay
  <2>2. jobs[i].type = "ingest" => OfSource(jobs[i], source')
    BY <1>1 DEF JobsHaveRows, OfSource, Stored
  <2>3. QED
    BY <1>6, <2>1, <2>2 DEF OfSource
<1>11. WorkerKnows'
  BY <1>3 DEF WorkerKnows
<1>12. \A k \in KBs : Working(k)' = Working(k) \ {j}
  <2>1. jobs'[j].status # "pending"
    BY <1>5
  <2> SUFFICES ASSUME NEW k \in KBs, NEW i \in DOMAIN jobs
               PROVE  i \in Working(k)' <=> i \in Working(k) /\ i # j
    BY <1>4 DEF OpenReembeds, Working
  <2>2. CASE i = j
    BY <1>3, <2>1, <2>2 DEF OpenReembeds, Working, Orphan
  <2>3. CASE i # j
    BY <1>2, <1>3, <1>4, <2>3 DEF OpenReembeds, Working, Orphan
  <2>4. QED
    BY <2>2, <2>3
<1>13. \A k \in KBs : j \in Working(k) <=> jobs[worker.job].type = "reembed" /\ k = TheKb
  BY <1>2 DEF OpenReembeds, Working, Orphan, TheKb
<1>14. ASSUME NEW k \in KBs, Abandoned(k) \/ (status = "processing" /\ j \in Working(k))
       PROVE  Abandoned(k)'
  <2>1. PICK i \in OpenReembeds(k) : Orphan(i) \/ (status = "processing" /\ i = j)
    BY <1>14 DEF Abandoned, Working
  <2>2. i \in DOMAIN jobs
    BY DEF OpenReembeds
  <2>3. i \in OpenReembeds(k)' /\ Orphan(i)'
    <3>1. CASE i = j
      BY <1>2, <1>3, <1>4, <1>5, <1>6, <2>1, <3>1 DEF OpenReembeds, Orphan
    <3>2. CASE i # j
      BY <1>2, <1>3, <1>4, <2>1, <2>2, <3>2 DEF OpenReembeds, Orphan
    <3>3. QED
      BY <3>1, <3>2
  <2>4. QED
    BY <2>3 DEF Abandoned
<1>15. OneOpen'
  <2> SUFFICES ASSUME NEW k \in KBs \ doubt, Live(k) PROVE InWork(k)'
    BY <1>3, <1>8 DEF OneOpen
  <2>1. InWork(k)
    BY <1>1 DEF OneOpen
  <2>2. CASE j \in Working(k)
    BY <1>12, <1>13, <1>14, <2>1, <2>2 DEF InWork
  <2>3. CASE j \notin Working(k)
    BY <1>4, <1>12, <1>13, <1>14, <2>1, <2>3 DEF InWork
  <2>4. QED
    BY <2>2, <2>3
<1>16. QED
  BY <1>7, <1>9, <1>10, <1>11, <1>15 DEF ServiceInv

\* A job fails, and with it a regeneration.
LEMMA FailKeeps ==
  ASSUME ServiceInv, Fail
  PROVE  ServiceInv' /\ RowsStay
<1> USE NilAssumption
<1>1. ServiceOK /\ SourcesHaveKbs /\ VectorsOfOneModel
  BY DEF ServiceInv
<1>2. worker # Nil /\ TheKb \in KBs /\ Finish("failed") /\ UNCHANGED <<source, doubt>>
  BY <1>1, WorkerFacts DEF Fail, Finish
<1>3. ASSUME NEW k \in KBs, Live(k)
      PROVE  /\ kb'[k] \in KbRow /\ kb'[k].model = kb[k].model
             /\ IF jobs[worker.job].type = "reembed" /\ k = TheKb THEN kb'[k].regen = "failed"
                                                                  ELSE kb'[k].regen = kb[k].regen
  <2>1. kb[k] \in KbRow
    BY <1>1, <1>3 DEF ServiceOK, Live
  <2>2. [kb[k] EXCEPT !.regen = "failed"] \in KbRow
    BY <2>1 DEF KbRow
  <2>3. kb'[k] = IF jobs[worker.job].type = "reembed" /\ k = TheKb
                   THEN [kb[k] EXCEPT !.regen = "failed"] ELSE kb[k]
    BY <1>1, <1>2, <1>3 DEF Fail, ServiceOK
  <2>4. QED
    BY <2>1, <2>2, <2>3 DEF KbRow
<1>4. ASSUME NEW k \in KBs, ~Live(k) PROVE kb'[k] = kb[k]
  BY <1>1, <1>2, <1>4 DEF Fail, ServiceOK
<1>5. RowsStay
  BY <1>3, <1>4 DEF Live, RowsStay
<1>6. kb' \in [KBs -> {Nil, Gone} \union KbRow]
  <2>1. kb' = [k \in KBs |-> kb'[k]]
    BY <1>1, <1>2 DEF Fail, ServiceOK
  <2>2. \A k \in KBs : kb'[k] \in {Nil, Gone} \union KbRow
    BY <1>1, <1>3, <1>4 DEF ServiceOK
  <2>3. QED
    BY <2>1, <2>2
<1>7. source' \in [Sources -> {Nil, Gone} \union SourceRow]
  BY <1>1, <1>2 DEF ServiceOK
<1>8. VectorsOfOneModel'
  BY <1>1, <1>2, <1>3 DEF VectorsOfOneModel, Chunked, SourcesOf, SourcesHaveKbs, Stored
<1>9. QED
  BY <1>2, <1>3, <1>5, <1>6, <1>7, <1>8, FinishKeeps DEF Finish

\* The worker reads what it is going to embed.
LEMMA StartKeeps ==
  ASSUME ServiceInv, StartIngest \/ StartReembed, ~Fail
  PROVE  ServiceInv' /\ RowsStay
<1> USE NilAssumption
<1>1. ServiceOK /\ SourcesHaveKbs /\ JobsHaveRows /\ WorkerKnows /\ VectorsOfOneModel /\ OneOpen
  BY DEF ServiceInv
<1>2. worker # Nil
  BY DEF StartIngest, StartReembed, Doing
<1>3. PICK step \in {"ingest", "reembed"}, chunked \in SUBSET Sources :
        /\ worker' = [worker EXCEPT !.step = step, !.row = kb[TheKb], !.chunked = chunked]
        /\ UNCHANGED <<kb, profile, source, jobs, doubt>>
        /\ Live(TheKb)
        /\ step = "reembed" => kb[TheKb].next # Nil /\ chunked = Chunked(TheKb)
  <2>1. CASE StartIngest
    BY <2>1 DEF StartIngest, Start
  <2>2. CASE StartReembed
    BY <2>2 DEF StartReembed, Start, Chunked, SourcesOf
  <2>3. QED
    BY <2>1, <2>2
<1>4. /\ worker \in Task /\ worker.job \in DOMAIN jobs /\ TheKb \in KBs
      /\ jobs[worker.job].status = "processing"
  BY <1>1, <1>2, WorkerFacts
<1>5. kb[TheKb] \in KbRow
  BY <1>1, <1>3, <1>4 DEF ServiceOK, Live
<1>6. /\ worker' \in Task /\ worker'.job = worker.job /\ worker'.step = step
      /\ worker'.row = kb[TheKb] /\ worker'.chunked = chunked
  BY <1>3, <1>4, <1>5 DEF Task
<1>7. ServiceOK'
  BY <1>1, <1>3, <1>4, <1>6 DEF ServiceOK
<1>8. TheKb' = TheKb /\ Live(TheKb)' /\ Chunked(TheKb)' = Chunked(TheKb)
  BY <1>3, <1>6 DEF TheKb, Live, Chunked, SourcesOf, Stored
<1>9. WorkerKnows'
  BY <1>3, <1>5, <1>6, <1>8 DEF WorkerKnows
<1>10. worker' # Nil
  BY <1>6
<1>11. \A k \in KBs : Working(k)' = Working(k) /\ (Abandoned(k)' <=> Abandoned(k))
  <2>1. \A i : Orphan(i)' <=> Orphan(i)
    BY <1>2, <1>3, <1>6, <1>10 DEF Orphan
  <2>2. \A k \in KBs : OpenReembeds(k)' = OpenReembeds(k)
    BY <1>3 DEF OpenReembeds
  <2>3. QED
    BY <2>1, <2>2 DEF Working, Abandoned
<1>12. OneOpen'
  BY <1>1, <1>3, <1>11 DEF OneOpen, InWork, Live
<1>13. QED
  BY <1>1, <1>3, <1>7, <1>9, <1>12
     DEF RowsStay, ServiceInv, SourcesHaveKbs, JobsHaveRows, VectorsOfOneModel,
         Stored, Live, Chunked, SourcesOf, OfSource

\* What is embedded of a source has vectors of the model that was read, or of the
\* service itself.
LEMMA EmbedKeeps ==
  ASSUME ServiceInv, Doing("ingest", "ingest"), Stored(TheSource), Live(TheKb),
         Embed(worker.row.model), UNCHANGED <<kb, doubt>>
  PROVE  /\ source' \in [Sources -> {Nil, Gone} \union SourceRow]
         /\ \A s \in Sources : (source'[s] = Nil <=> source[s] = Nil) /\ (source'[s] = Gone <=> source[s] = Gone)
         /\ \A s \in Sources : Stored(s) => source'[s].kb = source[s].kb
         /\ VectorsOfOneModel'
<1> USE NilAssumption
<1>1. ServiceOK /\ SourcesHaveKbs /\ JobsHaveRows /\ WorkerKnows /\ VectorsOfOneModel
  BY DEF ServiceInv
<1>2. worker # Nil /\ worker.step = "ingest" /\ jobs[worker.job].type = "ingest"
  BY DEF Doing
<1>3. PICK made \in SUBSET {worker.row.model, Local} : source' = [source EXCEPT ![TheSource].made = made]
  BY DEF Embed
<1>4. worker \in Task /\ worker.job \in DOMAIN jobs /\ TheKb \in KBs
  BY <1>1, <1>2, WorkerFacts
<1>5. worker.row \in KbRow /\ worker.row.model \in Models
  BY <1>1, <1>2, <1>4 DEF WorkerKnows, Task, KbRow
<1>6. TheSource \in Sources /\ source[TheSource].kb = TheKb /\ source[TheSource] \in SourceRow
  <2>1. OfSource(jobs[worker.job], source)
    BY <1>1, <1>2, <1>4 DEF JobsHaveRows
  <2>2. TheSource \in Sources /\ source[TheSource].kb = TheKb
    BY <2>1 DEF OfSource, TheSource, TheKb, Stored
  <2>3. QED
    BY <1>1, <2>2, SourceFacts
<1>7. PICK row \in SourceRow : row.made = made /\ row.kb = TheKb /\ source' = [source EXCEPT ![TheSource] = row]
  <2>1. [source[TheSource] EXCEPT !.made = made] \in SourceRow
    BY <1>3, <1>5, <1>6 DEF SourceRow
  <2>2. QED
    BY <1>3, <1>6, <2>1 DEF SourceRow
<1>8. /\ source' \in [Sources -> {Nil, Gone} \union SourceRow] /\ source'[TheSource] = row
      /\ \A s \in Sources : s # TheSource => source'[s] = source[s]
  BY <1>1, <1>6, <1>7 DEF ServiceOK
<1>9. VectorsOfOneModel'
  <2> SUFFICES ASSUME NEW k \in KBs \ doubt, NEW s \in Chunked(k)'
               PROVE  source'[s].made \subseteq {kb[k].model, Local}
    BY DEF VectorsOfOneModel
  <2>1. s \in Sources /\ Stored(s)' /\ source'[s].kb = k /\ source'[s].made # {}
    BY DEF Chunked, SourcesOf
  <2>2. CASE s = TheSource
    BY <1>1, <1>2, <1>3, <1>7, <1>8, <2>1, <2>2 DEF WorkerKnows
  <2>3. CASE s # TheSource
    BY <1>1, <1>8, <2>1, <2>3 DEF VectorsOfOneModel, Chunked, SourcesOf, Stored
  <2>4. QED
    BY <2>2, <2>3
<1>10. \A s \in Sources : (source'[s] = Nil <=> source[s] = Nil) /\ (source'[s] = Gone <=> source[s] = Gone)
  BY <1>6, <1>7, <1>8 DEF Stored
<1>11. \A s \in Sources : Stored(s) => source'[s].kb = source[s].kb
  BY <1>6, <1>7, <1>8
<1>12. QED
  BY <1>8, <1>9, <1>10, <1>11

\* An ingestion ends.
LEMMA FinishIngestKeeps ==
  ASSUME ServiceInv, FinishIngest, ~Fail
  PROVE  ServiceInv' /\ RowsStay
<1>1. /\ worker # Nil /\ Doing("ingest", "ingest") /\ jobs[worker.job].type = "ingest"
      /\ Stored(TheSource) /\ Live(TheKb) /\ Embed(worker.row.model)
      /\ Finish("completed") /\ UNCHANGED kb
  BY DEF FinishIngest, Doing
<1>2. UNCHANGED <<kb, doubt>>
  BY <1>1 DEF Finish
<1>3. /\ source' \in [Sources -> {Nil, Gone} \union SourceRow]
      /\ \A s \in Sources : (source'[s] = Nil <=> source[s] = Nil) /\ (source'[s] = Gone <=> source[s] = Gone)
      /\ \A s \in Sources : Stored(s) => source'[s].kb = source[s].kb
      /\ VectorsOfOneModel'
  BY <1>1, <1>2, EmbedKeeps
<1>4. kb' \in [KBs -> {Nil, Gone} \union KbRow] /\ RowsStay
  BY <1>1 DEF ServiceInv, ServiceOK, RowsStay
<1>5. QED
  BY <1>1, <1>3, <1>4, FinishKeeps DEF Finish

\* All vectors are replaced and the new profile is taken over, in one
\* transaction.
LEMMA ActivateKeeps ==
  ASSUME ServiceInv, Doing("reembed", "reembed"), Activatable, Activate, UNCHANGED doubt
  PROVE  /\ kb' \in [KBs -> {Nil, Gone} \union KbRow]
         /\ source' \in [Sources -> {Nil, Gone} \union SourceRow]
         /\ \A s \in Sources : (source'[s] = Nil <=> source[s] = Nil) /\ (source'[s] = Gone <=> source[s] = Gone)
         /\ \A s \in Sources : Stored(s) => source'[s].kb = source[s].kb
         /\ VectorsOfOneModel'
         /\ RowsStay
         /\ \A k \in KBs : Live(k) => IF k = TheKb THEN kb'[k].regen = "idle" ELSE kb'[k].regen = kb[k].regen
<1> USE NilAssumption
<1>1. ServiceOK /\ SourcesHaveKbs /\ WorkerKnows /\ VectorsOfOneModel
  BY DEF ServiceInv
<1>2. worker # Nil /\ worker.step = "reembed" /\ Live(TheKb)
  BY DEF Doing, Activatable
<1>3. worker \in Task /\ worker.job \in DOMAIN jobs /\ TheKb \in KBs
  BY <1>1, <1>2, WorkerFacts
<1>4. PICK next \in Target : next = worker.row.next
  BY <1>1, <1>2, <1>3 DEF WorkerKnows, Task, KbRow
<1>5. PICK kept \in SUBSET Sources : kept = worker.chunked \cap Chunked(TheKb)
  BY <1>3 DEF Chunked, SourcesOf
<1>6. kept = Chunked(TheKb)
  BY <1>1, <1>2, <1>5 DEF WorkerKnows
<1>7. PICK moves \in BOOLEAN : moves <=> next.profile # worker.row.profile
  OBVIOUS
<1>8. PICK maker \in {next.model, Local} :
        /\ source' = [s \in Sources |-> IF s \in kept THEN [source[s] EXCEPT !.made = {maker}]
                                         ELSE source[s]]
        /\ kb' = [kb EXCEPT ![TheKb] = [profile |-> IF moves THEN next.profile ELSE kb[TheKb].profile,
                                        model |-> next.model, next |-> Nil, regen |-> "idle"]]
  BY <1>4, <1>5, <1>7 DEF Activate
<1>9. PICK row \in KbRow : row.regen = "idle" /\ row.model = next.model /\ kb' = [kb EXCEPT ![TheKb] = row]
  <2>1. kb[TheKb] \in KbRow
    BY <1>1, <1>2, <1>3 DEF ServiceOK, Live
  <2>2. [profile |-> IF moves THEN next.profile ELSE kb[TheKb].profile,
         model |-> next.model, next |-> Nil, regen |-> "idle"] \in KbRow
    BY <2>1 DEF KbRow, Target
  <2>3. QED
    BY <1>8, <2>2
<1>10. /\ kb' \in [KBs -> {Nil, Gone} \union KbRow] /\ kb'[TheKb] = row
       /\ \A k \in KBs : k # TheKb => kb'[k] = kb[k]
  BY <1>1, <1>3, <1>9 DEF ServiceOK
<1>11. ASSUME NEW s \in Sources
       PROVE  IF s \in kept THEN /\ source[s] \in SourceRow /\ source[s].kb = TheKb
                                 /\ source'[s] \in SourceRow /\ source'[s].kb = TheKb
                                 /\ source'[s].made = {maker}
                            ELSE source'[s] = source[s]
  <2>1. CASE s \in kept
    <3>1. source[s] \in SourceRow /\ source[s].kb = TheKb
      BY <1>1, <1>6, <2>1, SourceFacts DEF Chunked, SourcesOf
    <3>2. source'[s] = [source[s] EXCEPT !.made = {maker}] /\ maker \in Models \union {Local}
      BY <1>8, <2>1 DEF Target
    <3>3. QED
      BY <2>1, <3>1, <3>2 DEF SourceRow
  <2>2. CASE s \notin kept
    BY <1>8, <2>2
  <2>3. QED
    BY <2>1, <2>2
<1>12. source' \in [Sources -> {Nil, Gone} \union SourceRow]
  <2>1. source' = [s \in Sources |-> source'[s]]
    BY <1>8
  <2>2. \A s \in Sources : source'[s] \in {Nil, Gone} \union SourceRow
    BY <1>1, <1>11 DEF ServiceOK
  <2>3. QED
    BY <2>1, <2>2
<1>13. VectorsOfOneModel'
  <2> SUFFICES ASSUME NEW k \in KBs \ doubt, NEW s \in Chunked(k)'
               PROVE  source'[s].made \subseteq {kb'[k].model, Local}
    BY DEF VectorsOfOneModel
  <2>1. s \in Sources /\ Stored(s)' /\ source'[s].kb = k /\ source'[s].made # {}
    BY DEF Chunked, SourcesOf
  <2>2. CASE s \in kept
    BY <1>8, <1>9, <1>10, <1>11, <2>1, <2>2
  <2>3. CASE s \notin kept
    <3>1. source'[s] = source[s] /\ s \in Chunked(k)
      BY <1>11, <2>1, <2>3 DEF Chunked, SourcesOf, Stored
    <3>2. k # TheKb
      BY <1>6, <2>3, <3>1
    <3>3. QED
      BY <1>1, <1>10, <3>1, <3>2 DEF VectorsOfOneModel
  <2>4. QED
    BY <2>2, <2>3
<1>14. \A s \in Sources : (source'[s] = Nil <=> source[s] = Nil) /\ (source'[s] = Gone <=> source[s] = Gone)
  BY <1>11
<1>15. \A s \in Sources : Stored(s) => source'[s].kb = source[s].kb
  BY <1>11
<1>16. RowsStay
  BY <1>2, <1>9, <1>10 DEF Live, RowsStay
<1>17. \A k \in KBs : Live(k) => IF k = TheKb THEN kb'[k].regen = "idle" ELSE kb'[k].regen = kb[k].regen
  BY <1>9, <1>10
<1>18. QED
  BY <1>10, <1>12, <1>13, <1>14, <1>15, <1>16, <1>17

\* A regeneration ends.
LEMMA FinishReembedKeeps ==
  ASSUME ServiceInv, FinishReembed, ~Fail
  PROVE  ServiceInv' /\ RowsStay
<1>1. /\ worker # Nil /\ Doing("reembed", "reembed") /\ Activatable /\ Activate /\ Finish("completed")
  BY DEF FinishReembed, Doing
<1>2. UNCHANGED doubt
  BY <1>1 DEF Finish
<1>3. jobs[worker.job].type = "reembed"
  BY <1>1 DEF Doing
<1>4. QED
  BY <1>1, <1>2, <1>3, ActivateKeeps, FinishKeeps DEF Finish

\* The worker ends a refresh.
LEMMA RefreshKeeps ==
  ASSUME ServiceInv, Refresh, ~Fail
  PROVE  ServiceInv' /\ RowsStay
<1>1. ServiceOK /\ VectorsOfOneModel
  BY DEF ServiceInv
<1>2. worker # Nil /\ jobs[worker.job].type = "refresh" /\ Finish("completed") /\ UNCHANGED <<kb, source>>
  BY DEF Refresh, Doing
<1>3. /\ kb' \in [KBs -> {Nil, Gone} \union KbRow]
      /\ source' \in [Sources -> {Nil, Gone} \union SourceRow]
  BY <1>1, <1>2 DEF ServiceOK
<1>4. VectorsOfOneModel'
  BY <1>1, <1>2 DEF Finish, VectorsOfOneModel, Chunked, SourcesOf, Stored
<1>5. RowsStay
  BY <1>2 DEF RowsStay
<1>6. QED
  BY <1>2, <1>3, <1>4, <1>5, FinishKeeps DEF Finish

\* The service stops, with or without a last commit.
LEMMA StopKeeps ==
  ASSUME ServiceInv, Stop
  PROVE  ServiceInv' /\ RowsStay
<1>1. /\ ServiceOK /\ worker # Nil /\ worker' = Nil /\ UNCHANGED <<profile, jobs, doubt>>
  BY DEF Stop, ServiceInv
<1>2. jobs' = [jobs EXCEPT ![worker.job].status = "processing"]
  <2>1. worker.job \in DOMAIN jobs /\ jobs[worker.job] \in JobRow /\ jobs[worker.job].status = "processing"
    BY <1>1, WorkerFacts
  <2>2. [jobs[worker.job] EXCEPT !.status = "processing"] = jobs[worker.job]
    BY <2>1 DEF JobRow
  <2>3. jobs = [i \in DOMAIN jobs |-> jobs[i]]
    <3>1. jobs \in [1..Len(jobs) -> JobRow]
      BY <1>1, LenProperties DEF ServiceOK
    <3>2. QED
      BY <3>1
  <2>4. QED
    BY <1>1, <2>1, <2>2, <2>3
<1>3. CASE UNCHANGED <<kb, source>>
  <2>1. /\ kb' \in [KBs -> {Nil, Gone} \union KbRow]
        /\ source' \in [Sources -> {Nil, Gone} \union SourceRow]
    BY <1>1, <1>3 DEF ServiceOK
  <2>2. VectorsOfOneModel'
    BY <1>1, <1>3 DEF ServiceInv, VectorsOfOneModel, Chunked, SourcesOf, Stored
  <2>3. RowsStay
    BY <1>3 DEF RowsStay
  <2>4. QED
    BY <1>1, <1>2, <1>3, <2>1, <2>2, <2>3, FinishKeeps
<1>4. CASE /\ Doing("ingest", "ingest") /\ Stored(TheSource) /\ Live(TheKb)
           /\ Embed(worker.row.model) /\ UNCHANGED kb
  <2>1. UNCHANGED <<kb, doubt>> /\ jobs[worker.job].type = "ingest"
    BY <1>1, <1>4 DEF Doing
  <2>2. /\ source' \in [Sources -> {Nil, Gone} \union SourceRow]
        /\ \A s \in Sources : (source'[s] = Nil <=> source[s] = Nil) /\ (source'[s] = Gone <=> source[s] = Gone)
        /\ \A s \in Sources : Stored(s) => source'[s].kb = source[s].kb
        /\ VectorsOfOneModel'
    BY <1>4, <2>1, EmbedKeeps
  <2>3. kb' \in [KBs -> {Nil, Gone} \union KbRow] /\ RowsStay
    BY <1>1, <2>1 DEF ServiceOK, RowsStay
  <2>4. QED
    BY <1>1, <1>2, <2>1, <2>2, <2>3, FinishKeeps
<1>5. CASE Doing("reembed", "reembed") /\ Activatable /\ Activate
  <2>1. jobs[worker.job].type = "reembed"
    BY <1>5 DEF Doing
  <2>2. QED
    BY <1>1, <1>2, <1>5, <2>1, ActivateKeeps, FinishKeeps
<1>6. QED
  BY <1>3, <1>4, <1>5 DEF Stop

\* Every step of the worker.
LEMMA WorkKeeps ==
  ASSUME ServiceInv, Work \/ Stop
  PROVE  ServiceInv' /\ RowsStay
<1>1. CASE Fail
  BY <1>1, FailKeeps
<1>2. CASE ~Fail
  BY <1>2, ClaimKeeps, StartKeeps, FinishIngestKeeps, FinishReembedKeeps, RefreshKeeps, StopKeeps
     DEF Work
<1>3. QED
  BY <1>1, <1>2

-----------------------------------------------------------------------------
(* The dashboard's requests. *)

\* A step of the dashboard alone.
LEMMA ServiceStutters ==
  ASSUME ServiceInv, UNCHANGED service
  PROVE  ServiceInv' /\ RowsStay
BY DEF service, RowsStay, ServiceInv, ServiceOK, SourcesHaveKbs, JobsHaveRows, WorkerKnows, VectorsOfOneModel,
       OneOpen, InWork, OpenReembeds, Working, Abandoned, Orphan, Stored, Live, Chunked, SourcesOf,
       OfSource, TheKb

\* A request moves to its next step, the others stay.
LEMMA RequestMoves ==
  ASSUME DashboardOK, ReadsAllow, NEW r \in Requests, NEW q \in {Nil} \union Request, Allowed(q),
         req' = [req EXCEPT ![r] = q]
  PROVE  /\ req' \in [Requests -> {Nil} \union Request] /\ ReadsAllow'
         /\ req'[r] = q /\ \A x \in Requests : x # r => req'[x] = req[x]
<1>1. req' \in [Requests -> {Nil} \union Request]
  BY DEF DashboardOK
<1>2. req'[r] = q /\ \A x \in Requests : x # r => req'[x] = req[x]
  BY DEF DashboardOK
<1>3. ASSUME NEW x \in Requests PROVE Allowed(req'[x])
  BY <1>2 DEF ReadsAllow
<1>4. ReadsAllow'
  BY <1>3 DEF ReadsAllow, Allowed
<1>5. QED
  BY <1>1, <1>2, <1>4

\* Requests as they are between their steps.
LEMMA Shapes ==
  ASSUME NEW q \in Request
  PROVE  /\ q.step \in {"find_ref", "write_ref"} =>
              /\ q.todo \in SUBSET KBs /\ q.found \in BOOLEAN /\ q.then \in {Nil} \union Assignment
              /\ q \in [step : {"find_ref", "write_ref"}, todo : SUBSET KBs, found : BOOLEAN,
                        then : {Nil} \union Assignment]
         /\ q.step = "delete_ref" => q.kb \in KBs
         /\ q.step = "update" => q.kb \in KBs /\ q.profile \in Profiles /\ q.read \in Read
         /\ q.step = "change" => /\ q.profile \in Profiles /\ q.model \in Models
                                 /\ \E ks \in SUBSET KBs : q.read \in [ks -> Read]
         /\ q.step = "remove" => q.profile \in Profiles
         /\ q.step = "assign_find" => q \in Assignment
         /\ q.step \in {"assign_delete", "assign_insert"} =>
              /\ q.app \in Apps /\ q.kbs \in SUBSET KBs /\ q.n \in Nat
              /\ q \in [step : {"assign_delete", "assign_insert"}, app : Apps, kbs : SUBSET KBs, n : Nat]
BY DEF Request, Assignment

\* What is known of a request that is at a step.
LEMMA AtShape ==
  ASSUME DashboardOK, NEW r \in Requests, NEW step, At(r, step)
  PROVE  req[r] \in Request /\ req[r].step = step
BY DEF DashboardOK, At

\* Such a request neither adds nor removes a reference next.
Idle(q) == q = Nil \/ q.step \notin {"find_ref", "write_ref", "delete_ref"}

\* A step by which no knowledge base comes or goes, of a request that neither
\* adds nor removes references.
LEMMA RefsStay ==
  ASSUME RefInv, RowsStay, DashboardOK, NEW r \in Requests, Idle(req[r]),
         NEW q, req' = [req EXCEPT ![r] = q], q = Nil \/ q.step \notin {"write_ref", "delete_ref"},
         UNCHANGED ref, loose \subseteq loose', \A a \in Apps : assigned'[a].refs \subseteq ref
  PROVE  RefInv'
<1>1. req'[r] = q /\ \A x \in Requests : x # r => req'[x] = req[x]
  BY DEF DashboardOK
<1>2. \A k \in KBs : Live(k)' <=> Live(k)
  BY DEF RowsStay, Live
<1>3. \A x \in Requests, k \in KBs : Adding(x, k) => Adding(x, k)'
  BY <1>1 DEF Adding, At, Idle
<1>4. \A x \in Requests, k \in KBs : Removing(x, k)' <=> Removing(x, k)
  BY <1>1 DEF Removing, At, Idle
<1>5. \A x \in Requests : At(x, "write_ref")' => At(x, "write_ref") /\ req'[x] = req[x]
  BY <1>1 DEF At
<1>6. \A k \in KBs \ loose' : Live(k)' /\ k \notin ref' => \E x \in Requests : Adding(x, k)'
  BY <1>2, <1>3 DEF RefInv
<1>7. \A k \in KBs \ loose' : ~Live(k)' /\ k \in ref' => \E x \in Requests : Removing(x, k)'
  BY <1>2, <1>4 DEF RefInv
<1>8. \A x \in Requests, k \in KBs : Removing(x, k)' => kb'[k] = Gone
  BY <1>4 DEF RefInv, RowsStay
<1>9. ASSUME NEW x \in Requests, NEW k \in KBs, At(x, "write_ref")', k \in req'[x].todo,
             \A b \in req'[x].todo : k <= b, req'[x].found
      PROVE  k \in ref' \/ kb'[k] = Gone
  <2>1. At(x, "write_ref") /\ req'[x] = req[x]
    BY <1>5, <1>9
  <2>2. k \in ref \/ kb[k] = Gone
    BY <1>9, <2>1 DEF RefInv
  <2>3. QED
    BY <2>2 DEF RowsStay
<1>10. QED
  BY <1>6, <1>7, <1>8, <1>9 DEF RefInv

\* A step that moves no request and no reference.
LEMMA RefsStutter ==
  ASSUME RefInv, RowsStay, UNCHANGED <<ref, assigned, req, loose>>
  PROVE  RefInv'
BY DEF RefInv, RowsStay, Live, Adding, Removing, At

\* A step of request r that neither adds nor removes a reference.
LEMMA RequestStep ==
  ASSUME KnowledgeInv, ServiceInv', RowsStay, NEW r \in Requests, Idle(req[r]),
         NEW q \in {Nil} \union Request, Allowed(q), q = Nil \/ q.step \notin {"write_ref", "delete_ref"},
         req' = [req EXCEPT ![r] = q], UNCHANGED <<ref, assigned>>, loose \subseteq loose'
  PROVE  KnowledgeInv'
<1>1. DashboardOK /\ ReadsAllow /\ RefInv
  BY DEF KnowledgeInv
<1>2. req' \in [Requests -> {Nil} \union Request] /\ ReadsAllow'
  BY <1>1, RequestMoves
<1>3. RefInv'
  <2>1. \A a \in Apps : assigned'[a].refs \subseteq ref
    BY <1>1 DEF RefInv
  <2>2. QED
    BY <1>1, <2>1, RefsStay
<1>4. QED
  BY <1>1, <1>2, <1>3 DEF KnowledgeInv, DashboardOK

\* The request that adds the references of ks.
LEMMA UpsertShape ==
  ASSUME NEW ks \in SUBSET KBs, NEW then \in {Nil} \union Assignment
  PROVE  /\ Upsert(ks, then) \in Request /\ Upsert(ks, then).step = "find_ref"
         /\ Upsert(ks, then).todo = ks /\ Upsert(ks, then) # Nil
         /\ Allowed(Upsert(ks, then))
         /\ Assignment \subseteq Request /\ Allowed(then) /\ (then = Nil \/ then.step = "assign_find")
<1>1. /\ Upsert(ks, then) \in Request /\ Upsert(ks, then).step = "find_ref"
      /\ Upsert(ks, then).todo = ks
  BY DEF Upsert, Request
<1>2. Assignment \subseteq Request
  BY DEF Request
<1>3. then = Nil \/ then.step = "assign_find"
  BY DEF Assignment
<1>4. QED
  BY <1>1, <1>2, <1>3, RequestAssumption DEF Allowed

\* A request that has not arrived does nothing to references.
LEMMA FreeIdle ==
  ASSUME NEW r \in Requests, Free(r)
  PROVE  Idle(req[r]) /\ req[r] = Nil
BY DEF Free, Idle

\* A request that has not arrived has read nothing.
LEMMA NilAllowed == Allowed(Nil)
BY DEF Allowed

-----------------------------------------------------------------------------
(* Requests that arrive. *)

\* The routes that only pass on to the service, and the worker.
LEMMA RouteStep ==
  ASSUME KnowledgeInv, Route \/ ((Work \/ Stop) /\ UNCHANGED dashboard)
  PROVE  KnowledgeInv'
<1>1. ServiceInv /\ DashboardOK /\ ReadsAllow /\ RefInv
  BY DEF KnowledgeInv
<1>2. UNCHANGED <<ref, assigned, req, loose>>
  BY DEF Route, Relay, RefreshKb, AddUrl, AddUpload, AddUploadFile, RecrawlSource, RemoveSource,
         RemoveDocument, AddProfile, dashboard
<1>3. ServiceInv' /\ RowsStay
  <2>1. ASSUME NEW k \in KBs, NEW s \in Sources,
               \/ AddUrl(k, s) \/ AddUpload(k, s) \/ AddUploadFile(k, s)
               \/ RecrawlSource(s) \/ RemoveSource(s) \/ RemoveDocument(s)
        PROVE  ServiceInv' /\ RowsStay
    <3>1. \/ AddSource(k, s, "url") \/ AddSource(k, s, "upload")
          \/ Recrawl(s) \/ DeleteSource(s) \/ DeleteDocument(s)
      BY <2>1 DEF Relay, AddUrl, AddUpload, AddUploadFile, RecrawlSource, RemoveSource, RemoveDocument
    <3>2. UNCHANGED kb
      BY <3>1 DEF AddSource, Recrawl, DeleteSource, DeleteDocument
    <3>3. QED
      BY <1>1, <3>1, <3>2, SourceStepsKeep DEF RowsStay
  <2>2. ASSUME NEW p \in Profiles, NEW m \in Models, AddProfile(p, m)
        PROVE  ServiceInv' /\ RowsStay
    BY <1>1, <2>2, CreateProfileKeeps DEF AddProfile, Relay
  <2>3. CASE Work \/ Stop
    BY <1>1, <2>3, WorkKeeps
  <2>4. ASSUME NEW k \in KBs, RefreshKb(k)
        PROVE  ServiceInv' /\ RowsStay
    <3>1. RefreshIndex(k) /\ UNCHANGED kb
      BY <2>4 DEF RefreshKb, Relay, RefreshIndex
    <3>2. QED
      BY <1>1, <3>1, RefreshKeepsInv DEF RowsStay
  <2>5. ASSUME NEW s \in Sources, RecrawlSource(s) \/ RemoveSource(s) \/ RemoveDocument(s)
        PROVE  ServiceInv' /\ RowsStay
    <3>1. Stored(s)
      BY <2>5 DEF Relay, RecrawlSource, RemoveSource, RemoveDocument, Recrawl, DeleteSource, DeleteDocument
    <3>2. source[s].kb \in KBs
      BY <1>1, <3>1, SourceFacts DEF ServiceInv
    <3>3. QED
      BY <2>1, <2>5, <3>2
  <2>6. QED
    BY <2>1, <2>2, <2>3, <2>4, <2>5 DEF Route
<1>4. RefInv'
  BY <1>1, <1>2, <1>3, RefsStutter
<1>5. DashboardOK' /\ ReadsAllow'
  BY <1>1, <1>2 DEF DashboardOK, ReadsAllow
<1>6. QED
  BY <1>3, <1>4, <1>5 DEF KnowledgeInv

\* The reply has come, or what it was about is known to be lost.
LEMMA Replied ==
  ASSUME NEW r \in Requests, NEW q, NEW ks, Reply(r, q, ks), q # Nil \/ ks = {}
  PROVE  \E a \in {Nil, q} :
           req' = [req EXCEPT ![r] = a] /\ loose \subseteq loose' /\ (a = Nil => ks \subseteq loose')
<1>1. ASSUME req' = [req EXCEPT ![r] = q], UNCHANGED loose
      PROVE  req' = [req EXCEPT ![r] = q] /\ loose \subseteq loose' /\ (q = Nil => ks \subseteq loose')
  BY <1>1
<1>2. ASSUME req' = [req EXCEPT ![r] = Nil], loose' = loose \union ks
      PROVE  req' = [req EXCEPT ![r] = Nil] /\ loose \subseteq loose' /\ ks \subseteq loose'
  BY <1>2
<1>3. QED
  BY <1>1, <1>2, Zenon DEF Reply

\* A knowledge base is created: its reference is to be added, or the reply is
\* lost.
LEMMA CreateStep ==
  ASSUME KnowledgeInv, NEW r \in Requests, NEW k \in KBs, NEW p \in Profiles, Create(r, k, p)
  PROVE  KnowledgeInv'
<1> USE NilAssumption
<1>1. ServiceInv /\ DashboardOK /\ ReadsAllow /\ RefInv
  BY DEF KnowledgeInv
<1>2. /\ req[r] = Nil /\ CreateKb(k, p) /\ UNCHANGED <<ref, assigned>> /\ kb[k] = Nil
      /\ Reply(r, Upsert({k}, Nil), {k})
  BY DEF Create, Reply, Free, CreateKb
<1>3. ServiceInv'
  BY <1>1, <1>2, CreateKbKeeps
<1>4. {k} \in SUBSET KBs /\ Nil \in {Nil} \union Assignment
  OBVIOUS
<1>5. PICK q \in {Nil, Upsert({k}, Nil)} :
        /\ req' = [req EXCEPT ![r] = q] /\ loose \subseteq loose' /\ (q = Nil => {k} \subseteq loose')
  <2>1. Upsert({k}, Nil) # Nil
    BY <1>4, UpsertShape
  <2>2. QED
    BY <1>2, <2>1, Replied
<1>6. q \in {Nil} \union Request /\ Allowed(q)
        /\ (q # Nil => q.step = "find_ref" /\ q.todo = {k})
  BY <1>4, <1>5, UpsertShape, NilAllowed
<1>7. /\ req' \in [Requests -> {Nil} \union Request] /\ ReadsAllow'
      /\ req'[r] = q /\ \A x \in Requests : x # r => req'[x] = req[x]
  BY <1>1, <1>5, <1>6, RequestMoves
<1>8. DashboardOK'
  BY <1>1, <1>2, <1>7 DEF DashboardOK
<1>9. \A b \in KBs : b # k => kb'[b] = kb[b]
  BY <1>1, <1>2 DEF CreateKb, ServiceInv, ServiceOK
<1>10. RefInv'
  <2>1. ASSUME NEW b \in KBs \ loose', Live(b)', b \notin ref'
        PROVE  \E x \in Requests : Adding(x, b)'
    <3>1. CASE b = k
      BY <1>5, <1>6, <1>7, <2>1, <3>1 DEF Adding, At
    <3>2. CASE b # k
      <4>1. Live(b) /\ b \notin ref /\ b \notin loose
        BY <1>2, <1>5, <1>9, <2>1, <3>2 DEF Live
      <4>2. PICK x \in Requests : Adding(x, b)
        BY <1>1, <4>1 DEF RefInv
      <4>3. x # r /\ req'[x] = req[x]
        BY <1>2, <1>7, <4>2 DEF Adding, At
      <4>4. QED
        BY <4>2, <4>3 DEF Adding, At
    <3>3. QED
      BY <3>1, <3>2
  <2>2. Live(k)'
    <3>1. ServiceOK
      BY <1>1 DEF ServiceInv
    <3>2. [profile |-> p, model |-> profile[p], next |-> Nil, regen |-> "idle"] \in KbRow
      BY <1>2, <3>1 DEF CreateKb, Exists, ServiceOK, KbRow
    <3>3. QED
      BY <1>2, <3>1, <3>2 DEF CreateKb, Live, ServiceOK
  <2>3. ASSUME NEW b \in KBs \ loose', ~Live(b)', b \in ref'
        PROVE  \E x \in Requests : Removing(x, b)'
    <3>1. b # k /\ ~Live(b) /\ b \in ref /\ b \notin loose
      BY <1>2, <1>5, <1>9, <2>2, <2>3 DEF Live
    <3>2. PICK x \in Requests : Removing(x, b)
      BY <1>1, <3>1 DEF RefInv
    <3>3. x # r /\ req'[x] = req[x]
      BY <1>2, <1>7, <3>2 DEF Removing, At
    <3>4. QED
      BY <3>2, <3>3 DEF Removing, At
  <2>4. ASSUME NEW x \in Requests, NEW b \in KBs, Removing(x, b)' PROVE kb'[b] = Gone
    <3>1. x # r /\ Removing(x, b)
      BY <1>6, <1>7, <2>4 DEF Removing, At
    <3>2. kb[b] = Gone
      BY <1>1, <3>1 DEF RefInv
    <3>3. QED
      BY <1>2, <1>9, <3>2
  <2>5. ASSUME NEW x \in Requests, NEW b \in KBs, At(x, "write_ref")', b \in req'[x].todo,
               \A c \in req'[x].todo : b <= c, req'[x].found
        PROVE  b \in ref' \/ kb'[b] = Gone
    <3>1. x # r /\ At(x, "write_ref") /\ req'[x] = req[x]
      BY <1>6, <1>7, <2>5 DEF At
    <3>2. b \in ref \/ kb[b] = Gone
      BY <1>1, <2>5, <3>1 DEF RefInv
    <3>3. QED
      BY <1>2, <1>9, <3>2
  <2>6. \A a \in Apps : assigned'[a].refs \subseteq ref'
    BY <1>1, <1>2 DEF RefInv
  <2>7. QED
    BY <2>1, <2>3, <2>4, <2>5, <2>6 DEF RefInv
<1>11. QED
  BY <1>3, <1>7, <1>8, <1>10 DEF KnowledgeInv

\* A knowledge base is deleted: its reference is to be removed, or the reply
\* is lost.
LEMMA DeleteStep ==
  ASSUME KnowledgeInv, NEW r \in Requests, NEW k \in KBs, Delete(r, k)
  PROVE  KnowledgeInv'
<1> USE NilAssumption
<1>1. ServiceInv /\ DashboardOK /\ ReadsAllow /\ RefInv
  BY DEF KnowledgeInv
<1>2. PICK gone : gone = [step |-> "delete_ref", kb |-> k]
  OBVIOUS
<1>3. gone \in Request /\ gone.step = "delete_ref" /\ gone.kb = k
  BY <1>2 DEF Request
<1>4. gone # Nil /\ Allowed(gone)
  BY <1>3, RequestAssumption DEF Allowed
<1>5. /\ req[r] = Nil /\ DeleteKb(k) /\ UNCHANGED <<ref, assigned>> /\ Live(k)
      /\ Reply(r, gone, {k})
  BY <1>2 DEF Delete, Reply, Free, DeleteKb
<1>6. ServiceInv'
  BY <1>1, <1>5, DeleteKbKeeps
<1>7. PICK q \in {Nil, gone} :
        /\ req' = [req EXCEPT ![r] = q] /\ loose \subseteq loose' /\ (q = Nil => {k} \subseteq loose')
  BY <1>4, <1>5, Replied
<1>8. /\ req' \in [Requests -> {Nil} \union Request] /\ ReadsAllow'
      /\ req'[r] = q /\ \A x \in Requests : x # r => req'[x] = req[x]
  BY <1>1, <1>3, <1>4, <1>7, RequestMoves, NilAllowed
<1>9. DashboardOK'
  BY <1>1, <1>5, <1>8 DEF DashboardOK
<1>10. kb'[k] = Gone /\ \A b \in KBs : b # k => kb'[b] = kb[b]
  BY <1>1, <1>5 DEF DeleteKb, ServiceInv, ServiceOK
<1>11. RefInv'
  <2>1. ASSUME NEW b \in KBs \ loose', Live(b)', b \notin ref'
        PROVE  \E x \in Requests : Adding(x, b)'
    <3>1. b # k /\ Live(b) /\ b \notin ref /\ b \notin loose
      BY <1>5, <1>7, <1>10, <2>1 DEF Live
    <3>2. PICK x \in Requests : Adding(x, b)
      BY <1>1, <3>1 DEF RefInv
    <3>3. x # r /\ req'[x] = req[x]
      BY <1>5, <1>8, <3>2 DEF Adding, At
    <3>4. QED
      BY <3>2, <3>3 DEF Adding, At
  <2>2. ASSUME NEW b \in KBs \ loose', ~Live(b)', b \in ref'
        PROVE  \E x \in Requests : Removing(x, b)'
    <3>1. CASE b = k
      BY <1>3, <1>4, <1>7, <1>8, <2>2, <3>1 DEF Removing, At
    <3>2. CASE b # k
      <4>1. ~Live(b) /\ b \in ref /\ b \notin loose
        BY <1>5, <1>7, <1>10, <2>2, <3>2 DEF Live
      <4>2. PICK x \in Requests : Removing(x, b)
        BY <1>1, <4>1 DEF RefInv
      <4>3. x # r /\ req'[x] = req[x]
        BY <1>5, <1>8, <4>2 DEF Removing, At
      <4>4. QED
        BY <4>2, <4>3 DEF Removing, At
    <3>3. QED
      BY <3>1, <3>2
  <2>3. ASSUME NEW x \in Requests, NEW b \in KBs, Removing(x, b)' PROVE kb'[b] = Gone
    <3>1. CASE x = r
      BY <1>3, <1>7, <1>8, <1>10, <2>3, <3>1 DEF Removing, At
    <3>2. CASE x # r
      BY <1>1, <1>8, <1>10, <2>3, <3>2 DEF RefInv, Removing, At
    <3>3. QED
      BY <3>1, <3>2
  <2>4. ASSUME NEW x \in Requests, NEW b \in KBs, At(x, "write_ref")', b \in req'[x].todo,
               \A c \in req'[x].todo : b <= c, req'[x].found
        PROVE  b \in ref' \/ kb'[b] = Gone
    <3>1. x # r /\ At(x, "write_ref") /\ req'[x] = req[x]
      BY <1>3, <1>7, <1>8, <2>4 DEF At
    <3>2. b \in ref \/ kb[b] = Gone
      BY <1>1, <2>4, <3>1 DEF RefInv
    <3>3. QED
      BY <1>5, <1>10, <3>2
  <2>5. \A a \in Apps : assigned'[a].refs \subseteq ref'
    BY <1>1, <1>5 DEF RefInv
  <2>6. QED
    BY <2>1, <2>2, <2>3, <2>4, <2>5 DEF RefInv
<1>12. QED
  BY <1>6, <1>8, <1>9, <1>11 DEF KnowledgeInv

\* What the service's PATCH reads.
LEMMA ReadFacts ==
  ASSUME ServiceOK, NEW k \in KBs, NEW p \in Profiles, Live(k), Exists(p)
  PROVE  UpdateRead(k, p) \in Read /\ UpdateRead(k, p).kb = kb[k]
<1>1. kb[k] \in KbRow /\ profile[p] \in Models /\ HasChunks(k) \in BOOLEAN
  BY DEF ServiceOK, Live, Exists, HasChunks
<1>2. QED
  BY <1>1 DEF UpdateRead, Read

\* An arrival that does nothing yet but begin.
LEMMA BeginStep ==
  ASSUME KnowledgeInv, NEW r \in Requests, NEW q \in {Nil} \union Request, Begin(r, q),
         Allowed(q), q = Nil \/ q.step \notin {"write_ref", "delete_ref"}
  PROVE  KnowledgeInv'
<1>1. ServiceInv' /\ RowsStay
  BY ServiceStutters DEF Begin, KnowledgeInv
<1>2. Idle(req[r])
  BY FreeIdle DEF Begin
<1>3. req' = [req EXCEPT ![r] = q] /\ UNCHANGED <<ref, assigned, loose>>
  BY DEF Begin
<1>4. QED
  BY <1>1, <1>2, <1>3, RequestStep

\* A request arrives.
LEMMA ArrivalStep ==
  ASSUME KnowledgeInv, NEW r \in Requests, Arrival(r)
  PROVE  KnowledgeInv'
<1> USE NilAssumption
<1>1. ServiceInv /\ ServiceOK
  BY DEF KnowledgeInv, ServiceInv
<1>2. ASSUME NEW k \in KBs, NEW p \in Profiles, Create(r, k, p) PROVE KnowledgeInv'
  BY <1>2, CreateStep
<1>3. ASSUME List(r) PROVE KnowledgeInv'
  <2>1. PICK ks \in SUBSET KBs : Begin(r, OrEnd(Upsert(ks, Nil)))
    BY <1>3 DEF List
  <2>2. Nil \in {Nil} \union Assignment
    OBVIOUS
  <2>3. OrEnd(Upsert(ks, Nil)) \in {Nil, Upsert(ks, Nil)}
    <3>1. Upsert(ks, Nil).then = Nil
      BY DEF Upsert
    <3>2. QED
      BY <3>1 DEF OrEnd
  <2>4. PICK q \in {Nil, Upsert(ks, Nil)} : Begin(r, q)
    BY <2>1, <2>3
  <2>5. q \in {Nil} \union Request /\ Allowed(q) /\ (q = Nil \/ q.step = "find_ref")
    BY <2>2, UpsertShape, NilAllowed
  <2>6. QED
    BY <2>4, <2>5, BeginStep
<1>4. ASSUME NEW k \in KBs, Delete(r, k) PROVE KnowledgeInv'
  BY <1>4, DeleteStep
<1>5. ASSUME NEW k \in KBs, NEW p \in Profiles, NEW confirmed \in BOOLEAN, Update(r, k, p, confirmed)
      PROVE  KnowledgeInv'
  <2>1. Live(k) /\ Exists(p) /\ kb[k].regen # "pending"
    BY <1>5 DEF Update, MayUpdate
  <2>2. PICK read \in Read : read = UpdateRead(k, p) /\ read.kb = kb[k]
    BY <1>1, <2>1, ReadFacts
  <2>3. PICK q : q = [step |-> "update", kb |-> k, profile |-> p, read |-> read]
    OBVIOUS
  <2>4. q \in Request /\ q.step = "update" /\ q.read = read
    BY <2>3 DEF Request
  <2>5. Allowed(q)
    BY <2>1, <2>2, <2>4 DEF Allowed
  <2>6. Begin(r, q)
    BY <1>5, <2>2, <2>3 DEF Update
  <2>7. QED
    BY <2>4, <2>5, <2>6, BeginStep
<1>6. ASSUME NEW p \in Profiles, NEW m \in Models, NEW confirmed \in BOOLEAN, Change(r, p, m, confirmed)
      PROVE  KnowledgeInv'
  <2>1. Exists(p) /\ \A k \in Users(p) : kb[k].regen # "pending"
    BY <1>6 DEF Change, MayChange
  <2>0. PICK ks : ks = Users(p)
    OBVIOUS
  <2>2. ks = Users(p) /\ ks \in SUBSET KBs /\ \A k \in ks : Live(k)
    BY <2>0 DEF Users
  <2>3. PICK read : read = ProfileRead(p)
    OBVIOUS
  <2>4. \A k \in ks : UpdateRead(k, p) \in Read /\ UpdateRead(k, p).kb = kb[k]
    BY <1>1, <2>1, <2>2, ReadFacts
  <2>5. read \in [ks -> Read] /\ \A k \in ks : read[k].kb = kb[k]
    BY <2>2, <2>3, <2>4 DEF ProfileRead
  <2>6. PICK q : q = [step |-> "change", profile |-> p, model |-> m, read |-> read]
    OBVIOUS
  <2>7. q \in Request /\ q.step = "change" /\ q.read = read
    <3>1. read \in UNION {[s -> Read] : s \in SUBSET KBs}
      BY <2>2, <2>5
    <3>2. QED
      BY <2>6, <3>1 DEF Request
  <2>8. Allowed(q)
    BY <2>1, <2>2, <2>5, <2>7 DEF Allowed
  <2>9. Begin(r, q)
    BY <1>6, <2>3, <2>6 DEF Change
  <2>10. QED
    BY <2>7, <2>8, <2>9, BeginStep
<1>7. ASSUME NEW p \in Profiles, Remove(r, p) PROVE KnowledgeInv'
  <2>1. PICK q : q = [step |-> "remove", profile |-> p]
    OBVIOUS
  <2>2. q \in Request /\ q.step = "remove"
    BY <2>1 DEF Request
  <2>3. Begin(r, q)
    BY <1>7, <2>1 DEF Remove
  <2>4. Allowed(q)
    BY <2>2 DEF Allowed
  <2>5. QED
    BY <2>2, <2>3, <2>4, BeginStep
<1>8. ASSUME NEW a \in Apps, NEW ks \in SUBSET KBs, Assign(r, a, ks) PROVE KnowledgeInv'
  <2>1. PICK q : q = [step |-> "assign_find", app |-> a, kbs |-> ks, missing |-> ks]
    OBVIOUS
  <2>2. q \in Request /\ q.step = "assign_find"
    BY <2>1 DEF Request, Assignment
  <2>3. Begin(r, q)
    BY <1>8, <2>1 DEF Assign
  <2>4. Allowed(q)
    BY <2>2 DEF Allowed
  <2>5. QED
    BY <2>2, <2>3, <2>4, BeginStep
<1>9. QED
  BY <1>2, <1>3, <1>4, <1>5, <1>6, <1>7, <1>8 DEF Arrival

-----------------------------------------------------------------------------
(* Requests that go on. *)

\* A request goes on without touching references.
LEMMA GotoStep ==
  ASSUME KnowledgeInv, NEW r \in Requests, NEW q \in {Nil} \union Request, Goto(r, q), Idle(req[r]),
         Allowed(q), q = Nil \/ q.step \notin {"write_ref", "delete_ref"}
  PROVE  KnowledgeInv'
<1>1. ServiceInv' /\ RowsStay
  BY ServiceStutters DEF Goto, KnowledgeInv
<1>2. req' = [req EXCEPT ![r] = q] /\ UNCHANGED <<ref, assigned, loose>>
  BY DEF Goto
<1>3. QED
  BY <1>1, <1>2, RequestStep

\* An early return.
LEMMA RefuseStep ==
  ASSUME KnowledgeInv, NEW r \in Requests, Refuse(r), Idle(req[r])
  PROVE  KnowledgeInv'
BY GotoStep, NilAllowed DEF Refuse

\* The service has acted and no knowledge base came or went by it.
LEMMA CommitStep ==
  ASSUME KnowledgeInv, ServiceInv', RowsStay, NEW r \in Requests, Idle(req[r]),
         NEW q \in {Nil} \union Request, Allowed(q), q = Nil \/ q.step \notin {"write_ref", "delete_ref"},
         Reply(r, q, {})
  PROVE  KnowledgeInv'
<1>1. PICK a \in {Nil, q} : req' = [req EXCEPT ![r] = a] /\ loose \subseteq loose'
  <2>1. q # Nil \/ {} = {}
    OBVIOUS
  <2>2. QED
    BY ONLY <2>1, r \in Requests, Reply(r, q, {}), Replied
<1>2. UNCHANGED <<ref, assigned>>
  BY DEF Reply
<1>3. QED
  BY <1>1, <1>2, RequestStep, NilAllowed

\* The reference of a deleted knowledge base is removed, with its
\* assignments.
LEMMA DeleteRefStep ==
  ASSUME KnowledgeInv, NEW r \in Requests, DeleteRef(r)
  PROVE  KnowledgeInv'
<1>1. ServiceInv /\ DashboardOK /\ ReadsAllow /\ RefInv
  BY DEF KnowledgeInv
<1>2. At(r, "delete_ref") /\ req' = [req EXCEPT ![r] = Nil] /\ UNCHANGED <<service, kb, loose>>
  BY DEF DeleteRef, service
<1>3. PICK k \in KBs : k = req[r].kb
  BY <1>1, <1>2, AtShape, Shapes
<1>4. kb[k] = Gone
  BY <1>1, <1>2, <1>3 DEF RefInv, Removing
<1>5. ref' = ref \ {k} /\ assigned' = [a \in Apps |-> [assigned[a] EXCEPT !.refs = @ \ {k}]]
  BY <1>3 DEF DeleteRef
<1>6. ServiceInv'
  BY <1>1, <1>2, ServiceStutters
<1>7. /\ req' \in [Requests -> {Nil} \union Request] /\ ReadsAllow'
      /\ req'[r] = Nil /\ \A x \in Requests : x # r => req'[x] = req[x]
  BY <1>1, <1>2, RequestMoves, NilAllowed
<1>8. ASSUME NEW a \in Apps
      PROVE  /\ assigned'[a] \in [refs : SUBSET KBs, n : Nat]
             /\ assigned'[a].refs \subseteq ref'
  <2>1. assigned[a] \in [refs : SUBSET KBs, n : Nat] /\ assigned[a].refs \subseteq ref
    BY <1>1 DEF DashboardOK, RefInv
  <2>2. assigned'[a] = [assigned[a] EXCEPT !.refs = @ \ {k}]
    BY <1>5
  <2>3. QED
    BY <1>5, <2>1, <2>2
<1>9. DashboardOK'
  BY <1>1, <1>5, <1>7, <1>8 DEF DashboardOK
<1>10. RefInv'
  <2>1. ASSUME NEW b \in KBs \ loose', Live(b)', b \notin ref'
        PROVE  \E x \in Requests : Adding(x, b)'
    <3>1. Live(b) /\ b \notin ref
      BY <1>2, <1>4, <1>5, <2>1 DEF Live
    <3>2. PICK x \in Requests : Adding(x, b)
      BY <1>1, <1>2, <3>1 DEF RefInv
    <3>3. x # r /\ req'[x] = req[x]
      BY <1>2, <1>7, <3>2 DEF Adding, At
    <3>4. QED
      BY <3>2, <3>3 DEF Adding, At
  <2>2. ASSUME NEW b \in KBs \ loose', ~Live(b)', b \in ref'
        PROVE  \E x \in Requests : Removing(x, b)'
    <3>1. ~Live(b) /\ b \in ref /\ b # k
      BY <1>2, <1>5, <2>2 DEF Live
    <3>2. PICK x \in Requests : Removing(x, b)
      BY <1>1, <1>2, <3>1 DEF RefInv
    <3>3. x # r /\ req'[x] = req[x]
      BY <1>3, <1>7, <3>1, <3>2 DEF Removing
    <3>4. QED
      BY <3>2, <3>3 DEF Removing, At
  <2>3. ASSUME NEW x \in Requests, NEW b \in KBs, Removing(x, b)' PROVE kb'[b] = Gone
    <3>1. Removing(x, b)
      BY <1>7, <2>3 DEF Removing, At
    <3>2. QED
      BY <1>1, <1>2, <3>1 DEF RefInv
  <2>4. ASSUME NEW x \in Requests, NEW b \in KBs, At(x, "write_ref")', b \in req'[x].todo,
               \A c \in req'[x].todo : b <= c, req'[x].found
        PROVE  b \in ref' \/ kb'[b] = Gone
    <3>1. At(x, "write_ref") /\ req'[x] = req[x]
      BY <1>7, <2>4 DEF At
    <3>2. b \in ref \/ kb[b] = Gone
      BY <1>1, <2>4, <3>1 DEF RefInv
    <3>3. QED
      BY <1>2, <1>4, <1>5, <3>2
  <2>5. QED
    BY <1>8, <2>1, <2>2, <2>3, <2>4 DEF RefInv
<1>11. QED
  BY <1>6, <1>7, <1>9, <1>10 DEF KnowledgeInv

\* The request looks for the reference of the next knowledge base.
LEMMA FindRefStep ==
  ASSUME KnowledgeInv, NEW r \in Requests, FindRef(r)
  PROVE  KnowledgeInv'
<1>1. ServiceInv /\ DashboardOK /\ ReadsAllow /\ RefInv
  BY DEF KnowledgeInv
<1>2. PICK k \in KBs :
        /\ At(r, "find_ref") /\ k \in req[r].todo /\ \A b \in req[r].todo : k <= b
        /\ Goto(r, [req[r] EXCEPT !.step = "write_ref", !.found = k \in ref])
  BY DEF FindRef
<1>3. PICK q : q = [req[r] EXCEPT !.step = "write_ref", !.found = k \in ref]
  OBVIOUS
<1>4. /\ q \in Request /\ q.step = "write_ref" /\ q.todo = req[r].todo
      /\ q.found <=> k \in ref
  <2> DEFINE Shape == [step : {"find_ref", "write_ref"}, todo : SUBSET KBs, found : BOOLEAN,
                       then : {Nil} \union Assignment]
  <2>1. req[r] \in Shape
    BY <1>1, <1>2, AtShape, Shapes
  <2>2. Shape \subseteq Request
    BY DEF Request
  <2>3. PICK f \in BOOLEAN : (f <=> k \in ref) /\ q = [req[r] EXCEPT !.step = "write_ref", !.found = f]
    <3>1. CASE k \in ref
      <4>1. (k \in ref) = TRUE
        BY <3>1
      <4>2. q = [req[r] EXCEPT !.step = "write_ref", !.found = TRUE]
        BY <1>3, <4>1, Zenon
      <4>3. QED
        BY <3>1, <4>2, Zenon
    <3>2. CASE k \notin ref
      <4>1. (k \in ref) = FALSE
        BY <3>2
      <4>2. q = [req[r] EXCEPT !.step = "write_ref", !.found = FALSE]
        BY <1>3, <4>1, Zenon
      <4>3. QED
        BY <3>2, <4>2, Zenon
    <3>3. QED
      BY <3>1, <3>2
  <2>4. q = [req[r] EXCEPT !.step = "write_ref", !.found = f]
    BY <2>3
  <2>5. q \in Shape /\ q.step = "write_ref" /\ q.todo = req[r].todo /\ q.found = f
    BY ONLY <2>1, <2>4, f \in BOOLEAN
  <2>6. QED
    BY <2>2, <2>3, <2>5
<1>5. Allowed(q) /\ q # Nil
  BY <1>4, RequestAssumption DEF Allowed
<1>6. req' = [req EXCEPT ![r] = q] /\ UNCHANGED <<service, kb, ref, assigned, loose>>
  BY <1>2, <1>3 DEF Goto, service
<1>7. ServiceInv'
  BY <1>1, <1>6, ServiceStutters
<1>8. /\ req' \in [Requests -> {Nil} \union Request] /\ ReadsAllow'
      /\ req'[r] = q /\ \A x \in Requests : x # r => req'[x] = req[x]
  BY <1>1, <1>4, <1>5, <1>6, RequestMoves
<1>9. DashboardOK'
  BY <1>1, <1>6, <1>8 DEF DashboardOK
<1>10. \A x \in Requests, b \in KBs : Adding(x, b) => Adding(x, b)'
  BY <1>4, <1>5, <1>8 DEF Adding, At
<1>11. \A x \in Requests, b \in KBs : Removing(x, b) <=> Removing(x, b)'
  BY <1>2, <1>4, <1>8 DEF Removing, At
<1>12. ASSUME NEW x \in Requests, NEW b \in KBs, At(x, "write_ref")', b \in req'[x].todo,
              \A c \in req'[x].todo : b <= c, req'[x].found
       PROVE  b \in ref' \/ kb'[b] = Gone
  <2>1. CASE x = r
    <3>1. b <= k /\ k <= b
      BY <1>2, <1>4, <1>8, <1>12, <2>1
    <3>2. b = k
      BY <3>1, NamesAssumption
    <3>3. k \in ref
      BY <1>4, <1>8, <1>12, <2>1
    <3>4. QED
      BY <1>6, <3>2, <3>3
  <2>2. CASE x # r
    BY <1>1, <1>6, <1>8, <1>12, <2>2 DEF RefInv, At
  <2>3. QED
    BY <2>1, <2>2
<1>13. RefInv'
  <2>1. \A b \in KBs : Live(b)' <=> Live(b)
    BY <1>6 DEF Live
  <2>2. QED
    BY <1>1, <1>6, <1>10, <1>11, <1>12, <2>1 DEF RefInv
<1>14. QED
  BY <1>7, <1>8, <1>9, <1>13 DEF KnowledgeInv

\* It writes the reference, by update or by insert.
LEMMA WriteRefStep ==
  ASSUME KnowledgeInv, NEW r \in Requests, WriteRef(r)
  PROVE  KnowledgeInv'
<1>1. ServiceInv /\ DashboardOK /\ ReadsAllow /\ RefInv
  BY DEF KnowledgeInv
<1>2. PICK k \in KBs :
        /\ At(r, "write_ref") /\ k \in req[r].todo /\ \A b \in req[r].todo : k <= b
        /\ IF req[r].found # (k \in ref) THEN Refuse(r)
           ELSE /\ ref' = ref \union {k}
                /\ loose' = IF Live(k) \/ req[r].found THEN loose ELSE loose \union {k}
                /\ req' = [req EXCEPT ![r] =
                             OrEnd([req[r] EXCEPT !.step = "find_ref", !.todo = @ \ {k}])]
                /\ UNCHANGED <<service, assigned, arrivals>>
  BY DEF WriteRef
<1> DEFINE Shape == [step : {"find_ref", "write_ref"}, todo : SUBSET KBs, found : BOOLEAN,
                     then : {Nil} \union Assignment]
<1>3. req[r] \in Shape /\ Shape \subseteq Request
  BY <1>1, <1>2, AtShape, Shapes DEF Request
<1>4. req[r].found => k \in ref \/ kb[k] = Gone
  BY <1>1, <1>2 DEF RefInv
\* The request ends, goes on to its next reference or goes back to where it came from.
<1>5. PICK q :
        /\ q \in {Nil} \union Request /\ Allowed(q)
        /\ q = Nil \/ q.step \in {"find_ref", "assign_find"}
        /\ req' = [req EXCEPT ![r] = q]
  <2>1. CASE req[r].found # (k \in ref)
    <3>1. req' = [req EXCEPT ![r] = Nil]
      BY <1>2, <2>1 DEF Refuse, Goto
    <3>2. QED
      BY <3>1, NilAllowed
  <2>2. CASE ~(req[r].found # (k \in ref))
    <3>1. PICK n : n = [req[r] EXCEPT !.step = "find_ref", !.todo = @ \ {k}]
      OBVIOUS
    <3>2. n \in Shape /\ n.step = "find_ref" /\ n.then \in {Nil} \union Assignment
      BY <1>3, <3>1
    <3>3. OrEnd(n) \in {n, n.then}
      BY DEF OrEnd
    <3>4. req' = [req EXCEPT ![r] = OrEnd(n)]
      BY <1>2, <2>2, <3>1, Zenon
    <3>5. n.then \in {Nil} \union Request /\ Allowed(n.then) /\ (n.then = Nil \/ n.then.step = "assign_find")
      <4>1. {} \in SUBSET KBs
        OBVIOUS
      <4>2. QED
        BY <3>2, <4>1, UpsertShape
    <3>6. n \in Request /\ Allowed(n)
      BY <1>3, <3>2 DEF Allowed
    <3>7. QED
      BY <3>2, <3>3, <3>4, <3>5, <3>6
  <2>3. QED
    BY <2>1, <2>2
<1>6. UNCHANGED <<service, assigned>> /\ UNCHANGED kb
  BY <1>2 DEF Refuse, Goto, service
<1>7. /\ ref \subseteq ref' /\ ref' \subseteq KBs /\ loose \subseteq loose'
      /\ \A b \in KBs : b \in ref' /\ b \notin ref => Live(b) \/ b \in loose'
      /\ \A b \in KBs \ loose' : b \notin ref' /\ Live(b) => ~Adding(r, b)
  <2>1. CASE req[r].found # (k \in ref)
    <3>1. UNCHANGED <<ref, loose>>
      BY <1>2, <2>1 DEF Refuse, Goto
    <3>2. k \in ref \/ ~Live(k)
      <4>1. CASE req[r].found
        BY <1>4, <4>1 DEF Live
      <4>2. CASE ~req[r].found
        <5>1. req[r].found \in BOOLEAN
          BY <1>3
        <5>2. req[r].found = FALSE
          BY <4>2, <5>1
        <5>3. k \in ref
          <6> SUFFICES ASSUME k \notin ref PROVE FALSE
            OBVIOUS
          <6>1. (k \in ref) = FALSE
            OBVIOUS
          <6>2. QED
            BY <2>1, <5>2, <6>1, Zenon
        <5>4. QED
          BY <5>3
      <4>3. QED
        BY <4>1, <4>2
    <3>3. ref \subseteq KBs
      BY <1>1 DEF DashboardOK
    <3>4. \A b \in KBs : Adding(r, b) => b = k
      BY <1>2 DEF Adding
    <3>5. QED
      BY <3>1, <3>2, <3>3, <3>4
  <2>2. CASE ~(req[r].found # (k \in ref))
    <3>1. /\ ref' = ref \union {k}
          /\ loose' = IF Live(k) \/ req[r].found THEN loose ELSE loose \union {k}
      BY <1>2, <2>2
    <3>2. req[r].found => k \in ref
      <4>1. req[r].found = (k \in ref)
        BY <2>2
      <4>2. QED
        BY <4>1, Zenon
    <3>3. ref \subseteq KBs
      BY <1>1 DEF DashboardOK
    <3>4. \A b \in KBs : Adding(r, b) => b = k
      BY <1>2 DEF Adding
    <3>5. loose' = IF Live(k) \/ k \in ref THEN loose' ELSE loose \union {k}
      BY <3>1, <3>2
    <3>6. loose \subseteq loose'
      BY <3>1
    <3>7. QED
      BY <3>1, <3>3, <3>4, <3>5, <3>6
  <2>3. QED
    BY <2>1, <2>2
<1>8. ServiceInv'
  BY <1>1, <1>6, ServiceStutters
<1>9. /\ req' \in [Requests -> {Nil} \union Request] /\ ReadsAllow'
      /\ req'[r] = q /\ \A x \in Requests : x # r => req'[x] = req[x]
  BY <1>1, <1>5, RequestMoves
<1>10. DashboardOK'
  BY <1>1, <1>6, <1>7, <1>9 DEF DashboardOK
<1>11. RefInv'
  <2>1. ASSUME NEW b \in KBs \ loose', Live(b)', b \notin ref'
        PROVE  \E x \in Requests : Adding(x, b)'
    <3>1. Live(b) /\ b \notin ref /\ b \notin loose
      BY <1>6, <1>7, <2>1 DEF Live
    <3>2. PICK x \in Requests : Adding(x, b)
      BY <1>1, <3>1 DEF RefInv
    <3>3. x # r /\ req'[x] = req[x]
      BY <1>7, <1>9, <2>1, <3>1, <3>2
    <3>4. QED
      BY <3>2, <3>3 DEF Adding, At
  <2>2. ASSUME NEW b \in KBs \ loose', ~Live(b)', b \in ref'
        PROVE  \E x \in Requests : Removing(x, b)'
    <3>1. ~Live(b) /\ b \in ref /\ b \notin loose
      BY <1>6, <1>7, <2>2 DEF Live
    <3>2. PICK x \in Requests : Removing(x, b)
      BY <1>1, <3>1 DEF RefInv
    <3>3. x # r /\ req'[x] = req[x]
      BY <1>2, <1>9, <3>2 DEF Removing, At
    <3>4. QED
      BY <3>2, <3>3 DEF Removing, At
  <2>3. ASSUME NEW x \in Requests, NEW b \in KBs, Removing(x, b)' PROVE kb'[b] = Gone
    <3>1. Removing(x, b)
      BY <1>5, <1>9, <2>3 DEF Removing, At
    <3>2. QED
      BY <1>1, <1>6, <3>1 DEF RefInv
  <2>4. ASSUME NEW x \in Requests, NEW b \in KBs, At(x, "write_ref")', b \in req'[x].todo,
               \A c \in req'[x].todo : b <= c, req'[x].found
        PROVE  b \in ref' \/ kb'[b] = Gone
    <3>1. At(x, "write_ref") /\ req'[x] = req[x]
      BY <1>5, <1>9, <2>4 DEF At
    <3>2. b \in ref \/ kb[b] = Gone
      BY <1>1, <2>4, <3>1 DEF RefInv
    <3>3. QED
      BY <1>6, <1>7, <3>2
  <2>5. \A a \in Apps : assigned'[a].refs \subseteq ref'
    BY <1>1, <1>6, <1>7 DEF RefInv
  <2>6. QED
    BY <2>1, <2>2, <2>3, <2>4, <2>5 DEF RefInv
<1>12. QED
  BY <1>8, <1>9, <1>10, <1>11 DEF KnowledgeInv

\* The service commits what it has decided on what it read.
LEMMA CommitSteps ==
  ASSUME KnowledgeInv, NEW r \in Requests, UpdateCommit(r) \/ ChangeCommit(r) \/ RemoveCommit(r)
  PROVE  KnowledgeInv'
<1> USE NilAssumption
<1>1. ServiceInv /\ DashboardOK /\ ReadsAllow
  BY DEF KnowledgeInv
<1>2. Allowed(req[r])
  BY <1>1 DEF ReadsAllow
<1>3. CASE UpdateCommit(r)
  <2>1. At(r, "update") /\ Idle(req[r])
    BY <1>3 DEF UpdateCommit, At, Idle
  <2>2. CASE Refuse(r)
    BY <2>1, <2>2, RefuseStep
  <2>3. CASE ~Refuse(r)
    <3>1. PICK k, p, read : k = req[r].kb /\ p = req[r].profile /\ read = req[r].read
      OBVIOUS
    <3>2. k \in KBs /\ p \in Profiles /\ read \in Read /\ read.kb.regen # "pending"
      BY <1>1, <1>2, <2>1, <3>1, AtShape, Shapes DEF Allowed, At
    <3>3. UpdateKb(k, p, read) /\ Reply(r, Upsert({k}, Nil), {})
      BY <1>3, <2>3, <3>1 DEF UpdateCommit
    <3>4. ServiceInv' /\ RowsStay
      BY <1>1, <3>2, <3>3, UpdateKbKeeps
    <3>5. {k} \in SUBSET KBs /\ Nil \in {Nil} \union Assignment
      BY <3>2
    <3>6. PICK q \in Request : q = Upsert({k}, Nil) /\ q.step = "find_ref" /\ Allowed(q)
      BY <3>5, UpsertShape
    <3>7. QED
      BY <2>1, <3>3, <3>4, <3>6, CommitStep
  <2>4. QED
    BY <2>2, <2>3
<1>4. CASE ChangeCommit(r)
  <2>1. At(r, "change") /\ Idle(req[r])
    BY <1>4 DEF ChangeCommit, At, Idle
  <2>2. CASE Refuse(r)
    BY <2>1, <2>2, RefuseStep
  <2>3. CASE ~Refuse(r)
    <3>1. PICK p, m, read : p = req[r].profile /\ m = req[r].model /\ read = req[r].read
      OBVIOUS
    <3>2. p \in Profiles /\ m \in Models /\ \E ks \in SUBSET KBs : read \in [ks -> Read]
      BY <1>1, <2>1, <3>1, AtShape, Shapes
    <3>3. PICK ks \in SUBSET KBs : read \in [ks -> Read]
      BY <3>2
    <3>4. \A k \in ks : read[k].kb.regen # "pending"
      BY <1>2, <2>1, <3>1, <3>3 DEF Allowed, At
    <3>5. ChangeProfile(p, m, read) /\ Reply(r, Nil, {})
      BY <1>4, <2>3, <3>1 DEF ChangeCommit
    <3>6. ServiceInv' /\ RowsStay
      BY <1>1, <3>2, <3>3, <3>4, <3>5, ChangeProfileKeeps
    <3>7. QED
      BY <2>1, <3>5, <3>6, CommitStep, NilAllowed
  <2>4. QED
    BY <2>2, <2>3
<1>5. CASE RemoveCommit(r)
  <2>1. At(r, "remove") /\ Idle(req[r])
    BY <1>5 DEF RemoveCommit, At, Idle
  <2>2. CASE Refuse(r)
    BY <2>1, <2>2, RefuseStep
  <2>3. CASE ~Refuse(r)
    <3>1. PICK p \in Profiles : p = req[r].profile
      BY <1>1, <2>1, AtShape, Shapes
    <3>2. DeleteProfile(p) /\ Reply(r, Nil, {})
      BY <1>5, <2>3, <3>1 DEF RemoveCommit
    <3>3. ServiceInv' /\ RowsStay
      BY <1>1, <3>2, DeleteProfileKeeps
    <3>4. QED
      BY <2>1, <3>2, <3>3, CommitStep, NilAllowed
  <2>4. QED
    BY <2>2, <2>3
<1>6. QED
  BY <1>3, <1>4, <1>5

\* A set of knowledge bases has a first.
LEMMA Least ==
  ASSUME NEW ks \in SUBSET KBs, ks # {}
  PROVE  \E k \in ks : \A b \in ks : k <= b
<1>1. ks \subseteq Nat
  BY NamesAssumption
<1>2. PICK k \in ks : \A b \in ks : <<b, k>> \notin OpToRel(<, Nat)
  BY <1>1, WFMin, NatLessThanWellFounded
<1>3. \A b \in ks : ~(b < k)
  BY <1>1, <1>2 DEF OpToRel
<1>4. QED
  BY <1>1, <1>3

\* The assignments of an app are replaced.
LEMMA AssignSteps ==
  ASSUME KnowledgeInv, NEW r \in Requests, AssignFind(r) \/ AssignDelete(r) \/ AssignInsert(r)
  PROVE  KnowledgeInv'
<1> USE NilAssumption
<1>1. ServiceInv /\ DashboardOK /\ ReadsAllow /\ RefInv
  BY DEF KnowledgeInv
<1>2. CASE AssignFind(r)
  <2>1. At(r, "assign_find") /\ Idle(req[r])
    BY <1>2 DEF AssignFind, At, Idle
  <2>2. req[r] \in Assignment
    BY <1>1, <2>1, AtShape, Shapes
  <2>3. PICK app \in Apps, ks \in SUBSET KBs, missing \in SUBSET KBs :
          app = req[r].app /\ ks = req[r].kbs /\ missing = req[r].missing
    BY <2>2 DEF Assignment
  <2>4. PICK unknown \in SUBSET KBs : unknown = missing \ ref
    BY <2>3
  <2>5. CASE unknown = {}
    <3>1. PICK q : q = [step |-> "assign_delete", app |-> app, kbs |-> ks, n |-> 0]
      OBVIOUS
    <3>2. Goto(r, q)
      BY <1>2, <2>3, <2>4, <2>5, <3>1 DEF AssignFind
    <3>3. q \in Request /\ q.step = "assign_delete" /\ Allowed(q)
      BY <3>1 DEF Request, Allowed
    <3>4. QED
      BY <2>1, <3>2, <3>3, GotoStep
  <2>6. CASE unknown # {}
    <3>1. PICK next : next = CHOOSE k \in unknown : \A b \in unknown : k <= b
      OBVIOUS
    <3>2. next \in KBs
      BY <2>4, <2>6, <3>1, Least
    <3>3. CASE Refuse(r)
      BY <2>1, <3>3, RefuseStep
    <3>4. CASE ~Refuse(r)
      <4>1. PICK later \in SUBSET KBs : later = {k \in unknown : k > next}
        BY <2>4
      <4>2. PICK then : then = [req[r] EXCEPT !.missing = later]
        OBVIOUS
      <4>3. Goto(r, Upsert({next}, then))
        BY <1>2, <2>3, <2>4, <2>6, <3>1, <3>4, <4>1, <4>2 DEF AssignFind
      <4>4. then \in {Nil} \union Assignment /\ {next} \in SUBSET KBs
        BY <2>2, <3>2, <4>2 DEF Assignment
      <4>5. PICK q \in Request : q = Upsert({next}, then) /\ q.step = "find_ref" /\ Allowed(q)
        BY <4>4, UpsertShape
      <4>6. QED
        BY <2>1, <4>3, <4>5, GotoStep
    <3>5. QED
      BY <3>3, <3>4
  <2>7. QED
    BY <2>5, <2>6
<1>3. CASE AssignDelete(r)
  <2>1. At(r, "assign_delete") /\ Idle(req[r])
    BY <1>3 DEF AssignDelete, At, Idle
  <2> DEFINE Shape == [step : {"assign_delete", "assign_insert"}, app : Apps, kbs : SUBSET KBs, n : Nat]
  <2>2. req[r] \in Shape /\ req[r].app \in Apps
    BY <1>1, <2>1, AtShape, Shapes
  <2>3. PICK q : q = [req[r] EXCEPT !.step = "assign_insert", !.n = assigned[req[r].app].n]
    OBVIOUS
  <2>4. Goto(r, q)
    BY <1>3, <2>3 DEF AssignDelete
  <2>5. assigned[req[r].app].n \in Nat
    BY <1>1, <2>2 DEF DashboardOK
  <2>6. q \in Shape /\ q.step = "assign_insert"
    BY <2>2, <2>3, <2>5
  <2>7. q \in Request /\ q.step = "assign_insert" /\ Allowed(q)
    BY <2>6 DEF Request, Allowed
  <2>8. QED
    BY <2>1, <2>4, <2>7, GotoStep
<1>4. CASE AssignInsert(r)
  <2>1. At(r, "assign_insert") /\ Idle(req[r])
    BY <1>4 DEF AssignInsert, At, Idle
  <2>2. CASE Refuse(r)
    BY <2>1, <2>2, RefuseStep
  <2>3. CASE ~Refuse(r)
    <3>1. PICK app \in Apps, ks \in SUBSET KBs, n \in Nat :
            app = req[r].app /\ ks = req[r].kbs /\ n = req[r].n
      BY <1>1, <2>1, AtShape, Shapes
    <3>2. PICK left : left = IF assigned[app].n = n THEN {} ELSE assigned[app].refs
      OBVIOUS
    <3>3. /\ ks \subseteq ref
          /\ assigned' = [assigned EXCEPT ![app] = [refs |-> left \union ks, n |-> assigned[app].n + 1]]
          /\ req' = [req EXCEPT ![r] = Nil]
          /\ UNCHANGED <<service, kb, ref, loose>>
      BY <1>1, <1>4, <2>3, <3>1, <3>2 DEF AssignInsert, service, DashboardOK
    <3>4. assigned[app] \in [refs : SUBSET KBs, n : Nat] /\ assigned[app].refs \subseteq ref /\ ref \subseteq KBs
      BY <1>1 DEF DashboardOK, RefInv
    <3>5. left \union ks \subseteq ref
      BY <3>2, <3>3, <3>4
    <3>6. [refs |-> left \union ks, n |-> assigned[app].n + 1] \in [refs : SUBSET KBs, n : Nat]
      BY <3>4, <3>5
    <3>7. \A a \in Apps : assigned'[a] \in [refs : SUBSET KBs, n : Nat] /\ assigned'[a].refs \subseteq ref
      BY <1>1, <3>3, <3>5, <3>6 DEF DashboardOK, RefInv
    <3>8. ServiceInv' /\ RowsStay
      BY <1>1, <3>3, ServiceStutters
    <3>9. RefInv'
      BY <1>1, <2>1, <3>3, <3>7, <3>8, RefsStay
    <3>10. req' \in [Requests -> {Nil} \union Request] /\ ReadsAllow'
      BY <1>1, <3>3, RequestMoves, NilAllowed
    <3>11. assigned' \in [Apps -> [refs : SUBSET KBs, n : Nat]]
      BY <1>1, <3>3, <3>6 DEF DashboardOK
    <3>12. QED
      BY <3>3, <3>4, <3>8, <3>9, <3>10, <3>11 DEF KnowledgeInv, DashboardOK
  <2>4. QED
    BY <2>2, <2>3
<1>5. QED
  BY <1>2, <1>3, <1>4

-----------------------------------------------------------------------------
(* The invariant and what follows from it. *)

\* Before the first request.
LEMMA InitInv == Init => KnowledgeInv
<1> SUFFICES ASSUME Init PROVE KnowledgeInv
  OBVIOUS
<1> USE NilAssumption
<1>1. /\ jobs = <<>> /\ worker = Nil /\ doubt = {} /\ loose = {}
      /\ req = [r \in Requests |-> Nil] /\ ref = {k \in KBs : Live(k)}
      /\ assigned \in [Apps -> [refs : SUBSET ref, n : {0}]]
  BY DEF Init
<1>2. /\ kb \in [KBs -> {Nil, Gone} \union KbRow]
      /\ \A k \in KBs : Live(k) => kb[k].regen = "idle"
  <2>1. [profile : Profiles, model : Models, next : {Nil}, regen : {"idle"}] \subseteq KbRow
    BY DEF KbRow
  <2>2. kb \in [KBs -> {Nil} \union [profile : Profiles, model : Models, next : {Nil}, regen : {"idle"}]]
    BY DEF Init
  <2>3. QED
    BY <2>1, <2>2 DEF Live
<1>3. source \in [Sources -> {Nil, Gone} \union SourceRow]
  <2>1. [kb : KBs, kind : {"url"}, made : SUBSET (Models \union {Local})] \subseteq SourceRow
    BY DEF SourceRow
  <2>2. source \in [Sources -> {Nil} \union [kb : KBs, kind : {"url"}, made : SUBSET (Models \union {Local})]]
    BY DEF Init
  <2>3. QED
    BY <2>1, <2>2
<1>4. profile \in [Profiles -> {Nil, Gone} \union Models]
  BY DEF Init
<1>5. jobs \in Seq(JobRow) /\ DOMAIN jobs = {}
  BY <1>1, EmptySeq, LenProperties
<1>6. ServiceOK
  BY <1>1, <1>2, <1>3, <1>4, <1>5 DEF ServiceOK
<1>7. \A s \in Sources : Stored(s) =>
        Live(source[s].kb) /\ source[s].made \subseteq {Local, kb[source[s].kb].model}
  BY DEF Init
<1>8. SourcesHaveKbs /\ VectorsOfOneModel
  BY <1>7 DEF SourcesHaveKbs, VectorsOfOneModel, Chunked, SourcesOf
<1>9. JobsHaveRows /\ WorkerKnows /\ OneOpen
  BY <1>1, <1>2, <1>5 DEF JobsHaveRows, WorkerKnows, OneOpen, InWork, OpenReembeds, Working
<1>10. DashboardOK
  <2>1. ref \subseteq KBs
    BY <1>1
  <2>2. [refs : SUBSET ref, n : {0}] \subseteq [refs : SUBSET KBs, n : Nat]
    BY <2>1
  <2>3. QED
    BY <1>1, <2>1, <2>2 DEF DashboardOK
<1>11. ReadsAllow
  BY <1>1, NilAllowed DEF ReadsAllow
<1>12. RefInv
  BY <1>1 DEF RefInv, Adding, Removing, At
<1>13. QED
  BY <1>6, <1>8, <1>9, <1>10, <1>11, <1>12 DEF KnowledgeInv, ServiceInv

\* Every step.
LEMMA NextInv == KnowledgeInv /\ [Next]_vars => KnowledgeInv'
<1> SUFFICES ASSUME KnowledgeInv, [Next]_vars PROVE KnowledgeInv'
  OBVIOUS
<1>1. ASSUME NEW r \in Requests, Continue(r) PROVE KnowledgeInv'
  BY <1>1, DeleteRefStep, FindRefStep, WriteRefStep, CommitSteps, AssignSteps DEF Continue
<1>2. ASSUME NEW r \in Requests, Arrival(r) PROVE KnowledgeInv'
  BY <1>2, ArrivalStep
<1>3. CASE Route \/ ((Work \/ Stop) /\ UNCHANGED dashboard)
  BY <1>3, RouteStep
<1>4. CASE UNCHANGED vars
  <2>1. ServiceInv' /\ RowsStay /\ UNCHANGED <<ref, assigned, req, loose>>
    BY <1>4, ServiceStutters DEF vars, dashboard, KnowledgeInv
  <2>2. RefInv'
    BY <2>1, RefsStutter DEF KnowledgeInv
  <2>3. QED
    BY <2>1, <2>2 DEF KnowledgeInv, DashboardOK, ReadsAllow
<1>5. QED
  BY <1>1, <1>2, <1>3, <1>4 DEF Next

\* The knowledge bases, the worker and the dashboard keep KnowledgeInv.
THEOREM Invariance == Spec => []KnowledgeInv
BY InitInv, NextInv, PTL DEF Spec

\* Rows, jobs, the worker's notes, references, assignments and requests keep their shapes.
THEOREM TypeCorrect == Spec => []TypeOK
<1>1. KnowledgeInv => TypeOK
  BY DEF KnowledgeInv, ServiceInv, DashboardOK, TypeOK
<1>2. QED
  BY <1>1, Invariance, PTL

\* The vectors of a knowledge base were made by the model that it searches with, or by the
\* service itself: unless the knowledge base was changed on the grounds of rows that had
\* changed (doubt), a change of profile, a deletion, a failure of the provider, of the job or
\* of a commit, or a stop of the worker in the middle of its work never leaves a vector of
\* another model.
THEOREM VectorsHold == Spec => []VectorsOfOneModel
<1>1. KnowledgeInv => VectorsOfOneModel
  BY DEF KnowledgeInv, ServiceInv
<1>2. QED
  BY <1>1, Invariance, PTL

\* A knowledge base is marked as regenerating exactly while one job works on it, or after
\* the worker was stopped over it.
THEOREM RegenerationsHold == Spec => []OneRegeneration
<1>1. ASSUME OneOpen PROVE OneRegeneration
  <2> SUFFICES ASSUME NEW k \in KBs \ doubt, Live(k)
               PROVE  IF kb[k].regen = "pending"
                        THEN Cardinality(Working(k)) = 1 \/ (Working(k) = {} /\ Abandoned(k))
                        ELSE Working(k) = {}
    BY DEF OneRegeneration
  <2>1. InWork(k)
    BY <1>1 DEF OneOpen
  <2>2. ASSUME NEW j, Working(k) = {j} PROVE Cardinality(Working(k)) = 1
    BY <2>2, FS_Singleton
  <2>3. QED
    BY <2>1, <2>2 DEF InWork
<1>2. KnowledgeInv => OneRegeneration
  BY <1>1 DEF KnowledgeInv, ServiceInv
<1>3. QED
  BY <1>2, Invariance, PTL

\* The dashboard's references follow the service's knowledge bases, but for those that a
\* request is about to write or remove and those whose reply was lost.
THEOREM RefsHold == Spec => []RefsFollowKbs
<1>1. ASSUME RefInv PROVE RefsFollowKbs
  <2>1. ASSUME NEW k \in KBs \ loose, (k \in ref) # Live(k)
        PROVE  \E r \in Requests : \/ At(r, "delete_ref") /\ req[r].kb = k
                                   \/ (At(r, "find_ref") \/ At(r, "write_ref")) /\ k \in req[r].todo
    <3>1. CASE Live(k) /\ k \notin ref
      BY <1>1, <3>1 DEF RefInv, Adding
    <3>2. CASE ~Live(k) /\ k \in ref
      BY <1>1, <3>2 DEF RefInv, Removing
    <3>3. ~(k \in ref /\ Live(k)) /\ ~(k \notin ref /\ ~Live(k))
      <4>1. k \in ref /\ Live(k) => (k \in ref) = TRUE /\ Live(k) = TRUE
        BY DEF Live
      <4>2. k \notin ref /\ ~Live(k) => (k \in ref) = FALSE /\ Live(k) = FALSE
        BY DEF Live
      <4>3. QED
        BY <2>1, <4>1, <4>2, Zenon
    <3>4. QED
      BY <3>1, <3>2, <3>3
  <2>2. QED
    BY <1>1, <2>1 DEF RefsFollowKbs, RefInv
<1>2. KnowledgeInv => RefsFollowKbs
  BY <1>1 DEF KnowledgeInv
<1>3. QED
  BY <1>2, Invariance, PTL
=============================================================================
