----------------------------- MODULE Knowledge -----------------------------
(***************************************************************************)
(* The dashboard's routes for knowledge bases (app/v1/knowledge-bases,     *)
(* app/v1/apps/[appId]/knowledge-bases, app/v1/organizations/embedding-    *)
(* profiles) on top of the knowledge base service.                         *)
(*                                                                         *)
(* The dashboard keeps a reference to every knowledge base, to which apps  *)
(* are assigned.  It calls the service first and writes the reference when *)
(* the reply has come.  The reply may not come in time: then the dashboard *)
(* gives up, whatever the service does.                                    *)
(***************************************************************************)
EXTENDS KnowledgeService

CONSTANTS
  Apps,        \* apps that knowledge bases are assigned to
  Requests,    \* slots for the requests under way, numbered; the lowest free one is taken
  MaxArrivals  \* requests that arrive in all

VARIABLES
  ref,       \* the knowledge bases that the dashboard has a reference to
  assigned,  \* assigned[a]: the references of the app; n counts the saves
  req,       \* req[r]: the request in flight, or Nil
  loose,     \* history: references lost to a reply or written on stale grounds
  arrivals

dashboard == <<ref, assigned, req, loose, arrivals>>
vars == <<service, dashboard>>

\* A request between two of its steps.
Assignment == [step : {"assign_find"}, app : Apps, kbs : SUBSET KBs, missing : SUBSET KBs]
Request ==
  [step : {"find_ref", "write_ref"}, todo : SUBSET KBs, found : BOOLEAN, then : {Nil} \union Assignment]
    \union [step : {"delete_ref"}, kb : KBs]
    \union [step : {"update"}, kb : KBs, profile : Profiles, read : Read]
    \union [step : {"change"}, profile : Profiles, model : Models,
            read : UNION {[ks -> Read] : ks \in SUBSET KBs}]
    \union [step : {"remove"}, profile : Profiles]
    \union Assignment
    \union [step : {"assign_delete", "assign_insert"}, app : Apps, kbs : SUBSET KBs, n : Nat]

ASSUME RequestAssumption == Nil \notin Request

TypeOK ==
  /\ ServiceOK
  /\ ref \subseteq KBs
  /\ assigned \in [Apps -> [refs : SUBSET KBs, n : Nat]]
  /\ req \in [Requests -> {Nil} \union Request]

-----------------------------------------------------------------------------

Arrived == arrivals < MaxArrivals /\ arrivals' = arrivals + 1

\* A route that does nothing but call the service.
Relay(call) == Arrived /\ call /\ UNCHANGED <<ref, assigned, req, loose>>

AddUrl(k, s) == Relay(AddSource(k, s, "url"))
AddUpload(k, s) == Relay(AddSource(k, s, "upload"))
AddUploadFile(k, s) == Relay(AddSource(k, s, "upload"))
RecrawlSource(s) == Relay(Recrawl(s))
RemoveSource(s) == Relay(DeleteSource(s))
RemoveDocument(s) == Relay(DeleteDocument(s))
RefreshKb(k) == Relay(RefreshIndex(k))
AddProfile(p, m) == Relay(CreateProfile(p, m))

Free(r) == req[r] = Nil /\ \A q \in Requests : q < r => req[q] # Nil

Begin(r, q) ==
  /\ Free(r) /\ Arrived
  /\ req' = [req EXCEPT ![r] = q]
  /\ UNCHANGED <<service, ref, assigned, loose>>

At(r, step) == req[r] # Nil /\ req[r].step = step
Goto(r, q) ==
  /\ req' = [req EXCEPT ![r] = q]
  /\ UNCHANGED <<service, ref, assigned, loose, arrivals>>
Refuse(r) == Goto(r, Nil)

\* callInternal: the service has acted on k; its reply comes, and the request
\* goes on with q, or the dashboard has given up.
Reply(r, q, k) ==
  /\ \/ req' = [req EXCEPT ![r] = q] /\ UNCHANGED loose
     \/ req' = [req EXCEPT ![r] = Nil] /\ loose' = loose \union k
  /\ UNCHANGED <<ref, assigned>>

\* syncRefsFromKbList, upsertKbRef: the references that are still to be
\* written, and what happens then.
Upsert(todo, then) == [step |-> "find_ref", todo |-> todo, found |-> FALSE, then |-> then]
OrEnd(q) == IF q.todo = {} THEN q.then ELSE q

Create(r, k, p) ==
  Free(r) /\ Arrived /\ CreateKb(k, p) /\ Reply(r, Upsert({k}, Nil), {k})

List(r) == Begin(r, OrEnd(Upsert({k \in KBs : Live(k)}, Nil)))

\* Mutant: the reference is kept.
MutantDelete(r, k) ==
  Free(r) /\ Arrived /\ DeleteKb(k) /\ Reply(r, Nil, {})

Delete(r, k) ==
  Free(r) /\ Arrived /\ DeleteKb(k) /\ Reply(r, [step |-> "delete_ref", kb |-> k], {k})

DeleteRef(r) ==
  /\ At(r, "delete_ref")
  /\ ref' = ref \ {req[r].kb}
  /\ assigned' = [a \in Apps |-> [assigned[a] EXCEPT !.refs = @ \ {req[r].kb}]]
  /\ req' = [req EXCEPT ![r] = Nil]
  /\ UNCHANGED <<service, loose, arrivals>>

\* One after the other, in the order of the list.
FindRef(r) ==
  \E k \in KBs :
    /\ At(r, "find_ref") /\ k \in req[r].todo
    /\ \A b \in req[r].todo : k <= b
    /\ Goto(r, [req[r] EXCEPT !.step = "write_ref", !.found = k \in ref])

\* An update of a row that is gone fails, and so does a second creation.
WriteRef(r) ==
  \E k \in KBs :
    /\ At(r, "write_ref") /\ k \in req[r].todo
    /\ \A b \in req[r].todo : k <= b
    /\ IF req[r].found # (k \in ref) THEN Refuse(r)
       ELSE /\ ref' = ref \union {k}
            /\ loose' = IF Live(k) \/ req[r].found THEN loose ELSE loose \union {k}
            /\ req' = [req EXCEPT ![r] =
                         OrEnd([req[r] EXCEPT !.step = "find_ref", !.todo = @ \ {k}])]
            /\ UNCHANGED <<service, assigned, arrivals>>

-----------------------------------------------------------------------------
(* PATCH of a knowledge base and of an embedding profile. *)

Update(r, k, p, confirmed) ==
  /\ MayUpdate(k, p, confirmed)
  /\ Begin(r, [step |-> "update", kb |-> k, profile |-> p, read |-> UpdateRead(k, p)])
UpdateCommit(r) ==
  /\ At(r, "update")
  /\ LET k == req[r].kb IN
     IF ~Live(k) \/ ~Exists(req[r].profile) THEN Refuse(r)
     ELSE /\ UpdateKb(k, req[r].profile, req[r].read)
          /\ Reply(r, Upsert({k}, Nil), {})
          /\ UNCHANGED arrivals

Change(r, p, m, confirmed) ==
  /\ MayChange(p, confirmed) /\ m # profile[p]
  /\ Begin(r, [step |-> "change", profile |-> p, model |-> m, read |-> ProfileRead(p)])
ChangeCommit(r) ==
  /\ At(r, "change")
  /\ LET q == req[r] IN
     IF ~Exists(q.profile) \/ \E k \in DOMAIN q.read : ~Live(k) THEN Refuse(r)
     ELSE /\ ChangeProfile(q.profile, q.model, q.read)
          /\ Reply(r, Nil, {})
          /\ UNCHANGED arrivals

Remove(r, p) == MayDelete(p) /\ Begin(r, [step |-> "remove", profile |-> p])
RemoveCommit(r) ==
  /\ At(r, "remove")
  /\ IF ~Exists(req[r].profile) THEN Refuse(r)
     ELSE DeleteProfile(req[r].profile) /\ Reply(r, Nil, {}) /\ UNCHANGED arrivals

-----------------------------------------------------------------------------
(* PUT /v1/apps/{id}/knowledge-bases: references that are missing are got  *)
(* from the service, then the transaction replaces the app's assignments,  *)
(* deleting those that it sees.                                            *)

Assign(r, a, ks) ==
  Begin(r, [step |-> "assign_find", app |-> a, kbs |-> ks, missing |-> ks])

AssignFind(r) ==
  /\ At(r, "assign_find")
  /\ LET q == req[r]
         unknown == q.missing \ ref
         next == CHOOSE k \in unknown : \A b \in unknown : k <= b
     IN
     IF unknown = {} THEN Goto(r, [step |-> "assign_delete", app |-> q.app, kbs |-> q.kbs, n |-> 0])
     ELSE IF Live(next)
       THEN Goto(r, Upsert({next}, [q EXCEPT !.missing = {k \in unknown : k > next}]))
     ELSE Refuse(r)

AssignDelete(r) ==
  /\ At(r, "assign_delete")
  /\ Goto(r, [req[r] EXCEPT !.step = "assign_insert", !.n = assigned[req[r].app].n])

AssignInsert(r) ==
  /\ At(r, "assign_insert")
  /\ LET q == req[r]
         left == IF assigned[q.app].n = q.n THEN {} ELSE assigned[q.app].refs
     IN
     IF ~(q.kbs \subseteq ref) \/ left \cap q.kbs # {} THEN Refuse(r)
     ELSE /\ assigned' = [assigned EXCEPT ![q.app] = [refs |-> left \union q.kbs, n |-> @.n + 1]]
          /\ req' = [req EXCEPT ![r] = Nil]
          /\ UNCHANGED <<service, ref, loose, arrivals>>

-----------------------------------------------------------------------------

Route ==
  \/ \E k \in KBs : RefreshKb(k)
  \/ \E k \in KBs, s \in Sources : AddUrl(k, s) \/ AddUpload(k, s) \/ AddUploadFile(k, s)
  \/ \E s \in Sources : RecrawlSource(s) \/ RemoveSource(s) \/ RemoveDocument(s)
  \/ \E p \in Profiles, m \in Models : AddProfile(p, m)

Arrival(r) ==
  \/ \E k \in KBs, p \in Profiles : Create(r, k, p)
  \/ List(r)
  \/ \E k \in KBs : Delete(r, k)
  \/ \E k \in KBs, p \in Profiles, confirmed \in BOOLEAN : Update(r, k, p, confirmed)
  \/ \E p \in Profiles, m \in Models, confirmed \in BOOLEAN : Change(r, p, m, confirmed)
  \/ \E p \in Profiles : Remove(r, p)
  \/ \E a \in Apps, ks \in SUBSET KBs : Assign(r, a, ks)

Continue(r) ==
  \/ DeleteRef(r) \/ FindRef(r) \/ WriteRef(r)
  \/ UpdateCommit(r) \/ ChangeCommit(r) \/ RemoveCommit(r)
  \/ AssignFind(r) \/ AssignDelete(r) \/ AssignInsert(r)

Init ==
  /\ profile \in [Profiles -> Models \union {Nil}]
  /\ kb \in [KBs -> {Nil} \union [profile : Profiles, model : Models, next : {Nil}, regen : {"idle"}]]
  /\ \A k \in KBs : Live(k) => kb[k].model = profile[kb[k].profile]
  /\ source \in [Sources -> {Nil} \union [kb : KBs, kind : {"url"}, made : SUBSET (Models \union {Local})]]
  /\ \A s \in Sources : Stored(s) =>
       Live(source[s].kb) /\ source[s].made \subseteq {Local, kb[source[s].kb].model}
  /\ ref = {k \in KBs : Live(k)}
  /\ assigned \in [Apps -> [refs : SUBSET ref, n : {0}]]
  /\ jobs = <<>> /\ worker = Nil /\ doubt = {} /\ crashes = 0
  /\ req = [r \in Requests |-> Nil]
  /\ loose = {} /\ arrivals = 0

Next ==
  \/ Route
  \/ \E r \in Requests : Arrival(r) \/ Continue(r)
  \/ (Work \/ Stop) /\ UNCHANGED dashboard

\* The worker's loop does not stop by itself.
Fairness == WF_vars(Work /\ UNCHANGED dashboard)

Spec == Init /\ [][Next]_vars /\ Fairness

-----------------------------------------------------------------------------

(***************************************************************************)
(* The vectors of a knowledge base were made by the model that it will     *)
(* search them with, or by the service itself when the provider failed,    *)
(* and never by another model: after any history of recrawls, changes of   *)
(* profile, deletions, failures and restarts; unless a profile was changed *)
(* on the grounds of rows that had changed, or while the worker embedded   *)
(* the first chunks of the knowledge base (router.py:402, ingestion.py:287)*)
(***************************************************************************)
VectorsOfOneModel ==
  \A k \in KBs \ doubt : \A s \in Chunked(k) : source[s].made \subseteq {kb[k].model, Local}

(***************************************************************************)
(* A knowledge base that is busy with a regeneration has exactly one job   *)
(* that will end it, or one that the worker was stopped over; and one that *)
(* is not busy has no job that could regenerate it behind its back.        *)
(***************************************************************************)
OpenReembeds(k) ==
  {j \in DOMAIN jobs : /\ jobs[j].kb = k /\ jobs[j].type = "reembed"
                       /\ jobs[j].status \in {"pending", "processing"}}
Orphan(j) == jobs[j].status = "processing" /\ (worker = Nil \/ worker.job # j)
Working(k) == {j \in OpenReembeds(k) : ~Orphan(j)}
Abandoned(k) == \E j \in OpenReembeds(k) : Orphan(j)

OneRegeneration ==
  \A k \in KBs \ doubt : Live(k) =>
    IF kb[k].regen = "pending"
      THEN Cardinality(Working(k)) = 1 \/ (Working(k) = {} /\ Abandoned(k))
      ELSE Working(k) = {}

(***************************************************************************)
(* A busy knowledge base becomes free again, or is deleted, unless the     *)
(* worker was stopped over its job.                                        *)
(***************************************************************************)
RegenerationEnds ==
  \A k \in KBs : (Live(k) /\ kb[k].regen = "pending") ~>
                   (~Live(k) \/ kb[k].regen # "pending" \/ Abandoned(k))

(***************************************************************************)
(* The dashboard has a reference exactly to the knowledge bases that the   *)
(* service has, but for those that a request is about to add or remove,    *)
(* those whose reply was lost and those that were written as they were     *)
(* deleted.  What apps are assigned to is among them.                      *)
(***************************************************************************)
RefsFollowKbs ==
  /\ \A k \in KBs \ loose : (k \in ref) # Live(k) =>
       \E r \in Requests : \/ At(r, "delete_ref") /\ req[r].kb = k
                           \/ (At(r, "find_ref") \/ At(r, "write_ref")) /\ k \in req[r].todo
  /\ \A a \in Apps : assigned[a].refs \subseteq ref
=============================================================================
