------------------------------ MODULE AppSetup ------------------------------
(***************************************************************************)
(* What an organization sets up in the dashboard before its first chat:    *)
(* provider profiles, apps, their configuration, keys, functions and       *)
(* playbooks, with the audit trail and the onboarding guide that watch it. *)
(*                                                                         *)
(* The routes under app/v1/apps/[appId] and app/v1/organizations.  As in   *)
(* Membership, every query is a step of its own and only what the code     *)
(* wraps in $transaction is one step; a request in flight carries what it  *)
(* has read.  Here a request knows the rows that its decision rests on     *)
(* (watch), and only a change of these makes it stale.                     *)
(***************************************************************************)
EXTENDS Naturals, Sequences, FiniteSets

CONSTANTS
  Apps,          \* apps, numbered in the order of their creation
  Profiles,      \* names of provider profiles
  Keys,          \* API keys
  Functions,     \* functions that the SDK has registered
  Requests,      \* requests that may be under way at a time
  MaxArrivals,   \* requests that arrive in all
  Nil            \* no row

ASSUME AppsAssumption == Apps \subseteq Nat

VARIABLES
  apps,      \* the apps that exist
  profile,   \* profile[p]: provider address and key, or Nil
  config,    \* config[a]: the row of the app, or Nil
  key,       \* key[k]: app and whether it is active, or Nil
  fn,        \* fn[f]: app and whether it is active, or Nil
  playbook,  \* playbook[a]: the functions of its steps; n counts the saves
  org,       \* onboarding: the target app and whether it was completed
  trail,     \* trail[row]: the audit events of a configuration, key or function
  req,       \* req[r]: the request in flight, or Nil
  doubt,     \* history: rows written by a stale request or left half-audited
  met,       \* history: steps of the guide done since its request began to look
  arrivals

tables == <<apps, profile, config, key, fn, playbook, org, trail>>
vars == <<tables, req, doubt, met, arrivals>>

Provider == [at : {"direct", "proxy"}, secret : {"old", "new"}]
Config == [profile : Profiles \union {Nil}, model : {"plain", "seeing"},
           vision : {"ocr_safe", "multimodal"}]
OfApp == [app : Apps, active : BOOLEAN]
Row(t, ids) == {t} \X ids
Audited == Row("config", Apps) \union Row("key", Keys) \union Row("function", Functions)

\* What a body may give of a record: any of its fields; and the record with
\* these, the body winning.
Parts(records) == {[f \in S |-> c[f]] : S \in SUBSET DOMAIN (CHOOSE c \in records : TRUE), c \in records}

Over(given, record) ==
  [f \in DOMAIN given \union DOMAIN record |-> IF f \in DOMAIN given THEN given[f] ELSE record[f]]

DefaultConfig == [profile |-> Nil, model |-> "seeing", vision |-> "ocr_safe"]

OrgRow == [target : Apps \union {Nil}, done : BOOLEAN]

\* A request between two of its queries: what it is about, what the body gives and
\* what was read, by its next step.
Rows ==
  {<<"org", Nil>>} \union Row("app", Apps) \union Row("playbook", Apps)
    \union Row("profile", Profiles \union {Nil}) \union Audited
Step ==
  {"create", "check", "update", "audit_config", "create_profile", "update_profile",
   "delete_profile", "revoke", "patch", "audit_function", "switch_off", "delete_steps",
   "insert_steps", "reset", "read_org", "target", "retarget", "has_profile", "has_model",
   "has_key", "has_function", "complete"}
Asking(as, ids, puts, rows) ==
  [step : Step, app : as, id : ids, put : puts, row : rows, watch : SUBSET Rows, stale : BOOLEAN]
Request(step) ==
  CASE step = "create" -> Asking(Apps, {Nil}, Parts(Config), {Nil})
    [] step \in {"check", "update", "audit_config"} -> Asking(Apps, {Nil}, Parts(Config), Config)
    [] step = "create_profile" -> Asking({Nil}, Profiles, {Nil}, Provider)
    [] step = "update_profile" -> Asking({Nil}, Profiles, Parts(Provider), Provider)
    [] step = "delete_profile" -> Asking({Nil}, Profiles, {Nil}, {Nil})
    [] step = "revoke" -> Asking(Apps, Keys, {Nil}, {Nil})
    [] step \in {"patch", "audit_function"} -> Asking(Apps, Functions, BOOLEAN, BOOLEAN)
    [] step = "switch_off" -> Asking(Apps, Functions, {FALSE}, {Nil})
    [] step = "delete_steps" -> Asking(Apps, {Nil}, SUBSET Functions, {Nil})
    [] step = "insert_steps" -> Asking(Apps, {Nil}, SUBSET Functions, Nat)
    [] step \in {"reset", "read_org", "target"} -> Asking({Nil}, {Nil}, {Nil}, OrgRow)
    [] step = "retarget" -> Asking(Apps \union {Nil}, {Nil}, {Nil}, OrgRow)
    [] OTHER -> Asking(Apps, {Nil}, {Nil}, OrgRow)

ASSUME NilAssumption ==
  /\ Nil \notin Apps \union Profiles
  /\ Nil \notin Provider /\ Nil \notin Config /\ Nil \notin OfApp
  /\ \A step \in Step : Nil \notin Request(step)

\* Only a model that sees can be asked about images.
Fits(c) == c.vision = "multimodal" => c.model = "seeing"

Events == {"created", "revoked", "activated", "deactivated"}

TablesOK ==
  /\ apps \subseteq Apps
  /\ profile \in [Profiles -> Provider \union {Nil}]
  /\ config \in [Apps -> Config \union {Nil}]
  /\ key \in [Keys -> OfApp \union {Nil}]
  /\ fn \in [Functions -> OfApp \union {Nil}]
  /\ playbook \in [Apps -> [steps : SUBSET Functions, n : Nat]]
  /\ org \in OrgRow
  /\ DOMAIN trail = Audited
  /\ \A x \in Row("config", Apps) : trail[x] \in Seq(Config)
  /\ \A x \in Row("key", Keys) \union Row("function", Functions) : trail[x] \in Seq(Events)

TypeOK ==
  /\ TablesOK
  /\ DOMAIN req = Requests
  /\ \A r \in Requests : req[r] # Nil => req[r].step \in Step /\ req[r] \in Request(req[r].step)

-----------------------------------------------------------------------------
(* Requests.  app and id name the target, put is what the body gives, row  *)
(* what was read.                                                          *)

Arrive(r, step, a, id, put, row, watch) ==
  /\ req[r] = Nil /\ arrivals < MaxArrivals
  /\ arrivals' = arrivals + 1
  /\ req' = [req EXCEPT ![r] = [step |-> step, app |-> a, id |-> id, put |-> put, row |-> row,
                                watch |-> watch, stale |-> FALSE]]
  /\ UNCHANGED <<tables, doubt>>

At(r, step) == req[r] # Nil /\ req[r].step = step

\* The request goes on, or ends with q = Nil, without a write.
Goto(r, q) == req' = [req EXCEPT ![r] = q] /\ UNCHANGED <<tables, doubt, arrivals>>
Then(r, step) == [req[r] EXCEPT !.step = step]
Refuse(r) == Goto(r, Nil)

\* It goes on after it has written rows: others that rest on them are stale.
Write(r, q, rows) ==
  /\ req' = [s \in Requests |->
       IF s = r THEN q
       ELSE IF req[s] # Nil /\ req[s].watch \cap rows # {} THEN [req[s] EXCEPT !.stale = TRUE]
       ELSE req[s]]
  /\ doubt' = IF req[r] # Nil /\ req[r].stale THEN doubt \union rows ELSE doubt
  /\ UNCHANGED arrivals

\* The same for what is written in the step in which the request arrives.
WriteAtOnce(rows) ==
  /\ arrivals < MaxArrivals
  /\ arrivals' = arrivals + 1
  /\ req' = [s \in Requests |->
       IF req[s] # Nil /\ req[s].watch \cap rows # {} THEN [req[s] EXCEPT !.stale = TRUE]
       ELSE req[s]]
  /\ UNCHANGED doubt

Record(row, event) == trail' = [trail EXCEPT ![row] = Append(@, event)]

\* It ends with the audit event of a change it has made before; or without,
\* when that query fails or the server stops.
Audit(r, row, event) ==
  /\ IF req[r].app \in apps
       THEN /\ Record(row, event)
            /\ doubt' = IF req[r].stale THEN doubt \union {row} ELSE doubt
       ELSE UNCHANGED <<trail, doubt>>
  /\ req' = [req EXCEPT ![r] = Nil]
  /\ UNCHANGED <<apps, profile, config, key, fn, playbook, org, arrivals>>

Audits == {"audit_config", "audit_function"}

LoseAudit(r) ==
  /\ req[r] # Nil /\ req[r].step \in Audits
  /\ doubt' = doubt \union {IF At(r, "audit_config") THEN <<"config", req[r].app>>
                            ELSE <<"function", req[r].id>>}
  /\ req' = [req EXCEPT ![r] = Nil]
  /\ UNCHANGED <<tables, arrivals>>

-----------------------------------------------------------------------------
(* Apps.  What hangs on an app goes with it. *)

CreateApp(a) ==
  /\ a \in Apps /\ \A b \in apps : b < a
  /\ apps' = apps \union {a}
  /\ WriteAtOnce({<<"app", a>>})
  /\ UNCHANGED <<profile, config, key, fn, playbook, org, trail>>

Of(a, table) == {x \in DOMAIN table : table[x] # Nil /\ table[x].app = a}

DeleteApp(a) ==
  /\ a \in apps
  /\ apps' = apps \ {a}
  /\ config' = [config EXCEPT ![a] = Nil]
  /\ key' = [k \in Keys |-> IF k \in Of(a, key) THEN Nil ELSE key[k]]
  /\ fn' = [f \in Functions |-> IF f \in Of(a, fn) THEN Nil ELSE fn[f]]
  /\ playbook' = [playbook EXCEPT ![a].steps = {}]
  /\ LET rows == {<<"config", a>>} \union Row("key", Of(a, key)) \union Row("function", Of(a, fn))
     IN  /\ trail' = [x \in Audited |-> IF x \in rows THEN <<>> ELSE trail[x]]
         /\ WriteAtOnce(rows \union {<<"app", a>>, <<"playbook", a>>})
  /\ UNCHANGED <<profile, org>>

-----------------------------------------------------------------------------
(* GET and PUT /v1/apps/{id}/config; GET gives nothing. *)

ConfigFind(r, a, put) ==
  /\ a \in apps
  /\ put # <<>> \/ config[a] = Nil
  /\ Arrive(r, IF config[a] = Nil THEN "create" ELSE "check", a, Nil, put, config[a],
            {<<"app", a>>, <<"config", a>>} \union
              (IF "profile" \in DOMAIN put THEN {<<"profile", put.profile>>} ELSE {}))

\* getOrCreateConfig: the app's row is unique.
ConfigCreate(r) ==
  LET a == req[r].app IN
  /\ At(r, "create")
  /\ IF a \notin apps \/ config[a] # Nil THEN Refuse(r)
     ELSE /\ config' = [config EXCEPT ![a] = DefaultConfig]
          /\ Write(r, IF req[r].put = <<>> THEN Nil
                      ELSE [Then(r, "check") EXCEPT !.row = DefaultConfig], {<<"config", a>>})
          /\ UNCHANGED <<apps, profile, key, fn, playbook, org, trail>>

\* Mutant: the plan is what was read, without the body.
MutantPlanned(r) == Over(req[r].row, req[r].put)

\* What the configuration would become, by what was read of it.
Planned(r) == Over(req[r].put, req[r].row)
Given(r, f) == f \in DOMAIN req[r].put /\ req[r].put[f] # Nil

Acceptable(r) ==
  /\ Given(r, "profile") => profile[req[r].put.profile] # Nil
  /\ Fits(Planned(r))

\* A model that is given may be refused for its id, too: Google's aliases name
\* one model today and another tomorrow.
ConfigCheck(r) ==
  /\ At(r, "check")
  /\ \/ Acceptable(r) /\ Goto(r, Then(r, "update"))
     \/ (~Acceptable(r) \/ Given(r, "model")) /\ Refuse(r)

\* Only the fields that were given are written.
ConfigUpdate(r) ==
  LET a == req[r].app IN
  /\ At(r, "update")
  /\ IF config[a] = Nil \/ (Given(r, "profile") /\ profile[req[r].put.profile] = Nil)
       THEN Refuse(r)
     ELSE /\ config' = [config EXCEPT ![a] = Over(req[r].put, @)]
          /\ Write(r, IF Planned(r) = req[r].row THEN Nil ELSE Then(r, "audit_config"),
                   {<<"config", a>>})
          /\ UNCHANGED <<apps, profile, key, fn, playbook, org, trail>>

\* The event shows the plan.
ConfigAudit(r) ==
  At(r, "audit_config") /\ Audit(r, <<"config", req[r].app>>, Planned(r))

-----------------------------------------------------------------------------
(* /v1/organizations/llm-profiles.  The provider is asked before anything  *)
(* is stored; row is what it was asked about.                              *)

ProfileTest(r, p, provider) ==
  Arrive(r, "create_profile", Nil, p, Nil, provider, {<<"profile", p>>})

ProfileCreate(r) ==
  LET p == req[r].id IN
  /\ At(r, "create_profile")
  /\ IF profile[p] # Nil THEN Refuse(r)
     ELSE /\ profile' = [profile EXCEPT ![p] = req[r].row]
          /\ Write(r, Nil, {<<"profile", p>>})
          /\ UNCHANGED <<apps, config, key, fn, playbook, org, trail>>

\* PATCH: what the body does not give is taken from the row as it was read.
ProfileRetest(r, p, given) ==
  /\ profile[p] # Nil
  /\ Arrive(r, "update_profile", Nil, p, given, Over(given, profile[p]), {<<"profile", p>>})

\* Mutant: the secret is tested but not stored.
MutantProfileUpdate(r) ==
  LET p == req[r].id IN
  /\ At(r, "update_profile")
  /\ IF profile[p] = Nil THEN Refuse(r)
     ELSE /\ profile' = [profile EXCEPT ![p].at = req[r].row.at]
          /\ Write(r, Nil, {<<"profile", p>>})
          /\ UNCHANGED <<apps, config, key, fn, playbook, org, trail>>

\* The address is always written, the secret only if it was given.
ProfileUpdate(r) ==
  LET p == req[r].id
      written == {"at"} \union DOMAIN req[r].put
  IN
  /\ At(r, "update_profile")
  /\ IF profile[p] = Nil THEN Refuse(r)
     ELSE /\ profile' = [profile EXCEPT ![p] = Over([f \in written |-> req[r].row[f]], @)]
          /\ Write(r, Nil, {<<"profile", p>>})
          /\ UNCHANGED <<apps, config, key, fn, playbook, org, trail>>

Users(p) == {a \in Apps : config[a] # Nil /\ config[a].profile = p}

\* Mutant: the apps that use the profile are not counted.
MutantProfileUnused(r, p) ==
  /\ profile[p] # Nil
  /\ Arrive(r, "delete_profile", Nil, p, Nil, Nil, Row("config", Apps))

ProfileUnused(r, p) ==
  /\ profile[p] # Nil /\ Users(p) = {}
  /\ Arrive(r, "delete_profile", Nil, p, Nil, Nil, Row("config", Apps))

\* The foreign key of the configurations is set to null.
ProfileDelete(r) ==
  LET p == req[r].id IN
  /\ At(r, "delete_profile")
  /\ IF profile[p] = Nil THEN Refuse(r)
     ELSE /\ profile' = [profile EXCEPT ![p] = Nil]
          /\ config' = [a \in Apps |-> IF a \in Users(p) THEN [config[a] EXCEPT !.profile = Nil]
                                       ELSE config[a]]
          /\ Write(r, Nil, {<<"profile", p>>} \union Row("config", Users(p)))
          /\ UNCHANGED <<apps, key, fn, playbook, org, trail>>

-----------------------------------------------------------------------------
(* API keys: the change and its event are one transaction. *)

CreateKey(k, a) ==
  /\ a \in apps /\ key[k] = Nil
  /\ key' = [key EXCEPT ![k] = [app |-> a, active |-> TRUE]]
  /\ Record(<<"key", k>>, "created")
  /\ WriteAtOnce({<<"key", k>>})
  /\ UNCHANGED <<apps, profile, config, fn, playbook, org>>

RevokeRead(r, k) ==
  /\ key[k] # Nil
  /\ Arrive(r, "revoke", key[k].app, k, Nil, Nil, {<<"key", k>>})

RevokeCommit(r) ==
  LET k == req[r].id IN
  /\ At(r, "revoke")
  /\ IF key[k] = Nil THEN Refuse(r)
     ELSE /\ key' = [key EXCEPT ![k].active = FALSE]
          /\ Record(<<"key", k>>, "revoked")
          /\ Write(r, Nil, {<<"key", k>>})
          /\ UNCHANGED <<apps, profile, config, fn, playbook, org>>

-----------------------------------------------------------------------------
(* Functions.  PATCH records a change of what it has read; DELETE switches *)
(* the function off without an event.                                      *)

FunctionRead(r, f, active) ==
  /\ fn[f] # Nil
  /\ Arrive(r, "patch", fn[f].app, f, active, fn[f].active, {<<"function", f>>})

Switch(r, f, active, q) ==
  IF fn[f] = Nil THEN Refuse(r)
  ELSE /\ fn' = [fn EXCEPT ![f].active = active]
       /\ Write(r, q, {<<"function", f>>})
       /\ UNCHANGED <<apps, profile, config, key, playbook, org, trail>>

FunctionWrite(r) ==
  /\ At(r, "patch")
  /\ Switch(r, req[r].id, req[r].put,
            IF req[r].row # req[r].put THEN Then(r, "audit_function") ELSE Nil)

SwitchOffRead(r, f) ==
  /\ fn[f] # Nil
  /\ Arrive(r, "switch_off", fn[f].app, f, FALSE, Nil, {<<"function", f>>})

SwitchOff(r) == At(r, "switch_off") /\ Switch(r, req[r].id, FALSE, Nil)

FunctionAudit(r) ==
  /\ At(r, "audit_function")
  /\ Audit(r, <<"function", req[r].id>>,
           IF req[r].put THEN "activated" ELSE "deactivated")

-----------------------------------------------------------------------------
(* PUT /v1/apps/{id}/playbooks/{id}/functions.  The transaction deletes    *)
(* the steps that it sees and adds the new ones; another one that has      *)
(* committed in between leaves its steps, and their primary keys.          *)

StepsCheck(r, a, steps) ==
  /\ a \in apps
  /\ \A f \in steps : fn[f] # Nil /\ fn[f].app = a
  /\ Arrive(r, "delete_steps", a, Nil, steps, Nil, {<<"app", a>>, <<"playbook", a>>})

StepsDelete(r) ==
  /\ At(r, "delete_steps")
  /\ Goto(r, [Then(r, "insert_steps") EXCEPT !.row = playbook[req[r].app].n])

StepsInsert(r) ==
  LET a == req[r].app
      left == IF playbook[a].n = req[r].row THEN {} ELSE playbook[a].steps
  IN
  /\ At(r, "insert_steps")
  /\ IF a \notin apps \/ left \cap req[r].put # {} THEN Refuse(r)
     ELSE /\ playbook' = [playbook EXCEPT ![a] = [steps |-> left \union req[r].put, n |-> @.n + 1]]
          /\ Write(r, Nil, {<<"playbook", a>>})
          /\ UNCHANGED <<apps, profile, config, key, fn, org, trail>>

-----------------------------------------------------------------------------
(* The onboarding guide.  Every GET reads its way through the steps, moves *)
(* the target if its app is gone, and may find that all is done.           *)

Everything ==
  {<<"org", Nil>>} \union Row("app", Apps) \union Row("profile", Profiles) \union Audited

Resolve(r) == Arrive(r, "target", Nil, Nil, Nil, org, Everything)

\* POST .../onboarding/reset goes on with the same.
Reset(r) == Arrive(r, "reset", Nil, Nil, Nil, org, Everything)
ResetWrite(r) ==
  /\ At(r, "reset")
  /\ org' = [target |-> Nil, done |-> FALSE]
  /\ Write(r, Then(r, "read_org"), {<<"org", Nil>>})
  /\ UNCHANGED <<apps, profile, config, key, fn, playbook, trail>>
ReadOrg(r) == At(r, "read_org") /\ Goto(r, [Then(r, "target") EXCEPT !.row = org])

First(S) == IF S = {} THEN Nil ELSE CHOOSE a \in S : \A b \in S : a <= b

\* Once it is known that a step is not done, or that the guide was completed
\* before, nothing more is written.
FindTarget(r) ==
  /\ At(r, "target")
  /\ IF req[r].row.target \in apps
       THEN Goto(r, IF req[r].row.done THEN Nil
                    ELSE [Then(r, "has_profile") EXCEPT !.app = req[r].row.target])
     ELSE IF First(apps) # req[r].row.target
       THEN Goto(r, [Then(r, "retarget") EXCEPT !.app = First(apps)])
     ELSE Refuse(r)

Retarget(r) ==
  /\ At(r, "retarget")
  /\ org' = [org EXCEPT !.target = req[r].app]
  /\ Write(r, IF req[r].app = Nil \/ req[r].row.done THEN Nil ELSE Then(r, "has_profile"),
           {<<"org", Nil>>})
  /\ UNCHANGED <<apps, profile, config, key, fn, playbook, trail>>

HasProfile == \E p \in Profiles : profile[p] # Nil
HasModel(a) == config[a] # Nil /\ config[a].profile # Nil
HasKey(a) == \E k \in Of(a, key) : key[k].active
HasFunction(a) == \E f \in Of(a, fn) : fn[f].active

Look(r, step, found, next) ==
  At(r, step) /\ IF found THEN Goto(r, Then(r, next)) ELSE Refuse(r)

\* Mutant: a revoked key counts.
MutantLookAround(r) ==
  \/ Look(r, "has_profile", HasProfile, "has_model")
  \/ \E a \in Apps : req[r] # Nil /\ req[r].app = a /\
       \/ Look(r, "has_model", HasModel(a), "has_key")
       \/ Look(r, "has_key", Of(a, key) # {}, "has_function")
       \/ Look(r, "has_function", HasFunction(a), "complete")

LookAround(r) ==
  \/ Look(r, "has_profile", HasProfile, "has_model")
  \/ \E a \in Apps : req[r] # Nil /\ req[r].app = a /\
       \/ Look(r, "has_model", HasModel(a), "has_key")
       \/ Look(r, "has_key", HasKey(a), "has_function")
       \/ Look(r, "has_function", HasFunction(a), "complete")

Complete(r) ==
  /\ At(r, "complete")
  /\ org' = [org EXCEPT !.done = TRUE]
  /\ Write(r, Nil, {<<"org", Nil>>})
  /\ UNCHANGED <<apps, profile, config, key, fn, playbook, trail>>

\* What is done for the app of a request that looks around, at this moment, and
\* what has been done at some moment since it began.
AboutTheGuide == {"has_profile", "has_model", "has_key", "has_function", "complete"}
GuideSteps == {"app", "profile", "model", "key", "function"}
Looking(r) == req[r] # Nil /\ req[r].step \in {"retarget"} \union AboutTheGuide /\ req[r].app # Nil

Done(r) ==
  LET a == req[r].app IN
  {s \in GuideSteps :
     /\ s = "app" => a \in apps
     /\ s = "profile" => HasProfile
     /\ s = "model" => HasModel(a)
     /\ s = "key" => HasKey(a)
     /\ s = "function" => HasFunction(a)}

Remember ==
  met' = [r \in Requests |->
            IF Looking(r)' THEN Done(r)' \union (IF Looking(r) THEN met[r] ELSE {}) ELSE {}]

-----------------------------------------------------------------------------

Arrival(r) ==
  \/ \E a \in Apps, put \in Parts(Config) : ConfigFind(r, a, put)
  \/ \E p \in Profiles, provider \in Provider : ProfileTest(r, p, provider)
  \/ \E p \in Profiles, given \in Parts(Provider) : ProfileRetest(r, p, given)
  \/ \E p \in Profiles : ProfileUnused(r, p)
  \/ \E k \in Keys : RevokeRead(r, k)
  \/ \E f \in Functions, active \in BOOLEAN : FunctionRead(r, f, active)
  \/ \E f \in Functions : SwitchOffRead(r, f)
  \/ \E a \in Apps, steps \in SUBSET Functions : StepsCheck(r, a, steps)
  \/ Resolve(r)
  \/ Reset(r)

Continue(r) ==
  \/ ConfigCreate(r) \/ ConfigCheck(r) \/ ConfigUpdate(r) \/ ConfigAudit(r)
  \/ ProfileCreate(r) \/ ProfileUpdate(r) \/ ProfileDelete(r)
  \/ RevokeCommit(r)
  \/ FunctionWrite(r) \/ FunctionAudit(r) \/ SwitchOff(r)
  \/ StepsDelete(r) \/ StepsInsert(r)
  \/ ResetWrite(r) \/ ReadOrg(r) \/ FindTarget(r) \/ Retarget(r)
  \/ LookAround(r) \/ Complete(r)
  \/ LoseAudit(r)

Change ==
  \/ \E a \in Apps : CreateApp(a) \/ DeleteApp(a)
  \/ \E k \in Keys, a \in Apps : CreateKey(k, a)
  \/ \E r \in Requests : Arrival(r) \/ Continue(r)

Next == Change /\ Remember

\* An organization that has set up something, and whose trail tells it.
Init ==
  /\ apps \in SUBSET Apps
  /\ profile \in [Profiles -> {Nil} \union [at : {"direct"}, secret : {"old"}]]
  /\ config \in [Apps -> {Nil} \union {c \in Config : Fits(c) /\ c.profile \in {Nil} \union
                                          {p \in Profiles : profile[p] # Nil}}]
  /\ \A a \in Apps \ apps : config[a] = Nil
  /\ key \in [Keys -> {Nil} \union [app : apps, active : BOOLEAN]]
  /\ fn \in [Functions -> {Nil} \union [app : apps, active : {TRUE}]]
  /\ playbook = [a \in Apps |-> [steps |-> {}, n |-> 0]]
  /\ org = [target |-> Nil, done |-> FALSE]
  /\ trail = [x \in Audited |->
       CASE x[1] = "config" ->
              IF config[x[2]] \in {Nil, DefaultConfig} THEN <<>> ELSE <<config[x[2]]>>
         [] x[1] = "key" -> IF key[x[2]] = Nil THEN <<>>
                            ELSE IF key[x[2]].active THEN <<"created">> ELSE <<"created", "revoked">>
         [] OTHER -> <<>>]
  /\ req = [r \in Requests |-> Nil]
  /\ met = [r \in Requests |-> {}]
  /\ doubt = {} /\ arrivals = 0

Spec == Init /\ [][Next]_vars

-----------------------------------------------------------------------------

(***************************************************************************)
(* The trail of a configuration ends with what it is, and that of a        *)
(* function that is active not with its deactivation, unless a request     *)
(* wrote on grounds that were no longer true, its audit query failed, or   *)
(* it has still to write the event.                                        *)
(***************************************************************************)
LastOf(s, otherwise) == IF s = <<>> THEN otherwise ELSE s[Len(s)]

TrailTellsState ==
  (\A r \in Requests : req[r] # Nil => req[r].step \notin Audits) =>
    /\ \A a \in Apps : <<"config", a>> \notin doubt /\ config[a] # Nil =>
         LastOf(trail[<<"config", a>>], DefaultConfig) = config[a]
    /\ \A f \in Functions : <<"function", f>> \notin doubt /\ fn[f] # Nil /\ fn[f].active =>
         LastOf(trail[<<"function", f>>], "activated") = "activated"

\* r goes on, and nothing it rests on has changed since it read it.
Fresh(r) == req[r] # Nil /\ ~req[r].stale /\ (req'[r] = Nil \/ req'[r].step # req[r].step)

(***************************************************************************)
(* What a request writes after its checks has been checked as a whole: the *)
(* vision mode fits the model, the provider has answered for the address   *)
(* and the secret that are stored together, and a playbook has the steps   *)
(* of one save.                                                            *)
(***************************************************************************)
SavesLeaveWhatTheyChecked ==
  [][\A r \in Requests : Fresh(r) =>
       /\ At(r, "update") /\ config' # config => Fits(config'[req[r].app])
       /\ At(r, "update_profile") /\ profile' # profile => profile'[req[r].id] = req[r].row
       /\ At(r, "insert_steps") /\ playbook' # playbook =>
            playbook'[req[r].app].steps = req[r].put]_vars

(***************************************************************************)
(* An app loses its provider profile only when its configuration is saved  *)
(* so: the profile's deletion is refused while an app uses it, except that *)
(* one may have come to use it since that was checked.                     *)
(***************************************************************************)
OnlySavesDetach ==
  [][\A a \in Apps :
       (config[a] # Nil /\ config'[a] # Nil /\ config[a].profile # Nil /\ config'[a].profile = Nil)
         => \E r \in Requests : At(r, "update") \/ (req[r] # Nil /\ req[r].stale)]_vars

(***************************************************************************)
(* The guide is called complete by a request that reads its steps one      *)
(* after the other: each of them was done at some moment since it began,   *)
(* whatever has happened since, and all of them are done at once, for the  *)
(* organization's target, unless one of the rows that it has read was      *)
(* written meanwhile.  In that case the organization may be complete       *)
(* although a key was revoked before the last function was registered.     *)
(***************************************************************************)
AllDone(a) == a \in apps /\ HasProfile /\ HasModel(a) /\ HasKey(a) /\ HasFunction(a)

CompletedWasEarned ==
  [][org'.done /\ ~org.done =>
       \E r \in Requests :
         /\ At(r, "complete") /\ req'[r] = Nil
         /\ met[r] = GuideSteps
         /\ req[r].stale \/ AllDone(org'.target)]_vars
=============================================================================
