--------------------------- MODULE AppSetupProofs ---------------------------
(***************************************************************************)
(* Proofs about AppSetup, for any number of apps, profiles, keys,          *)
(* functions, requests under way and arrivals.                             *)
(***************************************************************************)
EXTENDS AppSetup, SequenceTheorems, WellFoundedInduction, TLAPS

-----------------------------------------------------------------------------
(* Records with a body laid over them. *)

\* A body of PUT /config gives some of the three fields.
LEMMA PartsOfConfig ==
  ASSUME NEW put \in Parts(Config)
  PROVE  \E S \in SUBSET {"profile", "model", "vision"}, d \in Config : put = [f \in S |-> d[f]]
<1>1. PICK S \in SUBSET DOMAIN (CHOOSE e \in Config : TRUE), d \in Config : put = [f \in S |-> d[f]]
  BY DEF Parts
<1>2. DOMAIN (CHOOSE e \in Config : TRUE) = {"profile", "model", "vision"}
  BY <1>1 DEF Config
<1>3. QED
  BY <1>1, <1>2

\* A configuration with a body laid over it is a configuration.
LEMMA OverConfig ==
  ASSUME NEW put \in Parts(Config), NEW row \in Config
  PROVE  Over(put, row) \in Config
<1>1. PICK S \in SUBSET {"profile", "model", "vision"}, d \in Config : put = [f \in S |-> d[f]]
  BY PartsOfConfig
<1>2. DOMAIN put = S /\ DOMAIN row = {"profile", "model", "vision"}
  BY <1>1 DEF Config
<1>3. Over(put, row) = [f \in {"profile", "model", "vision"} |-> IF f \in S THEN d[f] ELSE row[f]]
  BY <1>1, <1>2 DEF Over
<1>4. QED
  BY <1>3 DEF Config

\* A body of PATCH /llm-profiles gives the address, the secret, both or none.
LEMMA PartsOfProvider ==
  ASSUME NEW put \in Parts(Provider)
  PROVE  \E S \in SUBSET {"at", "secret"}, d \in Provider : put = [f \in S |-> d[f]]
<1>1. PICK S \in SUBSET DOMAIN (CHOOSE e \in Provider : TRUE), d \in Provider : put = [f \in S |-> d[f]]
  BY DEF Parts
<1>2. DOMAIN (CHOOSE e \in Provider : TRUE) = {"at", "secret"}
  BY <1>1 DEF Provider
<1>3. QED
  BY <1>1, <1>2

\* Laid over a row of Provider: a row again; and what PATCH writes of it, over the same
\* row, is all of it.
LEMMA OverProvider ==
  ASSUME NEW put \in Parts(Provider), NEW row \in Provider
  PROVE  /\ Over(put, row) \in Provider
         /\ Over([f \in {"at"} \union DOMAIN put |-> Over(put, row)[f]], row) = Over(put, row)
<1>1. PICK S \in SUBSET {"at", "secret"}, d \in Provider : put = [f \in S |-> d[f]]
  BY PartsOfProvider
<1>2. DOMAIN put = S /\ DOMAIN row = {"at", "secret"}
  BY <1>1 DEF Provider
<1> DEFINE new == Over(put, row)
           part == [f \in {"at"} \union DOMAIN put |-> new[f]]
<1>3. new = [f \in {"at", "secret"} |-> IF f \in S THEN d[f] ELSE row[f]]
  BY <1>1, <1>2 DEF Over
<1>4. new \in Provider
  BY <1>3 DEF Provider
<1>5. DOMAIN part = {"at"} \union S
  BY <1>2
<1>6. Over(part, row) = [f \in {"at", "secret"} |-> IF f \in {"at"} \union S THEN part[f] ELSE row[f]]
  BY <1>2, <1>5 DEF Over
<1>7. \A f \in {"at", "secret"} : (IF f \in {"at"} \union S THEN part[f] ELSE row[f]) = new[f]
  BY <1>2, <1>3
<1>8. Over(part, row) = new
  BY <1>3, <1>6, <1>7
<1>9. QED
  BY <1>4, <1>8

\* The write of PATCH, over whatever row is there by now.
LEMMA OverProviderPart ==
  ASSUME NEW put \in Parts(Provider), NEW new \in Provider, NEW row \in Provider
  PROVE  Over([f \in {"at"} \union DOMAIN put |-> new[f]], row) \in Provider
<1>1. PICK S \in SUBSET {"at", "secret"}, d \in Provider : put = [f \in S |-> d[f]]
  BY PartsOfProvider
<1>2. DOMAIN put = S /\ DOMAIN row = {"at", "secret"}
  BY <1>1 DEF Provider
<1> DEFINE part == [f \in {"at"} \union DOMAIN put |-> new[f]]
<1>3. DOMAIN part = {"at"} \union S
  BY <1>2
<1>4. Over(part, row) =
        [f \in {"at", "secret"} |-> IF f \in {"at"} \union S THEN new[f] ELSE row[f]]
  BY <1>2, <1>3 DEF Over
<1>5. QED
  BY <1>4 DEF Provider

\* getOrCreateConfig's row is a configuration, and its mode fits its model.
LEMMA DefaultIsConfig == DefaultConfig \in Config /\ Fits(DefaultConfig)
BY DEF DefaultConfig, Config, Fits

-----------------------------------------------------------------------------
(* Rows and requests. *)

\* Rows of different tables are different.
LEMMA RowIs == \A t, u, x, S : <<t, x>> \in Row(u, S) <=> t = u /\ x \in S
BY DEF Row

\* A request at a step, as a record.
Typed(q) == q.step \in Step /\ q \in Request(q.step)

\* The request type of a step is one record type.
LEMMA TypedIsAsking ==
  ASSUME NEW q, Typed(q)
  PROVE  \E as, ids, puts, rows : Request(q.step) = Asking(as, ids, puts, rows)
                                  /\ q \in Asking(as, ids, puts, rows)
<1> DEFINE Found == \E as, ids, puts, rows : Request(q.step) = Asking(as, ids, puts, rows)
                                              /\ q \in Asking(as, ids, puts, rows)
<1>1. \/ Request(q.step) = Asking(Apps, {Nil}, Parts(Config), {Nil})
      \/ Request(q.step) = Asking(Apps, {Nil}, Parts(Config), Config)
      \/ Request(q.step) = Asking({Nil}, Profiles, {Nil}, Provider)
      \/ Request(q.step) = Asking({Nil}, Profiles, Parts(Provider), Provider)
      \/ Request(q.step) = Asking({Nil}, Profiles, {Nil}, {Nil})
      \/ Request(q.step) = Asking(Apps, Keys, {Nil}, {Nil})
      \/ Request(q.step) = Asking(Apps, Functions, BOOLEAN, BOOLEAN)
      \/ Request(q.step) = Asking(Apps, Functions, {FALSE}, {Nil})
      \/ Request(q.step) = Asking(Apps, {Nil}, SUBSET Functions, {Nil})
      \/ Request(q.step) = Asking(Apps, {Nil}, SUBSET Functions, Nat)
      \/ Request(q.step) = Asking({Nil}, {Nil}, {Nil}, OrgRow)
      \/ Request(q.step) = Asking(Apps \union {Nil}, {Nil}, {Nil}, OrgRow)
      \/ Request(q.step) = Asking(Apps, {Nil}, {Nil}, OrgRow)
  BY DEF Request
<1>2. ASSUME NEW as, NEW ids, NEW puts, NEW rows, Request(q.step) = Asking(as, ids, puts, rows)
      PROVE  Found
  BY <1>2, q \in Request(q.step), Zenon DEF Typed
<1> HIDE DEF Found
<1>3. Request(q.step) = Asking(Apps, {Nil}, Parts(Config), {Nil}) => Found
  BY <1>2
<1>4. Request(q.step) = Asking(Apps, {Nil}, Parts(Config), Config) => Found
  BY <1>2
<1>5. Request(q.step) = Asking({Nil}, Profiles, {Nil}, Provider) => Found
  BY <1>2
<1>6. Request(q.step) = Asking({Nil}, Profiles, Parts(Provider), Provider) => Found
  BY <1>2
<1>7. Request(q.step) = Asking({Nil}, Profiles, {Nil}, {Nil}) => Found
  BY <1>2
<1>8. Request(q.step) = Asking(Apps, Keys, {Nil}, {Nil}) => Found
  BY <1>2
<1>9. Request(q.step) = Asking(Apps, Functions, BOOLEAN, BOOLEAN) => Found
  BY <1>2
<1>10. Request(q.step) = Asking(Apps, Functions, {FALSE}, {Nil}) => Found
  BY <1>2
<1>11. Request(q.step) = Asking(Apps, {Nil}, SUBSET Functions, {Nil}) => Found
  BY <1>2
<1>12. Request(q.step) = Asking(Apps, {Nil}, SUBSET Functions, Nat) => Found
  BY <1>2
<1>13. Request(q.step) = Asking({Nil}, {Nil}, {Nil}, OrgRow) => Found
  BY <1>2
<1>14. Request(q.step) = Asking(Apps \union {Nil}, {Nil}, {Nil}, OrgRow) => Found
  BY <1>2
<1>15. Request(q.step) = Asking(Apps, {Nil}, {Nil}, OrgRow) => Found
  BY <1>2
<1>16. Found
  BY <1>1, <1>3, <1>4, <1>5, <1>6, <1>7, <1>8, <1>9, <1>10, <1>11, <1>12, <1>13, <1>14, <1>15
<1>17. QED
  BY <1>16 DEF Found

\* Marking a request as stale changes nothing else of it.
LEMMA StaleTyped ==
  ASSUME NEW q, Typed(q), NEW p, p = [q EXCEPT !.stale = TRUE]
  PROVE  /\ Typed(p)
         /\ p.step = q.step /\ p.app = q.app /\ p.id = q.id /\ p.put = q.put /\ p.row = q.row
         /\ p.watch = q.watch /\ p.stale = TRUE
<1>1. PICK as, ids, puts, rows : Request(q.step) = Asking(as, ids, puts, rows)
                                 /\ q \in Asking(as, ids, puts, rows)
  BY TypedIsAsking
<1>2. /\ p \in Asking(as, ids, puts, rows)
      /\ p.step = q.step /\ p.app = q.app /\ p.id = q.id /\ p.put = q.put /\ p.row = q.row
      /\ p.watch = q.watch /\ p.stale = TRUE
  BY <1>1 DEF Asking
<1>3. QED
  BY <1>1, <1>2 DEF Typed

\* A typed request is a request.
LEMMA TypedIsNotNil == ASSUME NEW q, Typed(q) PROVE q # Nil
BY NilAssumption DEF Typed

\* What is known of the fields of a request at each step.
LEMMA TypedFields ==
  ASSUME NEW q, Typed(q)
  PROVE  /\ q.stale \in BOOLEAN /\ q.watch \subseteq Rows
         /\ q.step \in {"create", "check", "update", "audit_config"} =>
              q.app \in Apps /\ q.put \in Parts(Config)
         /\ q.step \in {"check", "update", "audit_config"} => q.row \in Config
         /\ q.step \in {"create_profile", "update_profile"} => q.id \in Profiles /\ q.row \in Provider
         /\ q.step = "update_profile" => q.put \in Parts(Provider)
         /\ q.step = "delete_profile" => q.id \in Profiles
         /\ q.step = "revoke" => q.app \in Apps /\ q.id \in Keys
         /\ q.step \in {"patch", "audit_function", "switch_off"} => q.app \in Apps /\ q.id \in Functions
         /\ q.step \in {"patch", "audit_function"} => q.put \in BOOLEAN /\ q.row \in BOOLEAN
         /\ q.step \in {"delete_steps", "insert_steps"} => q.app \in Apps /\ q.put \subseteq Functions
         /\ q.step = "insert_steps" => q.row \in Nat
         /\ q.step \in {"reset", "read_org", "target"} => q.app = Nil
         /\ q.step \in {"target", "retarget"} => q.row \in OrgRow
         /\ q.step = "retarget" => q.app \in Apps \union {Nil}
         /\ q.step \in {"has_profile", "has_model", "has_key", "has_function", "complete"} => q.app \in Apps
<1>1. q.step \in Step /\ q \in Request(q.step)
  BY DEF Typed
<1>2. CASE q.step \in {"create"}
  BY <1>1, <1>2, q \in Asking(Apps, {Nil}, Parts(Config), {Nil}) DEF Request, Asking
<1>3. CASE q.step \in {"check", "update", "audit_config"}
  BY <1>1, <1>3, q \in Asking(Apps, {Nil}, Parts(Config), Config) DEF Request, Asking
<1>4. CASE q.step = "create_profile"
  BY <1>1, <1>4, q \in Asking({Nil}, Profiles, {Nil}, Provider) DEF Request, Asking
<1>5. CASE q.step = "update_profile"
  BY <1>1, <1>5, q \in Asking({Nil}, Profiles, Parts(Provider), Provider) DEF Request, Asking
<1>6. CASE q.step = "delete_profile"
  BY <1>1, <1>6, q \in Asking({Nil}, Profiles, {Nil}, {Nil}) DEF Request, Asking
<1>7. CASE q.step = "revoke"
  BY <1>1, <1>7, q \in Asking(Apps, Keys, {Nil}, {Nil}) DEF Request, Asking
<1>8. CASE q.step \in {"patch", "audit_function"}
  BY <1>1, <1>8, q \in Asking(Apps, Functions, BOOLEAN, BOOLEAN) DEF Request, Asking
<1>9. CASE q.step = "switch_off"
  BY <1>1, <1>9, q \in Asking(Apps, Functions, {FALSE}, {Nil}) DEF Request, Asking
<1>10. CASE q.step = "delete_steps"
  BY <1>1, <1>10, q \in Asking(Apps, {Nil}, SUBSET Functions, {Nil}) DEF Request, Asking
<1>11. CASE q.step = "insert_steps"
  BY <1>1, <1>11, q \in Asking(Apps, {Nil}, SUBSET Functions, Nat) DEF Request, Asking
<1>12. CASE q.step \in {"reset", "read_org", "target"}
  BY <1>1, <1>12, q \in Asking({Nil}, {Nil}, {Nil}, OrgRow) DEF Request, Asking
<1>13. CASE q.step = "retarget"
  BY <1>1, <1>13, q \in Asking(Apps \union {Nil}, {Nil}, {Nil}, OrgRow) DEF Request, Asking
<1>14. CASE q.step \in {"has_profile", "has_model", "has_key", "has_function", "complete"}
  BY <1>1, <1>14, q \in Asking(Apps, {Nil}, {Nil}, OrgRow) DEF Request, Asking
<1>15. QED
  BY <1>1, <1>2, <1>3, <1>4, <1>5, <1>6, <1>7, <1>8, <1>9, <1>10, <1>11, <1>12, <1>13, <1>14 DEF Step
-----------------------------------------------------------------------------
(* The invariant. *)

\* What a request has read and decided on, as long as it is not stale.
Holds(q) ==
  /\ q.step \in {"check", "update"} => config[q.app] = q.row
  /\ q.step = "audit_config" => config[q.app] # Nil /\ config[q.app] = Over(q.put, q.row)
  /\ q.step = "update_profile" => profile[q.id] # Nil /\ q.row = Over(q.put, profile[q.id])
  /\ q.step = "delete_profile" => Users(q.id) = {}
  /\ q.step = "patch" => fn[q.id] # Nil /\ fn[q.id].active = q.row
  /\ q.step = "audit_function" => fn[q.id] # Nil /\ fn[q.id].active = q.put
  /\ q.step = "insert_steps" => playbook[q.app].n = q.row
  /\ q.step \in {"target", "retarget"} => q.row = org
  /\ q.step = "retarget" => q.app = First(apps)
  /\ q.step \in AboutTheGuide => q.app = org.target /\ q.app \in apps
  /\ q.step \in AboutTheGuide \ {"has_profile"} => HasProfile
  /\ q.step \in {"has_key", "has_function", "complete"} => HasModel(q.app)
  /\ q.step \in {"has_function", "complete"} => HasKey(q.app)
  /\ q.step = "complete" => HasFunction(q.app)

\* The rows that a change of makes it stale.
Watches(q) ==
  /\ q.step \in {"create", "check", "update", "audit_config"} => <<"config", q.app>> \in q.watch
  /\ q.step \in {"create_profile", "update_profile"} => <<"profile", q.id>> \in q.watch
  /\ q.step = "delete_profile" => Row("config", Apps) \subseteq q.watch
  /\ q.step \in {"patch", "audit_function"} => <<"function", q.id>> \in q.watch
  /\ q.step \in {"delete_steps", "insert_steps"} => <<"playbook", q.app>> \in q.watch
  /\ q.step \in {"reset", "read_org", "target", "retarget"} \union AboutTheGuide =>
       Everything \subseteq q.watch

\* What holds of a request, stale or not: an update was checked as a whole, and a
\* function stays with its app.
Checked(q) ==
  /\ q.step = "update" => Fits(Over(q.put, q.row))
  /\ q.step \in {"patch", "audit_function"} /\ fn[q.id] # Nil => fn[q.id].app = q.app

Sound(q) == Watches(q) /\ Checked(q) /\ (~q.stale => Holds(q))

RequestsSound == \A r \in Requests : \A q : q = req[r] /\ q # Nil => Sound(q)

\* What may change of the tables when rows are written.
Changes(rows) ==
  /\ \A a \in Apps : <<"config", a>> \notin rows => config'[a] = config[a]
  /\ \A p \in Profiles : <<"profile", p>> \notin rows => profile'[p] = profile[p]
  /\ \A k \in Keys : <<"key", k>> \notin rows => key'[k] = key[k]
  /\ \A f \in Functions : <<"function", f>> \notin rows => fn'[f] = fn[f]
  /\ \A a \in Apps : <<"playbook", a>> \notin rows => playbook'[a] = playbook[a]
  /\ \A a \in Apps : <<"app", a>> \notin rows => (a \in apps' <=> a \in apps)
  /\ <<"org", Nil>> \notin rows => org' = org
  /\ \A f \in Functions : fn'[f] # Nil => fn[f] # Nil /\ fn'[f].app = fn[f].app

\* A request that has watched none of the rows may still rely on what it has read.
LEMMA HoldsOn ==
  ASSUME TablesOK, TablesOK', NEW rows, Changes(rows),
         NEW q, Typed(q), Watches(q), Holds(q), q.watch \cap rows = {}
  PROVE  Holds(q)'
<1> DEFINE guide == {"target", "retarget"} \union AboutTheGuide
<1>1. q.step \notin guide => Holds(q)'
  <2> SUFFICES ASSUME q.step \notin guide PROVE Holds(q)'
    OBVIOUS
  <2>1. q.step \in {"check", "update", "audit_config"} => q.app \in Apps /\ config'[q.app] = config[q.app]
    BY TypedFields DEF Watches, Changes
  <2>2. q.step = "update_profile" => profile'[q.id] = profile[q.id]
    BY TypedFields DEF Watches, Changes
  <2>3. q.step \in {"patch", "audit_function"} => fn'[q.id] = fn[q.id]
    BY TypedFields DEF Watches, Changes
  <2>4. q.step = "insert_steps" => playbook'[q.app] = playbook[q.app]
    BY TypedFields DEF Watches, Changes
  <2>5. q.step = "delete_profile" => Users(q.id)' = Users(q.id)
    <3>1. q.step = "delete_profile" => \A a \in Apps : <<"config", a>> \notin rows
      BY RowIs DEF Watches
    <3>2. QED
      BY <3>1 DEF Changes, Users
  <2>6. QED
    BY <2>1, <2>2, <2>3, <2>4, <2>5 DEF Holds, AboutTheGuide
<1>2. q.step \in guide => Holds(q)'
  <2> SUFFICES ASSUME q.step \in guide PROVE Holds(q)'
    OBVIOUS
  <2>1. Everything \cap rows = {}
    BY DEF Watches
  <2>2. /\ org' = org
        /\ \A a \in Apps : config'[a] = config[a] /\ (a \in apps' <=> a \in apps)
        /\ \A p \in Profiles : profile'[p] = profile[p]
        /\ \A k \in Keys : key'[k] = key[k]
        /\ \A f \in Functions : fn'[f] = fn[f]
    <3>1. <<"org", Nil>> \in Everything
      BY DEF Everything
    <3>2. \A a \in Apps : <<"config", a>> \in Everything /\ <<"app", a>> \in Everything
      BY RowIs DEF Everything, Audited
    <3>3. \A p \in Profiles : <<"profile", p>> \in Everything
      BY RowIs DEF Everything
    <3>4. \A k \in Keys : <<"key", k>> \in Everything
      BY RowIs DEF Everything, Audited
    <3>5. \A f \in Functions : <<"function", f>> \in Everything
      BY RowIs DEF Everything, Audited
    <3>6. QED
      BY <2>1, <3>1, <3>2, <3>3, <3>4, <3>5 DEF Changes
  <2>3. apps' = apps
    BY <2>2 DEF TablesOK
  <2>4. HasProfile' = HasProfile
    BY <2>2 DEF HasProfile
  <2>5. \A a \in Apps : HasModel(a)' = HasModel(a)
    BY <2>2 DEF HasModel
  <2>6. DOMAIN key' = Keys /\ DOMAIN key = Keys /\ DOMAIN fn' = Functions /\ DOMAIN fn = Functions
    BY DEF TablesOK
  <2>7. \A a \in Apps : HasKey(a)' = HasKey(a)
    BY <2>2, <2>6 DEF HasKey, Of
  <2>8. \A a \in Apps : HasFunction(a)' = HasFunction(a)
    BY <2>2, <2>6 DEF HasFunction, Of
  <2>9. q.step \in AboutTheGuide => q.app \in Apps
    BY TypedFields DEF AboutTheGuide
  <2>10. QED
    BY <2>2, <2>3, <2>4, <2>5, <2>7, <2>8, <2>9 DEF Holds, AboutTheGuide, First
<1>3. QED
  BY <1>1, <1>2
\* Requests that others' writes make stale, or do not concern.
Touched(q, rows) ==
  IF q # Nil /\ q.watch \cap rows # {} THEN [q EXCEPT !.stale = TRUE] ELSE q

\* A write keeps every other request sound: it is marked stale, or all it has
\* read stays.
LEMMA OthersSound ==
  ASSUME TablesOK, TablesOK', NEW rows, Changes(rows),
         NEW q, q # Nil, Typed(q), Sound(q), NEW p, p = Touched(q, rows)
  PROVE  Typed(p) /\ Sound(p)'
<1>1. /\ Typed(p)
      /\ p.step = q.step /\ p.app = q.app /\ p.id = q.id /\ p.put = q.put /\ p.row = q.row
      /\ p.watch = q.watch
      /\ ~p.stale => p = q /\ q.watch \cap rows = {}
  BY StaleTyped DEF Touched
<1>2. Watches(p)'
  BY <1>1 DEF Sound, Watches
<1>3. Checked(p)'
  BY <1>1, TypedFields DEF Sound, Checked, Changes
<1>4. ~p.stale => Holds(p)'
  BY <1>1, HoldsOn DEF Sound
<1>5. QED
  BY <1>1, <1>2, <1>3, <1>4 DEF Sound

\* A step of r that writes rows, or none, and goes on with what is sound.
LEMMA RequestsStep ==
  ASSUME TypeOK, TablesOK', RequestsSound, NEW rows, Changes(rows), NEW r \in Requests,
         DOMAIN req' = Requests,
         \A s \in Requests \ {r} : req'[s] = Touched(req[s], rows),
         \A q : q = req'[r] /\ q # Nil => Typed(q) /\ Sound(q)'
  PROVE  TypeOK' /\ RequestsSound'
<1>1. ASSUME NEW s \in Requests, NEW p, p = req'[s], p # Nil PROVE Typed(p) /\ Sound(p)'
  <2>1. CASE s = r
    BY <1>1, <2>1
  <2>2. CASE s # r
    <3>1. PICK q : q = req[s]
      OBVIOUS
    <3>2. p = Touched(q, rows) /\ q # Nil
      BY <1>1, <2>2, <3>1 DEF Touched
    <3>3. Typed(q) /\ Sound(q)
      BY <3>1, <3>2 DEF TypeOK, Typed, RequestsSound
    <3>4. QED
      BY <3>2, <3>3, OthersSound DEF TypeOK
  <2>3. QED
    BY <2>1, <2>2
<1>2. \A s \in Requests : req'[s] # Nil => Typed(req'[s])
  BY <1>1
<1>3. TypeOK'
  BY <1>2 DEF TypeOK, Typed
<1>4. RequestsSound'
  BY <1>1 DEF RequestsSound
<1>5. QED
  BY <1>3, <1>4

\* What leaves the tables alone changes no row.
LEMMA NothingChanges ==
  ASSUME UNCHANGED <<apps, profile, config, key, fn, playbook, org>>
  PROVE  \A rows : Changes(rows)
BY DEF Changes

\* The same for a step that only reads.
LEMMA ReadStep ==
  ASSUME TypeOK, RequestsSound, UNCHANGED tables, NEW r \in Requests, NEW q,
         q # Nil => Typed(q) /\ Sound(q),
         req' = [req EXCEPT ![r] = q]
  PROVE  TypeOK' /\ RequestsSound'
<1>1. TablesOK' /\ Changes({})
  BY NothingChanges DEF tables, TypeOK, TablesOK
<1>2. Sound(q) => Sound(q)'
  BY DEF tables, Sound, Watches, Checked, Holds, Users, First, HasProfile, HasModel, HasKey, HasFunction,
         Of
<1>3. DOMAIN req' = Requests /\ req'[r] = q /\ \A s \in Requests \ {r} : req'[s] = Touched(req[s], {})
  BY DEF TypeOK, Touched
<1>4. QED
  BY <1>1, <1>2, <1>3, RequestsStep

\* The same for a step that writes.
LEMMA WriteStep ==
  ASSUME TypeOK, TablesOK', RequestsSound, NEW r \in Requests, NEW q, NEW rows,
         Write(r, q, rows), Changes(rows),
         q # Nil => Typed(q) /\ Sound(q)'
  PROVE  TypeOK' /\ RequestsSound'
<1>1. DOMAIN req' = Requests /\ req'[r] = q /\ \A s \in Requests \ {r} : req'[s] = Touched(req[s], rows)
  BY DEF Write, Touched
<1>2. QED
  BY <1>1, RequestsStep

\* The same for a change in one step: nobody goes on.
LEMMA WriteAtOnceStep ==
  ASSUME TypeOK, TablesOK', RequestsSound, NEW rows, WriteAtOnce(rows), Changes(rows)
  PROVE  TypeOK' /\ RequestsSound'
<1>1. DOMAIN req' = Requests /\ \A s \in Requests : req'[s] = Touched(req[s], rows)
  BY DEF WriteAtOnce, Touched
<1>2. ASSUME NEW r \in Requests PROVE TypeOK' /\ RequestsSound'
  <2>1. ASSUME NEW p, p = req'[r], p # Nil PROVE Typed(p) /\ Sound(p)'
    <3>1. PICK q : q = req[r]
      OBVIOUS
    <3>2. p = Touched(q, rows) /\ q # Nil
      BY <1>1, <2>1, <3>1 DEF Touched
    <3>3. Typed(q) /\ Sound(q)
      BY <3>1, <3>2 DEF TypeOK, Typed, RequestsSound
    <3>4. QED
      BY <3>2, <3>3, OthersSound DEF TypeOK
  <2>2. QED
    BY <1>1, <2>1, RequestsStep
<1>3. CASE Requests = {}
  BY <1>1, <1>3 DEF TypeOK, RequestsSound
<1>4. QED
  BY <1>2, <1>3
-----------------------------------------------------------------------------
(* Requests that arrive. *)

\* The rows that requests watch and routes write.
LEMMA RowsHold ==
  /\ \A a \in Apps : <<"app", a>> \in Rows /\ <<"config", a>> \in Rows /\ <<"playbook", a>> \in Rows
  /\ \A p \in Profiles \union {Nil} : <<"profile", p>> \in Rows
  /\ \A k \in Keys : <<"key", k>> \in Rows
  /\ \A f \in Functions : <<"function", f>> \in Rows
  /\ <<"org", Nil>> \in Rows
  /\ Row("config", Apps) \subseteq Rows /\ Everything \subseteq Rows
BY RowIs DEF Rows, Everything, Audited, Row

\* A request that arrives in a sound state leaves everything sound.
LEMMA ArriveStep ==
  ASSUME TypeOK, RequestsSound, NEW r \in Requests,
         NEW step, NEW a, NEW id, NEW put, NEW row, NEW watch,
         Arrive(r, step, a, id, put, row, watch),
         \A q : q = [step |-> step, app |-> a, id |-> id, put |-> put, row |-> row,
                     watch |-> watch, stale |-> FALSE] => Typed(q) /\ Sound(q)
  PROVE  TypeOK' /\ RequestsSound'
<1>1. PICK q : q = [step |-> step, app |-> a, id |-> id, put |-> put, row |-> row,
                    watch |-> watch, stale |-> FALSE]
  OBVIOUS
<1>2. Typed(q) /\ Sound(q) /\ req' = [req EXCEPT ![r] = q] /\ UNCHANGED tables
  BY <1>1 DEF Arrive
<1>3. QED
  BY <1>2, ReadStep

\* The arrival of GET or PUT /config.
LEMMA ConfigArrives ==
  ASSUME TypeOK, RequestsSound, NEW r \in Requests, NEW a \in Apps, NEW put \in Parts(Config),
         ConfigFind(r, a, put)
  PROVE  TypeOK' /\ RequestsSound'
<1>1. PICK watch : watch = {<<"app", a>>, <<"config", a>>} \union
                     (IF "profile" \in DOMAIN put THEN {<<"profile", put.profile>>} ELSE {})
  OBVIOUS
<1>2. "profile" \in DOMAIN put => put.profile \in Profiles \union {Nil}
  <2>1. PICK S \in SUBSET {"profile", "model", "vision"}, d \in Config : put = [f \in S |-> d[f]]
    BY PartsOfConfig
  <2>2. "profile" \in DOMAIN put => put.profile = d.profile
    BY <2>1
  <2>3. QED
    BY <2>2 DEF Config
<1>3. watch \subseteq Rows /\ <<"config", a>> \in watch
  BY <1>1, <1>2, RowsHold
<1>4. PICK row : row = config[a]
  OBVIOUS
<1>5. PICK step : step = IF config[a] = Nil THEN "create" ELSE "check"
  OBVIOUS
<1>6. Arrive(r, step, a, Nil, put, row, watch)
  BY <1>1, <1>4, <1>5 DEF ConfigFind
<1>7. ASSUME NEW q, q = [step |-> step, app |-> a, id |-> Nil, put |-> put, row |-> row,
                         watch |-> watch, stale |-> FALSE]
      PROVE  Typed(q) /\ Sound(q)
  <2>1. CASE config[a] = Nil
    <3>1. q \in Asking(Apps, {Nil}, Parts(Config), {Nil}) /\ q.step = "create"
      BY <1>3, <1>4, <1>5, <1>7, <2>1 DEF Asking, Step
    <3>2. Typed(q)
      BY <3>1 DEF Typed, Request, Step
    <3>3. Sound(q)
      BY <1>3, <1>7, <3>1 DEF Sound, Watches, Checked, Holds, AboutTheGuide
    <3>4. QED
      BY <3>2, <3>3
  <2>2. CASE config[a] # Nil
    <3>1. q \in Asking(Apps, {Nil}, Parts(Config), Config) /\ q.step = "check"
      BY <1>3, <1>4, <1>5, <1>7, <2>2 DEF Asking, Step, TypeOK, TablesOK
    <3>2. Typed(q)
      BY <3>1 DEF Typed, Request, Step
    <3>3. Sound(q)
      BY <1>3, <1>4, <1>7, <3>1 DEF Sound, Watches, Checked, Holds, AboutTheGuide
    <3>4. QED
      BY <3>2, <3>3
  <2>3. QED
    BY <2>1, <2>2
<1>8. QED
  BY <1>6, <1>7, ArriveStep

\* The arrivals at /llm-profiles.
LEMMA ProfileArrives ==
  ASSUME TypeOK, RequestsSound, NEW r \in Requests, NEW p \in Profiles
  PROVE  /\ \A provider \in Provider : ProfileTest(r, p, provider) => TypeOK' /\ RequestsSound'
         /\ \A given \in Parts(Provider) : ProfileRetest(r, p, given) => TypeOK' /\ RequestsSound'
         /\ ProfileUnused(r, p) => TypeOK' /\ RequestsSound'
<1>1. ASSUME NEW provider \in Provider, ProfileTest(r, p, provider)
      PROVE  TypeOK' /\ RequestsSound'
  <2>1. ASSUME NEW q, q = [step |-> "create_profile", app |-> Nil, id |-> p, put |-> Nil,
                           row |-> provider, watch |-> {<<"profile", p>>}, stale |-> FALSE]
        PROVE  Typed(q) /\ Sound(q)
    <3>1. q \in Asking({Nil}, Profiles, {Nil}, Provider)
      BY <2>1, RowsHold DEF Asking, Step
    <3>2. Typed(q)
      BY <2>1, <3>1 DEF Typed, Request, Step
    <3>3. Sound(q)
      BY <2>1 DEF Sound, Watches, Checked, Holds, AboutTheGuide
    <3>4. QED
      BY <3>2, <3>3
  <2>2. QED
    BY <1>1, <2>1, ArriveStep DEF ProfileTest
<1>2. ASSUME NEW given \in Parts(Provider), ProfileRetest(r, p, given)
      PROVE  TypeOK' /\ RequestsSound'
  <2>1. PICK row : row = Over(given, profile[p])
    OBVIOUS
  <2>2. profile[p] \in Provider /\ row \in Provider
    BY <1>2, <2>1, OverProvider DEF ProfileRetest, TypeOK, TablesOK
  <2>3. ASSUME NEW q, q = [step |-> "update_profile", app |-> Nil, id |-> p, put |-> given,
                           row |-> row, watch |-> {<<"profile", p>>}, stale |-> FALSE]
        PROVE  Typed(q) /\ Sound(q)
    <3>1. q \in Asking({Nil}, Profiles, Parts(Provider), Provider)
      BY <2>2, <2>3, RowsHold DEF Asking, Step
    <3>2. Typed(q)
      BY <2>3, <3>1 DEF Typed, Request, Step
    <3>3. Sound(q)
      BY <1>2, <2>1, <2>3 DEF Sound, Watches, Checked, Holds, AboutTheGuide, ProfileRetest
    <3>4. QED
      BY <3>2, <3>3
  <2>4. Arrive(r, "update_profile", Nil, p, given, row, {<<"profile", p>>})
    BY <1>2, <2>1 DEF ProfileRetest
  <2>5. QED
    BY <2>3, <2>4, ArriveStep
<1>3. ASSUME ProfileUnused(r, p) PROVE TypeOK' /\ RequestsSound'
  <2>1. ASSUME NEW q, q = [step |-> "delete_profile", app |-> Nil, id |-> p, put |-> Nil,
                           row |-> Nil, watch |-> Row("config", Apps), stale |-> FALSE]
        PROVE  Typed(q) /\ Sound(q)
    <3>1. q \in Asking({Nil}, Profiles, {Nil}, {Nil})
      BY <2>1, RowsHold DEF Asking, Step
    <3>2. Typed(q)
      BY <2>1, <3>1 DEF Typed, Request, Step
    <3>3. Sound(q)
      BY <1>3, <2>1 DEF Sound, Watches, Checked, Holds, AboutTheGuide, ProfileUnused
    <3>4. QED
      BY <3>2, <3>3
  <2>2. QED
    BY <1>3, <2>1, ArriveStep DEF ProfileUnused
<1>4. QED
  BY <1>1, <1>2, <1>3
\* The arrivals at keys, functions and playbooks.
LEMMA ChangeArrives ==
  ASSUME TypeOK, RequestsSound, NEW r \in Requests
  PROVE  /\ \A k \in Keys : RevokeRead(r, k) => TypeOK' /\ RequestsSound'
         /\ \A f \in Functions, active \in BOOLEAN :
              FunctionRead(r, f, active) => TypeOK' /\ RequestsSound'
         /\ \A f \in Functions : SwitchOffRead(r, f) => TypeOK' /\ RequestsSound'
         /\ \A a \in Apps, steps \in SUBSET Functions :
              StepsCheck(r, a, steps) => TypeOK' /\ RequestsSound'
<1>1. ASSUME NEW k \in Keys, RevokeRead(r, k) PROVE TypeOK' /\ RequestsSound'
  <2>1. PICK a : a = key[k].app
    OBVIOUS
  <2>2. a \in Apps /\ Arrive(r, "revoke", a, k, Nil, Nil, {<<"key", k>>})
    BY <1>1, <2>1 DEF RevokeRead, TypeOK, TablesOK, OfApp
  <2>3. ASSUME NEW q, q = [step |-> "revoke", app |-> a, id |-> k, put |-> Nil, row |-> Nil,
                           watch |-> {<<"key", k>>}, stale |-> FALSE]
        PROVE  Typed(q) /\ Sound(q)
    <3>1. q \in Asking(Apps, Keys, {Nil}, {Nil})
      BY <2>2, <2>3, RowsHold DEF Asking, Step
    <3>2. Typed(q)
      BY <2>3, <3>1 DEF Typed, Request, Step
    <3>3. Sound(q)
      BY <2>3 DEF Sound, Watches, Checked, Holds, AboutTheGuide
    <3>4. QED
      BY <3>2, <3>3
  <2>4. QED
    BY <2>2, <2>3, ArriveStep
<1>2. ASSUME NEW f \in Functions, NEW active \in BOOLEAN, FunctionRead(r, f, active)
      PROVE  TypeOK' /\ RequestsSound'
  <2>1. PICK a : a = fn[f].app
    OBVIOUS
  <2>2. PICK row : row = fn[f].active
    OBVIOUS
  <2>3. fn[f] # Nil /\ a \in Apps /\ row \in BOOLEAN
    BY <1>2, <2>1, <2>2 DEF FunctionRead, TypeOK, TablesOK, OfApp
  <2>4. Arrive(r, "patch", a, f, active, row, {<<"function", f>>})
    BY <1>2, <2>1, <2>2 DEF FunctionRead
  <2>5. ASSUME NEW q, q = [step |-> "patch", app |-> a, id |-> f, put |-> active, row |-> row,
                           watch |-> {<<"function", f>>}, stale |-> FALSE]
        PROVE  Typed(q) /\ Sound(q)
    <3>1. q \in Asking(Apps, Functions, BOOLEAN, BOOLEAN)
      BY <2>3, <2>5, RowsHold DEF Asking, Step
    <3>2. Typed(q)
      BY <2>5, <3>1 DEF Typed, Request, Step
    <3>3. q.step = "patch" /\ q.id = f /\ q.app = fn[f].app /\ q.watch = {<<"function", f>>}
      BY <2>1, <2>5
    <3>4. q.row = fn[f].active
      BY <2>2, <2>5
    <3>5. Sound(q)
      BY <2>3, <3>3, <3>4 DEF Sound, Watches, Checked, Holds, AboutTheGuide
    <3>6. QED
      BY <3>2, <3>5
  <2>6. QED
    BY <2>4, <2>5, ArriveStep
<1>3. ASSUME NEW f \in Functions, SwitchOffRead(r, f) PROVE TypeOK' /\ RequestsSound'
  <2>1. PICK a : a = fn[f].app
    OBVIOUS
  <2>2. a \in Apps /\ Arrive(r, "switch_off", a, f, FALSE, Nil, {<<"function", f>>})
    BY <1>3, <2>1 DEF SwitchOffRead, TypeOK, TablesOK, OfApp
  <2>3. ASSUME NEW q, q = [step |-> "switch_off", app |-> a, id |-> f, put |-> FALSE, row |-> Nil,
                           watch |-> {<<"function", f>>}, stale |-> FALSE]
        PROVE  Typed(q) /\ Sound(q)
    <3>1. q \in Asking(Apps, Functions, {FALSE}, {Nil})
      BY <2>2, <2>3, RowsHold DEF Asking, Step
    <3>2. Typed(q)
      BY <2>3, <3>1 DEF Typed, Request, Step
    <3>3. Sound(q)
      BY <2>3 DEF Sound, Watches, Checked, Holds, AboutTheGuide
    <3>4. QED
      BY <3>2, <3>3
  <2>4. QED
    BY <2>2, <2>3, ArriveStep
<1>4. ASSUME NEW a \in Apps, NEW steps \in SUBSET Functions, StepsCheck(r, a, steps)
      PROVE  TypeOK' /\ RequestsSound'
  <2>1. ASSUME NEW q, q = [step |-> "delete_steps", app |-> a, id |-> Nil, put |-> steps, row |-> Nil,
                           watch |-> {<<"app", a>>, <<"playbook", a>>}, stale |-> FALSE]
        PROVE  Typed(q) /\ Sound(q)
    <3>1. q \in Asking(Apps, {Nil}, SUBSET Functions, {Nil})
      BY <2>1, RowsHold DEF Asking, Step
    <3>2. Typed(q)
      BY <2>1, <3>1 DEF Typed, Request, Step
    <3>3. Sound(q)
      BY <2>1 DEF Sound, Watches, Checked, Holds, AboutTheGuide
    <3>4. QED
      BY <3>2, <3>3
  <2>2. QED
    BY <1>4, <2>1, ArriveStep DEF StepsCheck
<1>5. QED
  BY <1>1, <1>2, <1>3, <1>4

\* The arrivals at the onboarding guide.
LEMMA LookArrives ==
  ASSUME TypeOK, RequestsSound, NEW r \in Requests, Resolve(r) \/ Reset(r)
  PROVE  TypeOK' /\ RequestsSound'
<1>1. PICK row : row = org
  OBVIOUS
<1>2. row \in OrgRow
  BY <1>1 DEF TypeOK, TablesOK
<1>3. ASSUME NEW step \in {"target", "reset"}, NEW q,
             q = [step |-> step, app |-> Nil, id |-> Nil, put |-> Nil, row |-> row,
                  watch |-> Everything, stale |-> FALSE]
      PROVE  Typed(q) /\ Sound(q)
  <2>1. q \in Asking({Nil}, {Nil}, {Nil}, OrgRow)
    BY <1>2, <1>3, RowsHold DEF Asking, Step
  <2>2. Typed(q)
    BY <1>3, <2>1 DEF Typed, Request, Step
  <2>3. Sound(q)
    BY <1>1, <1>3 DEF Sound, Watches, Checked, Holds, AboutTheGuide
  <2>4. QED
    BY <2>2, <2>3
<1>4. \E step \in {"target", "reset"} : Arrive(r, step, Nil, Nil, Nil, row, Everything)
  BY <1>1 DEF Resolve, Reset
<1>5. QED
  BY <1>3, <1>4, ArriveStep

\* Whatever arrives, nothing is written and requests are sound.
LEMMA ArrivalStep ==
  ASSUME TypeOK, RequestsSound, NEW r \in Requests, Arrival(r)
  PROVE  TypeOK' /\ RequestsSound' /\ UNCHANGED tables
<1>1. TypeOK' /\ RequestsSound'
  BY ConfigArrives, ProfileArrives, ChangeArrives, LookArrives DEF Arrival
<1>2. UNCHANGED tables
  BY DEF Arrival, ConfigFind, ProfileTest, ProfileRetest, ProfileUnused, RevokeRead, FunctionRead,
         SwitchOffRead, StepsCheck, Resolve, Reset, Arrive
<1>3. QED
  BY <1>1, <1>2
-----------------------------------------------------------------------------
(* Requests that go on without a write. *)

\* What is known of a request that is at a step.
LEMMA RequestAt ==
  ASSUME TypeOK, RequestsSound, NEW r \in Requests, NEW step, At(r, step)
  PROVE  \E q : q = req[r] /\ q # Nil /\ Typed(q) /\ Sound(q) /\ q.step = step
<1>1. PICK q : q = req[r]
  OBVIOUS
<1>2. q # Nil /\ q.step = step
  BY <1>1 DEF At
<1>3. QED
  BY <1>1, <1>2 DEF TypeOK, Typed, RequestsSound

\* The other fields of a request that goes to another step.
LEMMA ThenFields ==
  ASSUME NEW q, NEW as, NEW ids, NEW puts, NEW rows, q \in Asking(as, ids, puts, rows),
         NEW step \in Step, NEW p, p = [q EXCEPT !.step = step]
  PROVE  /\ p \in Asking(as, ids, puts, rows)
         /\ p.step = step /\ p.app = q.app /\ p.id = q.id /\ p.put = q.put /\ p.row = q.row
         /\ p.watch = q.watch /\ p.stale = q.stale
BY DEF Asking

\* An early return.
LEMMA RefuseStep ==
  ASSUME TypeOK, RequestsSound, NEW r \in Requests, Refuse(r)
  PROVE  TypeOK' /\ RequestsSound'
BY ReadStep DEF Refuse, Goto

\* updateConfigWithAudit's checks: what goes on fits.
LEMMA ConfigCheckStep ==
  ASSUME TypeOK, RequestsSound, NEW r \in Requests, ConfigCheck(r)
  PROVE  TypeOK' /\ RequestsSound'
<1>1. PICK q : q = req[r] /\ q # Nil /\ Typed(q) /\ Sound(q) /\ q.step = "check"
  BY RequestAt DEF ConfigCheck
<1>2. CASE Refuse(r)
  BY <1>2, RefuseStep
<1>3. CASE Fits(Planned(r)) /\ Goto(r, Then(r, "update"))
  <2>1. PICK p : p = [q EXCEPT !.step = "update"]
    OBVIOUS
  <2>2. q \in Asking(Apps, {Nil}, Parts(Config), Config)
    BY <1>1 DEF Typed, Request
  <2>3. /\ p \in Asking(Apps, {Nil}, Parts(Config), Config)
        /\ p.step = "update" /\ p.app = q.app /\ p.id = q.id /\ p.put = q.put /\ p.row = q.row
        /\ p.watch = q.watch /\ p.stale = q.stale
    BY <2>1, <2>2, ThenFields DEF Step
  <2>4. Typed(p)
    BY <2>3 DEF Typed, Request, Step
  <2>5. Fits(Over(q.put, q.row))
    BY <1>1, <1>3 DEF Planned
  <2>6. Sound(p)
    BY <1>1, <2>3, <2>5 DEF Sound, Watches, Checked, Holds, AboutTheGuide
  <2>7. req' = [req EXCEPT ![r] = p] /\ UNCHANGED tables
    BY <1>1, <1>3, <2>1 DEF Goto, Then
  <2>8. QED
    BY <2>4, <2>6, <2>7, ReadStep
<1>4. QED
  BY <1>2, <1>3 DEF ConfigCheck, Acceptable

\* A playbook's old steps are deleted.
LEMMA StepsDeleteStep ==
  ASSUME TypeOK, RequestsSound, NEW r \in Requests, StepsDelete(r)
  PROVE  TypeOK' /\ RequestsSound'
<1>1. PICK q : q = req[r] /\ q # Nil /\ Typed(q) /\ Sound(q) /\ q.step = "delete_steps"
  BY RequestAt DEF StepsDelete
<1>2. PICK n : n = playbook[q.app].n
  OBVIOUS
<1>3. PICK p : p = [[q EXCEPT !.step = "insert_steps"] EXCEPT !.row = n]
  OBVIOUS
<1>4. q \in Asking(Apps, {Nil}, SUBSET Functions, {Nil})
  BY <1>1 DEF Typed, Request
<1>5. n \in Nat
  BY <1>2, <1>4 DEF Asking, TypeOK, TablesOK
<1>6. /\ p \in Asking(Apps, {Nil}, SUBSET Functions, Nat)
      /\ p.step = "insert_steps" /\ p.app = q.app /\ p.put = q.put /\ p.row = n
      /\ p.watch = q.watch /\ p.stale = q.stale
  BY <1>3, <1>4, <1>5 DEF Asking, Step
<1>7. Typed(p)
  BY <1>6 DEF Typed, Request, Step
<1>8. Sound(p)
  BY <1>1, <1>2, <1>6 DEF Sound, Watches, Checked, Holds, AboutTheGuide
<1>9. req' = [req EXCEPT ![r] = p] /\ UNCHANGED tables
  BY <1>1, <1>2, <1>3 DEF StepsDelete, Goto, Then
<1>10. QED
  BY <1>7, <1>8, <1>9, ReadStep

\* The guide reads the organization.
LEMMA ReadOrgStep ==
  ASSUME TypeOK, RequestsSound, NEW r \in Requests, ReadOrg(r)
  PROVE  TypeOK' /\ RequestsSound'
<1>1. PICK q : q = req[r] /\ q # Nil /\ Typed(q) /\ Sound(q) /\ q.step = "read_org"
  BY RequestAt DEF ReadOrg
<1>2. PICK row : row = org
  OBVIOUS
<1>3. PICK p : p = [[q EXCEPT !.step = "target"] EXCEPT !.row = row]
  OBVIOUS
<1>4. q \in Asking({Nil}, {Nil}, {Nil}, OrgRow) /\ row \in OrgRow
  BY <1>1, <1>2 DEF Typed, Request, TypeOK, TablesOK
<1>5. /\ p \in Asking({Nil}, {Nil}, {Nil}, OrgRow)
      /\ p.step = "target" /\ p.row = row /\ p.watch = q.watch /\ p.stale = q.stale
  BY <1>3, <1>4 DEF Asking, Step
<1>6. Typed(p)
  BY <1>5 DEF Typed, Request, Step
<1>7. Sound(p)
  BY <1>1, <1>2, <1>5 DEF Sound, Watches, Checked, Holds, AboutTheGuide
<1>8. req' = [req EXCEPT ![r] = p] /\ UNCHANGED tables
  BY <1>1, <1>2, <1>3 DEF ReadOrg, Goto, Then
<1>9. QED
  BY <1>6, <1>7, <1>8, ReadStep

\* The oldest app is one of the apps, if there is one.
LEMMA FirstIsOne == ASSUME apps \subseteq Apps PROVE First(apps) \in apps \union {Nil}
<1>1. CASE apps = {}
  BY <1>1 DEF First
<1>2. CASE apps # {}
  <2>1. apps \subseteq Nat
    BY AppsAssumption
  <2>2. PICK a \in apps : \A b \in apps : <<b, a>> \notin OpToRel(<, Nat)
    BY <1>2, <2>1, WFMin, NatLessThanWellFounded
  <2>3. \A b \in apps : ~(b < a)
    BY <2>1, <2>2 DEF OpToRel
  <2>4. \A b \in apps : a <= b
    BY <2>1, <2>3
  <2>5. First(apps) \in apps
    BY <1>2, <2>4 DEF First
  <2>6. QED
    BY <2>5
<1>3. QED
  BY <1>1, <1>2

\* The guide looks for its app.
LEMMA FindTargetStep ==
  ASSUME TypeOK, RequestsSound, NEW r \in Requests, FindTarget(r)
  PROVE  TypeOK' /\ RequestsSound'
<1>1. PICK q : q = req[r] /\ q # Nil /\ Typed(q) /\ Sound(q) /\ q.step = "target"
  BY RequestAt DEF FindTarget
<1>2. q \in Asking({Nil}, {Nil}, {Nil}, OrgRow)
  BY <1>1 DEF Typed, Request
<1>3. CASE Goto(r, Nil)
  BY <1>3, RefuseStep DEF Refuse
<1>4. CASE q.row.target \in apps /\ Goto(r, [Then(r, "has_profile") EXCEPT !.app = q.row.target])
  <2>1. PICK a : a = q.row.target
    OBVIOUS
  <2>2. PICK p : p = [[q EXCEPT !.step = "has_profile"] EXCEPT !.app = a]
    OBVIOUS
  <2>3. a \in Apps /\ a \in apps
    BY <1>4, <2>1 DEF TypeOK, TablesOK
  <2>4. /\ p \in Asking(Apps, {Nil}, {Nil}, OrgRow)
        /\ p.step = "has_profile" /\ p.app = a /\ p.watch = q.watch /\ p.stale = q.stale
    BY <1>2, <2>2, <2>3 DEF Asking, Step
  <2>5. Typed(p)
    BY <2>4 DEF Typed, Request, Step
  <2>6. ~q.stale => a = org.target
    BY <1>1, <2>1 DEF Sound, Holds
  <2>7. Sound(p)
    BY <1>1, <2>3, <2>4, <2>6 DEF Sound, Watches, Checked, Holds, AboutTheGuide
  <2>8. req' = [req EXCEPT ![r] = p] /\ UNCHANGED tables
    BY <1>1, <1>4, <2>1, <2>2 DEF Goto, Then
  <2>9. QED
    BY <2>5, <2>7, <2>8, ReadStep
<1>5. CASE Goto(r, [Then(r, "retarget") EXCEPT !.app = First(apps)])
  <2>1. PICK a : a = First(apps)
    OBVIOUS
  <2>2. PICK p : p = [[q EXCEPT !.step = "retarget"] EXCEPT !.app = a]
    OBVIOUS
  <2>3. a \in Apps \union {Nil}
    BY <2>1, FirstIsOne DEF TypeOK, TablesOK
  <2>4. /\ p \in Asking(Apps \union {Nil}, {Nil}, {Nil}, OrgRow)
        /\ p.step = "retarget" /\ p.app = a /\ p.row = q.row /\ p.watch = q.watch
        /\ p.stale = q.stale
    BY <1>2, <2>2, <2>3 DEF Asking, Step
  <2>5. Typed(p)
    BY <2>4 DEF Typed, Request, Step
  <2>6. ~q.stale => q.row = org
    BY <1>1 DEF Sound, Holds
  <2>7. Sound(p)
    BY <1>1, <2>1, <2>4, <2>6 DEF Sound, Watches, Checked, Holds, AboutTheGuide
  <2>8. req' = [req EXCEPT ![r] = p] /\ UNCHANGED tables
    BY <1>1, <1>5, <2>1, <2>2 DEF Goto, Then
  <2>9. QED
    BY <2>5, <2>7, <2>8, ReadStep
<1>6. QED
  BY <1>1, <1>3, <1>4, <1>5 DEF FindTarget, Refuse

\* The guide has found a step done and looks at the next.
LEMMA LookStep ==
  ASSUME TypeOK, RequestsSound, NEW r \in Requests, NEW step \in AboutTheGuide, NEW found,
         NEW next \in AboutTheGuide, Look(r, step, found, next),
         \A q : q = req[r] /\ q.step = step /\ found /\ Holds(q)
                => /\ next # "has_profile" => HasProfile
                   /\ next \in {"has_key", "has_function", "complete"} => HasModel(q.app)
                   /\ next \in {"has_function", "complete"} => HasKey(q.app)
                   /\ next = "complete" => HasFunction(q.app)
  PROVE  TypeOK' /\ RequestsSound'
<1>1. PICK q : q = req[r] /\ q # Nil /\ Typed(q) /\ Sound(q) /\ q.step = step
  BY RequestAt DEF Look
<1>2. CASE Refuse(r)
  BY <1>2, RefuseStep
<1>3. CASE found /\ Goto(r, Then(r, next))
  <2>1. PICK p : p = [q EXCEPT !.step = next]
    OBVIOUS
  <2>2. q \in Asking(Apps, {Nil}, {Nil}, OrgRow)
    BY <1>1 DEF Typed, Request, AboutTheGuide
  <2>3. /\ p \in Asking(Apps, {Nil}, {Nil}, OrgRow)
        /\ p.step = next /\ p.app = q.app /\ p.row = q.row /\ p.watch = q.watch
        /\ p.stale = q.stale
    BY <2>1, <2>2, ThenFields DEF Step, AboutTheGuide
  <2>4. Typed(p)
    BY <2>3 DEF Typed, Request, Step, AboutTheGuide
  <2>5. Watches(p) /\ Checked(p)
    BY <1>1, <2>3 DEF Sound, Watches, Checked, AboutTheGuide
  <2>6. ~q.stale => Holds(q)
    BY <1>1 DEF Sound
  <2>7. Holds(q) => q.app = org.target /\ q.app \in apps
    BY <1>1 DEF Holds
  <2>8. ~p.stale => Holds(p)
    BY <1>1, <1>3, <2>3, <2>6, <2>7 DEF Holds, AboutTheGuide
  <2>9. Sound(p)
    BY <2>5, <2>8 DEF Sound
  <2>10. req' = [req EXCEPT ![r] = p] /\ UNCHANGED tables
    BY <1>1, <1>3, <2>1 DEF Goto, Then
  <2>11. QED
    BY <2>4, <2>9, <2>10, ReadStep
<1>4. QED
  BY <1>2, <1>3 DEF Look

\* The guide's queries, one after the other: what an earlier one found is
\* kept in mind.
LEMMA LookAroundStep ==
  ASSUME TypeOK, RequestsSound, NEW r \in Requests, LookAround(r)
  PROVE  TypeOK' /\ RequestsSound'
<1> USE DEF AboutTheGuide
<1>1. CASE Look(r, "has_profile", HasProfile, "has_model")
  BY <1>1, LookStep
<1>2. ASSUME NEW a \in Apps, req[r].app = a, Look(r, "has_model", HasModel(a), "has_key")
      PROVE  TypeOK' /\ RequestsSound'
  <2>1. \A q : q = req[r] /\ q.step = "has_model" /\ HasModel(a) /\ Holds(q)
                 => HasProfile /\ HasModel(q.app)
    BY <1>2 DEF Holds
  <2>2. QED
    BY <1>2, <2>1, LookStep
<1>3. ASSUME NEW a \in Apps, req[r].app = a, Look(r, "has_key", HasKey(a), "has_function")
      PROVE  TypeOK' /\ RequestsSound'
  <2>1. \A q : q = req[r] /\ q.step = "has_key" /\ HasKey(a) /\ Holds(q)
                 => HasProfile /\ HasModel(q.app) /\ HasKey(q.app)
    BY <1>3 DEF Holds
  <2>2. QED
    BY <1>3, <2>1, LookStep
<1>4. ASSUME NEW a \in Apps, req[r].app = a, Look(r, "has_function", HasFunction(a), "complete")
      PROVE  TypeOK' /\ RequestsSound'
  <2>1. \A q : q = req[r] /\ q.step = "has_function" /\ HasFunction(a) /\ Holds(q)
                 => HasProfile /\ HasModel(q.app) /\ HasKey(q.app) /\ HasFunction(q.app)
    BY <1>4 DEF Holds
  <2>2. QED
    BY <1>4, <2>1, LookStep
<1>5. QED
  BY <1>1, <1>2, <1>3, <1>4 DEF LookAround

-----------------------------------------------------------------------------
(* Requests that write. *)

\* Only the configuration of an app is written.
LEMMA ConfigChanges ==
  ASSUME TablesOK, NEW a \in Apps, NEW row \in Config \union {Nil},
         config' = [config EXCEPT ![a] = row],
         UNCHANGED <<apps, profile, key, fn, playbook, org, trail>>
  PROVE  /\ TablesOK' /\ Changes({<<"config", a>>}) /\ config'[a] = row
         /\ \A b \in Apps \ {a} : config'[b] = config[b]
<1>1. config'[a] = row /\ \A b \in Apps \ {a} : config'[b] = config[b]
  BY DEF TablesOK
<1>2. TablesOK'
  BY DEF TablesOK
<1>3. Changes({<<"config", a>>})
  BY <1>1 DEF Changes
<1>4. QED
  BY <1>1, <1>2, <1>3

\* The default configuration is stored.
LEMMA ConfigCreateStep ==
  ASSUME TypeOK, RequestsSound, NEW r \in Requests, ConfigCreate(r)
  PROVE  TypeOK' /\ RequestsSound'
<1>1. PICK q : q = req[r] /\ q # Nil /\ Typed(q) /\ Sound(q) /\ q.step = "create"
  BY RequestAt DEF ConfigCreate
<1>2. CASE Refuse(r)
  BY <1>2, RefuseStep
<1>3. CASE /\ config' = [config EXCEPT ![q.app] = DefaultConfig]
           /\ Write(r, IF q.put = <<>> THEN Nil
                       ELSE [Then(r, "check") EXCEPT !.row = DefaultConfig], {<<"config", q.app>>})
           /\ UNCHANGED <<apps, profile, key, fn, playbook, org, trail>>
  <2>1. PICK p : p = IF q.put = <<>> THEN Nil
                     ELSE [[q EXCEPT !.step = "check"] EXCEPT !.row = DefaultConfig]
    OBVIOUS
  <2>2. q \in Asking(Apps, {Nil}, Parts(Config), {Nil}) /\ q.app \in Apps
    BY <1>1 DEF Typed, Request, Asking
  <2>3. TablesOK' /\ Changes({<<"config", q.app>>}) /\ config'[q.app] = DefaultConfig
    BY <1>3, <2>2, DefaultIsConfig, ConfigChanges DEF TypeOK
  <2>4. ASSUME p # Nil PROVE Typed(p) /\ Sound(p)'
    <3>1. /\ p \in Asking(Apps, {Nil}, Parts(Config), Config)
          /\ p.step = "check" /\ p.app = q.app /\ p.row = DefaultConfig /\ p.watch = q.watch
      BY <2>1, <2>2, <2>4, DefaultIsConfig DEF Asking, Step
    <3>2. Typed(p)
      BY <3>1 DEF Typed, Request, Step
    <3>3. Sound(p)'
      BY <1>1, <2>3, <3>1 DEF Sound, Watches, Checked, Holds, AboutTheGuide
    <3>4. QED
      BY <3>2, <3>3
  <2>5. Write(r, p, {<<"config", q.app>>})
    BY <1>1, <1>3, <2>1 DEF Then
  <2>6. QED
    BY <2>3, <2>4, <2>5, WriteStep
<1>4. QED
  BY <1>1, <1>2, <1>3 DEF ConfigCreate

\* A checked configuration is stored; the one in the audit is the one stored.
LEMMA ConfigUpdateStep ==
  ASSUME TypeOK, RequestsSound, NEW r \in Requests, ConfigUpdate(r)
  PROVE  TypeOK' /\ RequestsSound'
<1>1. PICK q : q = req[r] /\ q # Nil /\ Typed(q) /\ Sound(q) /\ q.step = "update"
  BY RequestAt DEF ConfigUpdate
<1>2. CASE Refuse(r)
  BY <1>2, RefuseStep
<1>3. CASE /\ config[q.app] # Nil
           /\ config' = [config EXCEPT ![q.app] = Over(q.put, @)]
           /\ Write(r, IF Planned(r) = q.row THEN Nil ELSE Then(r, "audit_config"),
                    {<<"config", q.app>>})
           /\ UNCHANGED <<apps, profile, key, fn, playbook, org, trail>>
  <2>1. PICK p : p = IF Over(q.put, q.row) = q.row THEN Nil ELSE [q EXCEPT !.step = "audit_config"]
    OBVIOUS
  <2>2. q \in Asking(Apps, {Nil}, Parts(Config), Config) /\ q.app \in Apps /\ q.put \in Parts(Config)
    BY <1>1 DEF Typed, Request, Asking
  <2>3. PICK row : row = Over(q.put, config[q.app])
    OBVIOUS
  <2>4. row \in Config
    BY <1>3, <2>2, <2>3, OverConfig DEF TypeOK, TablesOK
  <2>5. config' = [config EXCEPT ![q.app] = row]
    BY <1>3, <2>2, <2>3 DEF TypeOK, TablesOK
  <2>6. TablesOK' /\ Changes({<<"config", q.app>>}) /\ config'[q.app] = row
    BY <1>3, <2>2, <2>4, <2>5, ConfigChanges DEF TypeOK
  <2>7. ASSUME p # Nil PROVE Typed(p) /\ Sound(p)'
    <3>1. /\ p \in Asking(Apps, {Nil}, Parts(Config), Config)
          /\ p.step = "audit_config" /\ p.app = q.app /\ p.put = q.put /\ p.row = q.row
          /\ p.watch = q.watch /\ p.stale = q.stale
      BY <2>1, <2>2, <2>7, ThenFields DEF Step
    <3>2. Typed(p)
      BY <3>1 DEF Typed, Request, Step
    <3>3. ~q.stale => config[q.app] = q.row
      BY <1>1 DEF Sound, Holds
    <3>4. ~q.stale => config'[q.app] = Over(q.put, q.row)
      BY <2>3, <2>6, <3>3
    <3>5. config'[q.app] # Nil
      BY <2>4, <2>6, NilAssumption
    <3>6. Sound(p)'
      BY <1>1, <3>1, <3>4, <3>5 DEF Sound, Watches, Checked, Holds, AboutTheGuide
    <3>7. QED
      BY <3>2, <3>6
  <2>8. Write(r, p, {<<"config", q.app>>})
    BY <1>1, <1>3, <2>1 DEF Then, Planned
  <2>9. QED
    BY <2>6, <2>7, <2>8, WriteStep
<1>4. QED
  BY <1>1, <1>2, <1>3 DEF ConfigUpdate

\* Only a profile is written.
LEMMA ProfileChanges ==
  ASSUME TablesOK, NEW p \in Profiles, NEW row \in Provider,
         profile' = [profile EXCEPT ![p] = row],
         UNCHANGED <<apps, config, key, fn, playbook, org, trail>>
  PROVE  TablesOK' /\ Changes({<<"profile", p>>}) /\ profile'[p] = row
<1>1. profile'[p] = row /\ \A s \in Profiles \ {p} : profile'[s] = profile[s]
  BY DEF TablesOK
<1>2. TablesOK'
  BY DEF TablesOK
<1>3. Changes({<<"profile", p>>})
  BY <1>1 DEF Changes
<1>4. QED
  BY <1>1, <1>2, <1>3

\* A profile is stored as it was tested.
LEMMA ProfileWriteStep ==
  ASSUME TypeOK, RequestsSound, NEW r \in Requests, ProfileCreate(r) \/ ProfileUpdate(r)
  PROVE  TypeOK' /\ RequestsSound'
<1>1. PICK q : /\ q = req[r] /\ q # Nil /\ Typed(q) /\ Sound(q)
               /\ q.step \in {"create_profile", "update_profile"}
  BY RequestAt DEF ProfileCreate, ProfileUpdate
<1>2. q.id \in Profiles /\ q.row \in Provider
  BY <1>1, TypedFields
<1>3. CASE Refuse(r)
  BY <1>3, RefuseStep
<1>4. ASSUME NEW row \in Provider, profile' = [profile EXCEPT ![q.id] = row],
             Write(r, Nil, {<<"profile", q.id>>}),
             UNCHANGED <<apps, config, key, fn, playbook, org, trail>>
      PROVE  TypeOK' /\ RequestsSound'
  <2>1. TablesOK' /\ Changes({<<"profile", q.id>>})
    BY <1>2, <1>4, ProfileChanges DEF TypeOK
  <2>2. QED
    BY <1>4, <2>1, WriteStep
<1>5. CASE ProfileCreate(r)
  BY <1>1, <1>2, <1>3, <1>4, <1>5 DEF ProfileCreate
<1>6. CASE ProfileUpdate(r) /\ profile[q.id] # Nil
  <2>1. q.put \in Parts(Provider)
    BY <1>1, <1>6, TypedFields DEF ProfileUpdate, At
  <2>2. PICK row : row = Over([f \in {"at"} \union DOMAIN q.put |-> q.row[f]], profile[q.id])
    OBVIOUS
  <2>3. row \in Provider
    BY <1>2, <1>6, <2>1, <2>2, OverProviderPart DEF TypeOK, TablesOK
  <2>4. /\ profile' = [profile EXCEPT ![q.id] = row] /\ Write(r, Nil, {<<"profile", q.id>>})
        /\ UNCHANGED <<apps, config, key, fn, playbook, org, trail>>
    BY <1>1, <1>2, <1>6, <2>2 DEF ProfileUpdate, TypeOK, TablesOK
  <2>5. QED
    BY <1>4, <2>3, <2>4
<1>7. CASE ProfileUpdate(r) /\ profile[q.id] = Nil
  BY <1>1, <1>3, <1>7 DEF ProfileUpdate
<1>8. QED
  BY <1>5, <1>6, <1>7

\* A profile goes, and the configurations that name it are changed.
LEMMA ProfileDeleteStep ==
  ASSUME TypeOK, RequestsSound, NEW r \in Requests, ProfileDelete(r)
  PROVE  TypeOK' /\ RequestsSound'
<1>1. PICK q : q = req[r] /\ q # Nil /\ Typed(q) /\ Sound(q) /\ q.step = "delete_profile"
  BY RequestAt DEF ProfileDelete
<1>2. q.id \in Profiles
  BY <1>1, TypedFields
<1>3. CASE Refuse(r)
  BY <1>3, RefuseStep
<1>4. CASE profile[q.id] # Nil
  <2>1. /\ profile' = [profile EXCEPT ![q.id] = Nil]
        /\ config' = [a \in Apps |-> IF a \in Users(q.id) THEN [config[a] EXCEPT !.profile = Nil]
                                     ELSE config[a]]
        /\ Write(r, Nil, {<<"profile", q.id>>} \union Row("config", Users(q.id)))
        /\ UNCHANGED <<apps, key, fn, playbook, org, trail>>
    BY <1>1, <1>4 DEF ProfileDelete
  <2>2. ASSUME NEW a \in Apps PROVE config'[a] \in Config \union {Nil}
    <3>1. CASE a \in Users(q.id)
      BY <2>1, <3>1 DEF Users, TypeOK, TablesOK, Config
    <3>2. CASE a \notin Users(q.id)
      BY <2>1, <3>2 DEF TypeOK, TablesOK
    <3>3. QED
      BY <3>1, <3>2
  <2>3. TablesOK'
    BY <2>1, <2>2 DEF TypeOK, TablesOK
  <2>4. \A a \in Apps : <<"config", a>> \notin Row("config", Users(q.id)) => config'[a] = config[a]
    BY <2>1, RowIs
  <2>5. \A p \in Profiles : p # q.id => profile'[p] = profile[p]
    BY <2>1, <1>2 DEF TypeOK, TablesOK
  <2>6. Changes({<<"profile", q.id>>} \union Row("config", Users(q.id)))
    BY <2>1, <2>4, <2>5 DEF Changes
  <2>7. QED
    BY <2>1, <2>3, <2>6, WriteStep
<1>5. QED
  BY <1>1, <1>3, <1>4 DEF ProfileDelete

\* Only a function is written, and stays with its app.
LEMMA FunctionChanges ==
  ASSUME TablesOK, NEW f \in Functions, fn[f] # Nil, NEW active \in BOOLEAN,
         fn' = [fn EXCEPT ![f].active = active],
         UNCHANGED <<apps, profile, config, key, playbook, org, trail>>
  PROVE  /\ TablesOK' /\ Changes({<<"function", f>>})
         /\ fn'[f] # Nil /\ fn'[f].active = active /\ fn'[f].app = fn[f].app
         /\ \A g \in Functions \ {f} : fn'[g] = fn[g]
<1>1. fn[f] \in OfApp
  BY DEF TablesOK
<1>2. PICK row : row = [fn[f] EXCEPT !.active = active]
  OBVIOUS
<1>3. row \in OfApp /\ row.active = active /\ row.app = fn[f].app
  BY <1>1, <1>2 DEF OfApp
<1>4. fn' = [fn EXCEPT ![f] = row]
  BY <1>2 DEF TablesOK
<1>5. fn'[f] = row /\ \A g \in Functions \ {f} : fn'[g] = fn[g]
  BY <1>4 DEF TablesOK
<1>6. TablesOK'
  BY <1>3, <1>4 DEF TablesOK
<1>7. row # Nil
  BY <1>3, NilAssumption
<1>8. Changes({<<"function", f>>})
  BY <1>3, <1>5 DEF Changes
<1>9. QED
  BY <1>3, <1>5, <1>6, <1>7, <1>8

\* A function is switched by PATCH.
LEMMA FunctionWriteStep ==
  ASSUME TypeOK, RequestsSound, NEW r \in Requests, FunctionWrite(r)
  PROVE  TypeOK' /\ RequestsSound'
<1>1. PICK q : q = req[r] /\ q # Nil /\ Typed(q) /\ Sound(q) /\ q.step = "patch"
  BY RequestAt DEF FunctionWrite
<1>2. q \in Asking(Apps, Functions, BOOLEAN, BOOLEAN)
  BY <1>1 DEF Typed, Request
<1>3. q.id \in Functions /\ q.put \in BOOLEAN
  BY <1>2 DEF Asking
<1>4. CASE Refuse(r)
  BY <1>4, RefuseStep
<1>5. CASE fn[q.id] # Nil
  <2>1. PICK p : p = IF q.row # q.put THEN [q EXCEPT !.step = "audit_function"] ELSE Nil
    OBVIOUS
  <2>2. /\ fn' = [fn EXCEPT ![q.id].active = q.put] /\ Write(r, p, {<<"function", q.id>>})
        /\ UNCHANGED <<apps, profile, config, key, playbook, org, trail>>
    BY <1>1, <1>5, <2>1 DEF FunctionWrite, Switch, Then
  <2>3. /\ TablesOK' /\ Changes({<<"function", q.id>>})
        /\ fn'[q.id] # Nil /\ fn'[q.id].active = q.put /\ fn'[q.id].app = fn[q.id].app
    BY <1>3, <1>5, <2>2, FunctionChanges DEF TypeOK
  <2>4. ASSUME p # Nil PROVE Typed(p) /\ Sound(p)'
    <3>1. /\ p \in Asking(Apps, Functions, BOOLEAN, BOOLEAN)
          /\ p.step = "audit_function" /\ p.app = q.app /\ p.id = q.id /\ p.put = q.put
          /\ p.watch = q.watch /\ p.stale = q.stale
      BY <1>2, <2>1, <2>4, ThenFields DEF Step
    <3>2. Typed(p)
      BY <3>1 DEF Typed, Request, Step
    <3>3. fn[q.id].app = q.app
      BY <1>1, <1>5 DEF Sound, Checked
    <3>4. fn'[p.id] # Nil /\ fn'[p.id].active = p.put /\ fn'[p.id].app = p.app
      BY <2>3, <3>1, <3>3
    <3>5. Sound(p)'
      BY <1>1, <3>1, <3>4 DEF Sound, Watches, Checked, Holds, AboutTheGuide
    <3>6. QED
      BY <3>2, <3>5
  <2>5. QED
    BY <2>2, <2>3, <2>4, WriteStep
<1>6. QED
  BY <1>1, <1>4, <1>5 DEF FunctionWrite, Switch

\* A function is switched off by DELETE.
LEMMA SwitchOffStep ==
  ASSUME TypeOK, RequestsSound, NEW r \in Requests, SwitchOff(r)
  PROVE  TypeOK' /\ RequestsSound'
<1>1. PICK q : q = req[r] /\ q # Nil /\ Typed(q) /\ Sound(q) /\ q.step = "switch_off"
  BY RequestAt DEF SwitchOff
<1>2. q.id \in Functions
  BY <1>1, TypedFields
<1>3. CASE Refuse(r)
  BY <1>3, RefuseStep
<1>4. CASE fn[q.id] # Nil
  <2>1. /\ fn' = [fn EXCEPT ![q.id].active = FALSE] /\ Write(r, Nil, {<<"function", q.id>>})
        /\ UNCHANGED <<apps, profile, config, key, playbook, org, trail>>
    BY <1>1, <1>4 DEF SwitchOff, Switch
  <2>2. TablesOK' /\ Changes({<<"function", q.id>>})
    BY <1>2, <1>4, <2>1, FunctionChanges DEF TypeOK
  <2>3. QED
    BY <2>1, <2>2, WriteStep
<1>5. QED
  BY <1>1, <1>3, <1>4 DEF SwitchOff, Switch

\* The rows of the trail: what they hold is of their kind.
TrailOK ==
  /\ DOMAIN trail = Audited
  /\ \A x \in Row("config", Apps) : trail[x] \in Seq(Config)
  /\ \A x \in Row("key", Keys) \union Row("function", Functions) : trail[x] \in Seq(Events)

\* An audit event goes to the end of one trail.
LEMMA RecordStep ==
  ASSUME TrailOK, NEW x \in Audited, NEW event, Record(x, event),
         x \in Row("config", Apps) => event \in Config,
         x \in Row("key", Keys) \union Row("function", Functions) => event \in Events
  PROVE  /\ TrailOK' /\ trail'[x] = Append(trail[x], event)
         /\ \A y \in Audited \ {x} : trail'[y] = trail[y]
<1>1. /\ DOMAIN trail' = Audited /\ trail'[x] = Append(trail[x], event)
      /\ \A y \in Audited \ {x} : trail'[y] = trail[y]
  BY DEF Record, TrailOK
<1>2. ASSUME NEW y \in Row("config", Apps) PROVE trail'[y] \in Seq(Config)
  BY <1>1, <1>2 DEF TrailOK, Audited
<1>3. ASSUME NEW y \in Row("key", Keys) \union Row("function", Functions)
      PROVE  trail'[y] \in Seq(Events)
  BY <1>1, <1>3 DEF TrailOK, Audited
<1>4. QED
  BY <1>1, <1>2, <1>3 DEF TrailOK

\* A key is revoked and the event written in one transaction.
LEMMA RevokeStep ==
  ASSUME TypeOK, RequestsSound, NEW r \in Requests, RevokeCommit(r)
  PROVE  TypeOK' /\ RequestsSound'
<1>1. PICK q : q = req[r] /\ q # Nil /\ Typed(q) /\ Sound(q) /\ q.step = "revoke"
  BY RequestAt DEF RevokeCommit
<1>2. PICK k \in Keys : k = q.id
  BY <1>1, TypedFields
<1>3. CASE Refuse(r)
  BY <1>3, RefuseStep
<1>4. CASE key[k] # Nil
  <2>1. /\ key' = [key EXCEPT ![k].active = FALSE] /\ Write(r, Nil, {<<"key", k>>})
        /\ Record(<<"key", k>>, "revoked")
        /\ UNCHANGED <<apps, profile, config, fn, playbook, org>>
    BY <1>1, <1>2, <1>4 DEF RevokeCommit
  <2>2. key[k] \in OfApp
    BY <1>4 DEF TypeOK, TablesOK
  <2>3. [key[k] EXCEPT !.active = FALSE] \in OfApp
    BY <2>2 DEF OfApp
  <2>4. key' \in [Keys -> OfApp \union {Nil}] /\ \A j \in Keys : j # k => key'[j] = key[j]
    BY <2>1, <2>3 DEF TypeOK, TablesOK
  <2>5. TablesOK'
    <3>1. PICK x : x = <<"key", k>>
      OBVIOUS
    <3>2. x \in Audited /\ x \in Row("key", Keys) /\ x \notin Row("config", Apps)
      BY <3>1, RowIs DEF Audited
    <3>3. TrailOK /\ Record(x, "revoked")
      BY <2>1, <3>1 DEF TypeOK, TablesOK, TrailOK
    <3>4. TrailOK'
      BY <3>2, <3>3, RecordStep DEF Events
    <3>5. QED
      BY <2>1, <2>4, <3>4 DEF TypeOK, TablesOK, TrailOK
  <2>6. Changes({<<"key", k>>})
    BY <2>1, <2>4 DEF Changes
  <2>7. QED
    BY <2>1, <2>5, <2>6, WriteStep
<1>5. QED
  BY <1>1, <1>2, <1>3, <1>4 DEF RevokeCommit

\* A playbook's new steps are stored.
LEMMA StepsInsertStep ==
  ASSUME TypeOK, RequestsSound, NEW r \in Requests, StepsInsert(r)
  PROVE  TypeOK' /\ RequestsSound'
<1>1. PICK q : q = req[r] /\ q # Nil /\ Typed(q) /\ Sound(q) /\ q.step = "insert_steps"
  BY RequestAt DEF StepsInsert
<1>2. q.app \in Apps /\ q.put \subseteq Functions
  BY <1>1, TypedFields
<1>3. CASE Refuse(r)
  BY <1>3, RefuseStep
<1>4. ASSUME NEW left, left = IF playbook[q.app].n = q.row THEN {} ELSE playbook[q.app].steps,
             playbook' = [playbook EXCEPT ![q.app] = [steps |-> left \union q.put, n |-> @.n + 1]],
             Write(r, Nil, {<<"playbook", q.app>>}),
             UNCHANGED <<apps, profile, config, key, fn, org, trail>>
      PROVE  TypeOK' /\ RequestsSound'
  <2>1. playbook[q.app] \in [steps : SUBSET Functions, n : Nat]
    BY <1>2 DEF TypeOK, TablesOK
  <2>2. left \subseteq Functions
    BY <1>4, <2>1
  <2>3. [steps |-> left \union q.put, n |-> playbook[q.app].n + 1] \in [steps : SUBSET Functions, n : Nat]
    BY <1>2, <2>1, <2>2
  <2>4. /\ playbook' \in [Apps -> [steps : SUBSET Functions, n : Nat]]
        /\ \A a \in Apps \ {q.app} : playbook'[a] = playbook[a]
    BY <1>2, <1>4, <2>3 DEF TypeOK, TablesOK
  <2>5. TablesOK' /\ Changes({<<"playbook", q.app>>})
    BY <1>4, <2>4 DEF TypeOK, TablesOK, Changes
  <2>6. QED
    BY <1>4, <2>5, WriteStep
<1>5. QED
  BY <1>1, <1>3, <1>4 DEF StepsInsert

\* Only the row of the organization is written.
LEMMA OrgChanges ==
  ASSUME TablesOK, org' \in OrgRow,
         UNCHANGED <<apps, profile, config, key, fn, playbook, trail>>
  PROVE  TablesOK' /\ Changes({<<"org", Nil>>})
BY DEF TablesOK, Changes

\* The guide is reset.
LEMMA ResetWriteStep ==
  ASSUME TypeOK, RequestsSound, NEW r \in Requests, ResetWrite(r)
  PROVE  TypeOK' /\ RequestsSound'
<1>1. PICK q : q = req[r] /\ q # Nil /\ Typed(q) /\ Sound(q) /\ q.step = "reset"
  BY RequestAt DEF ResetWrite
<1>2. PICK p : p = [q EXCEPT !.step = "read_org"]
  OBVIOUS
<1>3. q \in Asking({Nil}, {Nil}, {Nil}, OrgRow)
  BY <1>1 DEF Typed, Request
<1>4. /\ p \in Asking({Nil}, {Nil}, {Nil}, OrgRow)
      /\ p.step = "read_org" /\ p.watch = q.watch
  BY <1>2, <1>3, ThenFields DEF Step
<1>5. Typed(p)
  BY <1>4 DEF Typed, Request, Step
<1>6. Sound(p)'
  BY <1>1, <1>4 DEF Sound, Watches, Checked, Holds, AboutTheGuide, Everything
<1>7. TablesOK' /\ Changes({<<"org", Nil>>})
  BY OrgChanges DEF ResetWrite, OrgRow, TypeOK
<1>8. Write(r, p, {<<"org", Nil>>})
  BY <1>1, <1>2 DEF ResetWrite, Then
<1>9. QED
  BY <1>5, <1>6, <1>7, <1>8, WriteStep

\* The guide turns to another app.
LEMMA RetargetStep ==
  ASSUME TypeOK, RequestsSound, NEW r \in Requests, Retarget(r)
  PROVE  TypeOK' /\ RequestsSound'
<1>1. PICK q : q = req[r] /\ q # Nil /\ Typed(q) /\ Sound(q) /\ q.step = "retarget"
  BY RequestAt DEF Retarget
<1>2. q \in Asking(Apps \union {Nil}, {Nil}, {Nil}, OrgRow) /\ q.app \in Apps \union {Nil}
  BY <1>1 DEF Typed, Request, Asking
<1>3. PICK p : p = IF q.app = Nil \/ q.row.done THEN Nil ELSE [q EXCEPT !.step = "has_profile"]
  OBVIOUS
<1>4. org' \in OrgRow /\ org'.target = q.app
  BY <1>1, <1>2 DEF Retarget, TypeOK, TablesOK, OrgRow
<1>5. TablesOK' /\ Changes({<<"org", Nil>>})
  BY <1>4, OrgChanges DEF Retarget, TypeOK
<1>6. ASSUME p # Nil PROVE Typed(p) /\ Sound(p)'
  <2>1. q \in Asking(Apps, {Nil}, {Nil}, OrgRow) /\ q.app # Nil
    BY <1>2, <1>3, <1>6 DEF Asking
  <2>2. p = [q EXCEPT !.step = "has_profile"]
    BY <1>3, <1>6
  <2>3. /\ p \in Asking(Apps, {Nil}, {Nil}, OrgRow)
        /\ p.step = "has_profile" /\ p.app = q.app /\ p.watch = q.watch /\ p.stale = q.stale
    BY <2>1, <2>2, ThenFields DEF Step
  <2>4. Typed(p)
    BY <2>3 DEF Typed, Request, Step
  <2>5. ~q.stale => q.app = First(apps)
    BY <1>1 DEF Sound, Holds
  <2>6. ~q.stale => q.app \in apps'
    BY <2>1, <2>5, FirstIsOne DEF Retarget, TypeOK, TablesOK
  <2>7. Watches(p)' /\ Checked(p)'
    BY <1>1, <2>3 DEF Sound, Watches, Checked, AboutTheGuide, Everything
  <2>8. ~p.stale => Holds(p)'
    BY <1>4, <2>3, <2>6 DEF Holds, AboutTheGuide
  <2>9. QED
    BY <2>4, <2>7, <2>8 DEF Sound
<1>7. Write(r, p, {<<"org", Nil>>})
  BY <1>1, <1>3 DEF Retarget, Then
<1>8. QED
  BY <1>5, <1>6, <1>7, WriteStep

\* The guide is completed.
LEMMA CompleteStep ==
  ASSUME TypeOK, RequestsSound, NEW r \in Requests, Complete(r)
  PROVE  TypeOK' /\ RequestsSound'
<1>1. org' \in OrgRow
  BY DEF Complete, TypeOK, TablesOK, OrgRow
<1>2. TablesOK' /\ Changes({<<"org", Nil>>})
  BY <1>1, OrgChanges DEF Complete, TypeOK
<1>3. QED
  BY <1>2, WriteStep DEF Complete

\* An audit event is written, or the query fails.
LEMMA AuditStep ==
  ASSUME TypeOK, RequestsSound, NEW r \in Requests,
         ConfigAudit(r) \/ FunctionAudit(r) \/ LoseAudit(r)
  PROVE  TypeOK' /\ RequestsSound'
<1>1. PICK q : q = req[r] /\ q # Nil /\ Typed(q) /\ q.step \in Audits
  BY RequestAt DEF ConfigAudit, FunctionAudit, LoseAudit, At, Audits
<1>2. req' = [req EXCEPT ![r] = Nil] /\ UNCHANGED <<apps, profile, config, key, fn, playbook, org>>
  BY DEF ConfigAudit, FunctionAudit, LoseAudit, Audit, tables
<1>3. CASE UNCHANGED trail
  BY <1>2, <1>3, ReadStep DEF tables
<1>4. ASSUME NEW x \in Audited, NEW event, Record(x, event),
             x \in Row("config", Apps) => event \in Config,
             x \in Row("key", Keys) \union Row("function", Functions) => event \in Events
      PROVE  TypeOK' /\ RequestsSound'
  <2>1. TrailOK
    BY DEF TypeOK, TablesOK, TrailOK
  <2>2. TrailOK'
    BY <1>4, <2>1, RecordStep
  <2>3. TablesOK' /\ Changes({})
    BY <1>2, <2>2, NothingChanges DEF TypeOK, TablesOK, TrailOK
  <2>4. DOMAIN req' = Requests /\ req'[r] = Nil /\ \A s \in Requests \ {r} : req'[s] = Touched(req[s], {})
    BY <1>2 DEF TypeOK, Touched
  <2>5. QED
    BY <2>3, <2>4, RequestsStep
<1>5. CASE ConfigAudit(r) /\ trail' # trail
  <2>1. q.step = "audit_config"
    BY <1>1, <1>5 DEF ConfigAudit, At
  <2>2. q.app \in Apps /\ Over(q.put, q.row) \in Config
    BY <1>1, <2>1, TypedFields, OverConfig
  <2>3. PICK x : x = <<"config", q.app>>
    OBVIOUS
  <2>4. x \in Row("config", Apps) /\ x \in Audited /\ x \notin Row("key", Keys) \union Row("function", Functions)
    BY <2>2, <2>3, RowIs DEF Audited
  <2>5. Record(x, Over(q.put, q.row))
    BY <1>1, <1>5, <2>3 DEF ConfigAudit, Audit, Planned
  <2>6. QED
    BY <1>4, <2>2, <2>4, <2>5
<1>6. CASE FunctionAudit(r) /\ trail' # trail
  <2>1. q.step = "audit_function"
    BY <1>1, <1>6 DEF FunctionAudit, At
  <2>2. q.id \in Functions
    BY <1>1, <2>1, TypedFields
  <2>3. PICK x : x = <<"function", q.id>>
    OBVIOUS
  <2>4. x \in Row("function", Functions) /\ x \in Audited /\ x \notin Row("config", Apps)
    BY <2>2, <2>3, RowIs DEF Audited
  <2>5. \E event \in Events : Record(x, event)
    BY <1>1, <1>6, <2>3 DEF FunctionAudit, Audit, Events
  <2>6. QED
    BY <1>4, <2>4, <2>5
<1>7. QED
  BY <1>3, <1>5, <1>6 DEF LoseAudit, tables

\* Every query of a request in flight.
LEMMA ContinueStep ==
  ASSUME TypeOK, RequestsSound, NEW r \in Requests, Continue(r)
  PROVE  TypeOK' /\ RequestsSound'
BY ConfigCreateStep, ConfigCheckStep, ConfigUpdateStep, ProfileWriteStep, ProfileDeleteStep, RevokeStep,
   FunctionWriteStep, SwitchOffStep, StepsDeleteStep, StepsInsertStep, ResetWriteStep, ReadOrgStep,
   FindTargetStep, RetargetStep, LookAroundStep, CompleteStep, AuditStep DEF Continue

-----------------------------------------------------------------------------
(* Changes in the step in which they arrive. *)

\* An app is created.
LEMMA CreateAppStep ==
  ASSUME TypeOK, RequestsSound, NEW a \in Apps, CreateApp(a)
  PROVE  TypeOK' /\ RequestsSound'
<1>1. TablesOK' /\ Changes({<<"app", a>>})
  BY DEF CreateApp, TypeOK, TablesOK, Changes
<1>2. QED
  BY <1>1, WriteAtOnceStep DEF CreateApp

\* A key is created, with its event.
LEMMA CreateKeyStep ==
  ASSUME TypeOK, RequestsSound, NEW k \in Keys, NEW a \in Apps, CreateKey(k, a)
  PROVE  TypeOK' /\ RequestsSound'
<1>1. [app |-> a, active |-> TRUE] \in OfApp
  BY DEF OfApp
<1>2. key' \in [Keys -> OfApp \union {Nil}] /\ \A j \in Keys : j # k => key'[j] = key[j]
  BY <1>1 DEF CreateKey, TypeOK, TablesOK
<1>3. PICK x : x = <<"key", k>>
  OBVIOUS
<1>4. x \in Audited /\ x \in Row("key", Keys) /\ x \notin Row("config", Apps)
  BY <1>3, RowIs DEF Audited
<1>5. TrailOK /\ Record(x, "created")
  BY <1>3 DEF CreateKey, TypeOK, TablesOK, TrailOK
<1>6. TrailOK'
  BY <1>4, <1>5, RecordStep DEF Events
<1>7. TablesOK' /\ Changes({<<"key", k>>})
  BY <1>2, <1>6 DEF CreateKey, TypeOK, TablesOK, TrailOK, Changes
<1>8. QED
  BY <1>7, WriteAtOnceStep DEF CreateKey

\* What goes with an app: its rows, and what the trail tells of them.
Gone(a) ==
  {<<"config", a>>} \union Row("key", Of(a, key)) \union Row("function", Of(a, fn))

\* What DELETE of an app takes with it: its configuration, keys, functions
\* and trails.
LEMMA DeleteAppFacts ==
  ASSUME TypeOK, NEW a \in Apps, DeleteApp(a)
  PROVE  /\ apps' = apps \ {a} /\ config'[a] = Nil
         /\ \A b \in Apps \ {a} : config'[b] = config[b]
         /\ \A k \in Keys : key'[k] = IF k \in Of(a, key) THEN Nil ELSE key[k]
         /\ \A f \in Functions : fn'[f] = IF f \in Of(a, fn) THEN Nil ELSE fn[f]
         /\ \A x \in Audited : trail'[x] = IF x \in Gone(a) THEN <<>> ELSE trail[x]
         /\ WriteAtOnce(Gone(a) \union {<<"app", a>>, <<"playbook", a>>})
<1>1. PICK rows : rows = Gone(a)
  OBVIOUS
<1>2. /\ trail' = [x \in Audited |-> IF x \in rows THEN <<>> ELSE trail[x]]
      /\ WriteAtOnce(rows \union {<<"app", a>>, <<"playbook", a>>})
  BY <1>1 DEF DeleteApp, Gone
<1>3. /\ config' = [config EXCEPT ![a] = Nil] /\ apps' = apps \ {a}
      /\ key' = [k \in Keys |-> IF k \in Of(a, key) THEN Nil ELSE key[k]]
      /\ fn' = [f \in Functions |-> IF f \in Of(a, fn) THEN Nil ELSE fn[f]]
  BY DEF DeleteApp
<1>4. config'[a] = Nil /\ \A b \in Apps \ {a} : config'[b] = config[b]
  BY <1>3 DEF TypeOK, TablesOK
<1>5. \A x \in Audited : trail'[x] = IF x \in rows THEN <<>> ELSE trail[x]
  BY <1>2
<1>6. QED
  BY <1>1, <1>2, <1>3, <1>4, <1>5

\* An app is deleted, by cascade.
LEMMA DeleteAppStep ==
  ASSUME TypeOK, RequestsSound, NEW a \in Apps, DeleteApp(a)
  PROVE  TypeOK' /\ RequestsSound'
<1>1. playbook' = [playbook EXCEPT ![a].steps = {}]
  BY DEF DeleteApp
<1>2. playbook[a] \in [steps : SUBSET Functions, n : Nat]
  BY DEF TypeOK, TablesOK
<1>3. [playbook[a] EXCEPT !.steps = {}] \in [steps : SUBSET Functions, n : Nat]
  BY <1>2
<1>4. /\ playbook' \in [Apps -> [steps : SUBSET Functions, n : Nat]]
      /\ \A b \in Apps \ {a} : playbook'[b] = playbook[b]
  BY <1>1, <1>3 DEF TypeOK, TablesOK
<1>5. TrailOK'
  <2>1. DOMAIN trail' = Audited
    BY DEF DeleteApp
  <2>2. ASSUME NEW x \in Row("config", Apps) PROVE trail'[x] \in Seq(Config)
    <3>1. x \in Audited
      BY DEF Audited
    <3>2. trail[x] \in Seq(Config) /\ <<>> \in Seq(Config)
      BY DEF TypeOK, TablesOK
    <3>3. QED
      BY <3>1, <3>2, DeleteAppFacts
  <2>3. ASSUME NEW x \in Row("key", Keys) \union Row("function", Functions)
        PROVE  trail'[x] \in Seq(Events)
    <3>1. x \in Audited
      BY DEF Audited
    <3>2. trail[x] \in Seq(Events) /\ <<>> \in Seq(Events)
      BY DEF TypeOK, TablesOK
    <3>3. QED
      BY <3>1, <3>2, DeleteAppFacts
  <2>4. QED
    BY <2>1, <2>2, <2>3 DEF TrailOK
<1>6. TablesOK'
  <2>1. config' \in [Apps -> Config \union {Nil}]
    BY DEF DeleteApp, TypeOK, TablesOK
  <2>2. key' \in [Keys -> OfApp \union {Nil}]
    BY DEF DeleteApp, TypeOK, TablesOK
  <2>3. fn' \in [Functions -> OfApp \union {Nil}]
    BY DEF DeleteApp, TypeOK, TablesOK
  <2>4. apps' \subseteq Apps /\ UNCHANGED <<profile, org>>
    BY DEF DeleteApp, TypeOK, TablesOK
  <2>5. QED
    BY <1>4, <1>5, <2>1, <2>2, <2>3, <2>4 DEF TypeOK, TablesOK, TrailOK
<1>7. PICK rows : rows = Gone(a) \union {<<"app", a>>, <<"playbook", a>>}
  OBVIOUS
<1>8. Changes(rows)
  <2>1. <<"config", a>> \in rows /\ <<"app", a>> \in rows /\ <<"playbook", a>> \in rows
    BY <1>7 DEF Gone
  <2>2. \A k \in Of(a, key) : <<"key", k>> \in rows
    BY <1>7, RowIs DEF Gone
  <2>3. \A f \in Of(a, fn) : <<"function", f>> \in rows
    BY <1>7, RowIs DEF Gone
  <2>4. /\ \A k \in Keys : <<"key", k>> \notin rows => key'[k] = key[k]
        /\ \A f \in Functions : <<"function", f>> \notin rows => fn'[f] = fn[f]
    BY <2>2, <2>3, DeleteAppFacts
  <2>5. \A f \in Functions : fn'[f] # Nil => fn[f] # Nil /\ fn'[f].app = fn[f].app
    BY DeleteAppFacts
  <2>6. /\ \A b \in Apps : <<"config", b>> \notin rows => config'[b] = config[b]
        /\ \A b \in Apps : <<"app", b>> \notin rows => (b \in apps' <=> b \in apps)
        /\ \A b \in Apps : <<"playbook", b>> \notin rows => playbook'[b] = playbook[b]
    BY <1>4, <2>1, DeleteAppFacts
  <2>7. UNCHANGED <<profile, org>>
    BY DEF DeleteApp
  <2>8. QED
    BY <2>4, <2>5, <2>6, <2>7 DEF Changes
<1>9. QED
  BY <1>6, <1>7, <1>8, DeleteAppFacts, WriteAtOnceStep

-----------------------------------------------------------------------------
(* Types, and what requests rely on. *)

\* Every step.
LEMMA NextSound ==
  ASSUME TypeOK, RequestsSound, [Next]_vars
  PROVE  TypeOK' /\ RequestsSound'
<1>1. ASSUME NEW a \in Apps, CreateApp(a) \/ DeleteApp(a) PROVE TypeOK' /\ RequestsSound'
  BY <1>1, CreateAppStep, DeleteAppStep
<1>2. ASSUME NEW k \in Keys, NEW a \in Apps, CreateKey(k, a) PROVE TypeOK' /\ RequestsSound'
  BY <1>2, CreateKeyStep
<1>3. ASSUME NEW r \in Requests, Arrival(r) \/ Continue(r) PROVE TypeOK' /\ RequestsSound'
  BY <1>3, ArrivalStep, ContinueStep
<1>4. CASE UNCHANGED vars
  <2>1. req' = req /\ UNCHANGED tables
    BY <1>4 DEF vars
  <2>2. TypeOK'
    BY <2>1 DEF TypeOK, TablesOK, tables
  <2>3. Changes({})
    BY <2>1, NothingChanges DEF tables
  <2>4. DOMAIN req' = Requests /\ \A s \in Requests : req'[s] = Touched(req[s], {})
    BY <2>1 DEF TypeOK, Touched
  <2>5. ASSUME NEW r \in Requests PROVE TypeOK' /\ RequestsSound'
    <3>1. ASSUME NEW p, p = req'[r], p # Nil PROVE Typed(p) /\ Sound(p)'
      <4>1. p = req[r] /\ Typed(p) /\ Sound(p)
        BY <2>1, <3>1 DEF TypeOK, Typed, RequestsSound
      <4>2. p = Touched(p, {})
        BY DEF Touched
      <4>3. QED
        BY <2>2, <2>3, <3>1, <4>1, <4>2, OthersSound DEF TypeOK
    <3>2. QED
      BY <2>2, <2>3, <2>4, <3>1, RequestsStep DEF TypeOK
  <2>6. QED
    BY <2>2, <2>5 DEF RequestsSound
<1>5. QED
  BY <1>1, <1>2, <1>3, <1>4 DEF Next, Change

\* The settled database is well typed.
LEMMA InitTables == ASSUME Init PROVE TablesOK
<1>1. \A a \in Apps : config[a] \in Config \union {Nil}
  BY DEF Init
<1>2. \A k \in Keys : key[k] \in OfApp \union {Nil}
  BY DEF Init, OfApp
<1>3. /\ apps \subseteq Apps /\ org \in OrgRow
      /\ profile \in [Profiles -> Provider \union {Nil}]
      /\ config \in [Apps -> Config \union {Nil}]
      /\ fn \in [Functions -> OfApp \union {Nil}]
      /\ playbook \in [Apps -> [steps : SUBSET Functions, n : Nat]]
  <2>1. apps \subseteq Apps /\ org \in OrgRow
    BY DEF Init, OrgRow
  <2>2. [at : {"direct"}, secret : {"old"}] \subseteq Provider
    BY DEF Provider
  <2>3. profile \in [Profiles -> Provider \union {Nil}]
    BY <2>2 DEF Init
  <2>4. config \in [Apps -> Config \union {Nil}]
    BY <1>1 DEF Init
  <2>5. [app : apps, active : {TRUE}] \subseteq OfApp
    BY <2>1 DEF OfApp
  <2>6. fn \in [Functions -> OfApp \union {Nil}]
    BY <2>5 DEF Init
  <2>7. playbook \in [Apps -> [steps : SUBSET Functions, n : Nat]]
    BY DEF Init
  <2>8. QED
    BY <2>1, <2>3, <2>4, <2>6, <2>7
<1>4. key \in [Keys -> OfApp \union {Nil}]
  BY <1>2 DEF Init
<1>5. DOMAIN trail = Audited
  BY DEF Init
<1>6. ASSUME NEW a \in Apps, NEW x, x = <<"config", a>> PROVE trail[x] \in Seq(Config)
  <2>1. x \in Audited /\ x[1] = "config" /\ x[2] = a
    BY <1>6, RowIs DEF Audited
  <2>2. trail[x] = IF config[a] \in {Nil, DefaultConfig} THEN <<>> ELSE <<config[a]>>
    BY <2>1 DEF Init
  <2>3. QED
    BY <1>1, <2>2
<1>7. ASSUME NEW x \in Row("key", Keys) \union Row("function", Functions)
      PROVE  trail[x] \in Seq(Events)
  <2>1. x \in Audited /\ x[1] \in {"key", "function"}
    BY <1>7 DEF Audited, Row
  <2>2. trail[x] \in {<<>>, <<"created">>, <<"created", "revoked">>}
    BY <2>1 DEF Init
  <2>3. <<>> \in Seq(Events) /\ <<"created">> \in Seq(Events) /\ <<"created", "revoked">> \in Seq(Events)
    BY DEF Events
  <2>4. QED
    BY <2>2, <2>3
<1>8. \A x \in Row("config", Apps) : trail[x] \in Seq(Config)
  BY <1>6 DEF Row
<1>9. QED
  BY <1>3, <1>4, <1>5, <1>7, <1>8 DEF TablesOK

\* At first there is no request.
LEMMA InitSound == ASSUME Init PROVE TypeOK /\ RequestsSound
BY InitTables DEF Init, TypeOK, RequestsSound

\* Tables, trail and the requests in flight are well typed in every reachable state.
THEOREM TypeCorrect == Spec => []TypeOK
<1>1. Init => TypeOK /\ RequestsSound
  BY InitSound
<1>2. TypeOK /\ RequestsSound /\ [Next]_vars => TypeOK' /\ RequestsSound'
  BY NextSound
<1>3. QED
  BY <1>1, <1>2, PTL DEF Spec

\* What a request has read is so, as long as nothing that it watches has changed.
THEOREM RequestsAreSound == Spec => [](TypeOK /\ RequestsSound)
<1>1. Init => TypeOK /\ RequestsSound
  BY InitSound
<1>2. TypeOK /\ RequestsSound /\ [Next]_vars => TypeOK' /\ RequestsSound'
  BY NextSound
<1>3. QED
  BY <1>1, <1>2, PTL DEF Spec

-----------------------------------------------------------------------------
(* What a step may do. *)

\* Which steps write to which table.
LEMMA WhoWrites ==
  ASSUME Next
  PROVE  /\ config' # config =>
              \/ \E a \in Apps : DeleteApp(a)
              \/ \E r \in Requests : ConfigCreate(r) \/ ConfigUpdate(r) \/ ProfileDelete(r)
         /\ org' # org => \E r \in Requests : ResetWrite(r) \/ Retarget(r) \/ Complete(r)
         /\ fn' # fn =>
              \/ \E a \in Apps : DeleteApp(a)
              \/ \E r \in Requests : FunctionWrite(r) \/ SwitchOff(r)
         /\ apps' # apps => \E a \in Apps : CreateApp(a) \/ DeleteApp(a)
         /\ trail' # trail =>
              \/ \E a \in Apps : DeleteApp(a)
              \/ \E k \in Keys, a \in Apps : CreateKey(k, a)
              \/ \E r \in Requests : RevokeCommit(r) \/ ConfigAudit(r) \/ FunctionAudit(r)
<1>1. ASSUME NEW a \in Apps, CreateApp(a) PROVE UNCHANGED <<config, org, fn, trail>>
  BY <1>1 DEF CreateApp
<1>2. ASSUME NEW a \in Apps, DeleteApp(a) PROVE UNCHANGED org
  BY <1>2 DEF DeleteApp
<1>3. ASSUME NEW k \in Keys, NEW a \in Apps, CreateKey(k, a) PROVE UNCHANGED <<config, org, fn, apps>>
  BY <1>3 DEF CreateKey
<1>4. ASSUME NEW r \in Requests, Arrival(r) PROVE UNCHANGED tables
  BY <1>4 DEF Arrival, ConfigFind, ProfileTest, ProfileRetest, ProfileUnused, RevokeRead, FunctionRead,
              SwitchOffRead, StepsCheck, Resolve, Reset, Arrive
<1>5. ASSUME NEW r \in Requests, NEW q, Goto(r, q) PROVE UNCHANGED tables
  BY <1>5 DEF Goto
<1>6. ASSUME NEW r \in Requests, Refuse(r) PROVE UNCHANGED tables
  BY <1>6, <1>5 DEF Refuse
<1>7. ASSUME NEW r \in Requests, ConfigCreate(r) \/ ConfigUpdate(r) \/ ProfileDelete(r)
      PROVE  UNCHANGED <<org, fn, apps, trail>>
  BY <1>6, <1>7 DEF ConfigCreate, ConfigUpdate, ProfileDelete, tables
<1>8. ASSUME NEW r \in Requests, ResetWrite(r) \/ Retarget(r) \/ Complete(r)
      PROVE  UNCHANGED <<config, fn, apps, trail>>
  BY <1>8 DEF ResetWrite, Retarget, Complete
<1>9. ASSUME NEW r \in Requests,
             \/ ConfigCheck(r) \/ StepsDelete(r) \/ ReadOrg(r) \/ FindTarget(r) \/ LookAround(r)
      PROVE  UNCHANGED tables
  BY <1>5, <1>6, <1>9 DEF ConfigCheck, StepsDelete, ReadOrg, FindTarget, LookAround, Look
<1>10. ASSUME NEW r \in Requests, ProfileCreate(r) \/ ProfileUpdate(r) \/ StepsInsert(r)
       PROVE  UNCHANGED <<config, org, fn, apps, trail>>
  BY <1>6, <1>10 DEF ProfileCreate, ProfileUpdate, StepsInsert, tables
<1>11. ASSUME NEW r \in Requests, FunctionWrite(r) \/ SwitchOff(r)
       PROVE  UNCHANGED <<config, org, apps, trail>>
  BY <1>6, <1>11 DEF FunctionWrite, SwitchOff, Switch, tables
<1>12. ASSUME NEW r \in Requests, RevokeCommit(r) PROVE UNCHANGED <<config, org, fn, apps>>
  BY <1>6, <1>12 DEF RevokeCommit, tables
<1>13. ASSUME NEW r \in Requests, ConfigAudit(r) \/ FunctionAudit(r)
       PROVE  UNCHANGED <<config, org, fn, apps>>
  BY <1>13 DEF ConfigAudit, FunctionAudit, Audit
<1>14. ASSUME NEW r \in Requests, LoseAudit(r) PROVE UNCHANGED tables
  BY <1>14 DEF LoseAudit
<1>15. QED
  BY <1>1, <1>2, <1>3, <1>4, <1>7, <1>8, <1>9, <1>10, <1>11, <1>12, <1>13, <1>14
     DEF Next, Change, Continue, tables

\* Only a save takes the profile from an app; or the deletion of a profile that the
\* app has come to use since that was checked.
THEOREM DetachedBySaves == Spec => OnlySavesDetach
<1>1. ASSUME TypeOK, RequestsSound, [Next]_vars, NEW a \in Apps,
             config[a] # Nil, config'[a] # Nil, config[a].profile # Nil, config'[a].profile = Nil
      PROVE  \E r \in Requests : At(r, "update") \/ (req[r] # Nil /\ req[r].stale)
  <2>1. config' # config /\ Next
    BY <1>1 DEF vars, tables
  <2>2. CASE \E b \in Apps : DeleteApp(b)
    BY <1>1, <2>2, DeleteAppFacts
  <2>3. ASSUME NEW r \in Requests, ConfigCreate(r) PROVE FALSE
    <3>1. config' = [config EXCEPT ![req[r].app] = DefaultConfig] /\ config[req[r].app] = Nil
      BY <2>1, <2>3 DEF ConfigCreate, Refuse, Goto, tables
    <3>2. QED
      BY <1>1, <3>1 DEF TypeOK, TablesOK
  <2>4. ASSUME NEW r \in Requests, ConfigUpdate(r) PROVE At(r, "update")
    BY <2>4 DEF ConfigUpdate
  <2>5. ASSUME NEW r \in Requests, ProfileDelete(r) PROVE req[r] # Nil /\ req[r].stale
    <3>1. PICK q : q = req[r] /\ q # Nil /\ Typed(q) /\ Sound(q) /\ q.step = "delete_profile"
      BY <1>1, <2>5, RequestAt DEF ProfileDelete
    <3>2. /\ config' = [b \in Apps |-> IF b \in Users(q.id) THEN [config[b] EXCEPT !.profile = Nil]
                                       ELSE config[b]]
      BY <2>1, <2>5, <3>1 DEF ProfileDelete, Refuse, Goto, tables
    <3>3. a \in Users(q.id)
      BY <1>1, <3>2
    <3>4. ~q.stale => Users(q.id) = {}
      BY <3>1 DEF Sound, Holds
    <3>5. QED
      BY <3>1, <3>3, <3>4
  <2>6. QED
    BY <2>1, <2>2, <2>3, <2>4, <2>5, WhoWrites
<1>2. TypeOK /\ RequestsSound /\ [Next]_vars
        => [\A a \in Apps :
              (config[a] # Nil /\ config'[a] # Nil /\ config[a].profile # Nil /\ config'[a].profile = Nil)
                => \E r \in Requests : At(r, "update") \/ (req[r] # Nil /\ req[r].stale)]_vars
  BY <1>1
<1>3. QED
  BY <1>2, RequestsAreSound, PTL DEF Spec, OnlySavesDetach

\* A request that waits stays where it is, whatever others do; and one that has
\* just arrived does not look at the guide's steps yet.
Waits(r) ==
  /\ req[r] # Nil => /\ req'[r] # Nil /\ req'[r].step = req[r].step
                     /\ req'[r].app = req[r].app /\ req'[r].id = req[r].id
  /\ req[r] = Nil => ~Looking(r)'

\* A request that is at most marked as stale waits.
LEMMA TouchedWaits ==
  ASSUME TypeOK, NEW r \in Requests, NEW rows, req'[r] = Touched(req[r], rows)
  PROVE  Waits(r)
<1>1. PICK q : q = req[r]
  OBVIOUS
<1>2. PICK p : p = Touched(q, rows)
  OBVIOUS
<1>3. ASSUME q # Nil
      PROVE  p # Nil /\ p.step = q.step /\ p.app = q.app /\ p.id = q.id
  <2>1. Typed(q)
    BY <1>1, <1>3 DEF TypeOK, Typed
  <2>2. CASE p = q
    BY <1>3, <2>2
  <2>3. CASE p = [q EXCEPT !.stale = TRUE]
    BY <2>1, <2>3, StaleTyped, TypedIsNotNil
  <2>4. QED
    BY <1>2, <2>2, <2>3 DEF Touched
<1>4. q = Nil => p = Nil
  BY <1>2 DEF Touched
<1>5. QED
  BY <1>1, <1>2, <1>3, <1>4 DEF Waits, Looking

\* In every step, one request at most goes on.
LEMMA OthersWait ==
  ASSUME TypeOK, NEW r \in Requests, Next
  PROVE  \/ Waits(r)
         \/ Continue(r) /\ \A s \in Requests \ {r} : Waits(s)
<1>1. ASSUME NEW rows, WriteAtOnce(rows) PROVE Waits(r)
  <2>1. req'[r] = Touched(req[r], rows)
    BY <1>1 DEF WriteAtOnce, Touched
  <2>2. QED
    BY <2>1, TouchedWaits
<1>2. ASSUME NEW s \in Requests, NEW t \in Requests \ {s}, NEW q, req' = [req EXCEPT ![s] = q]
      PROVE  Waits(t)
  BY <1>2 DEF TypeOK, Waits, Looking
<1>3. ASSUME NEW s \in Requests, NEW t \in Requests \ {s}, NEW q, NEW rows, Write(s, q, rows)
      PROVE  Waits(t)
  <2>1. req'[t] = Touched(req[t], rows)
    BY <1>3 DEF Write, Touched
  <2>2. QED
    BY <2>1, TouchedWaits
<1>4. ASSUME NEW s \in Requests, Arrival(s) PROVE Waits(r)
  <2> DEFINE Came == \E q : /\ req[s] = Nil /\ req' = [req EXCEPT ![s] = q]
                            /\ q.step \notin {"retarget"} \union AboutTheGuide
  <2>1. ASSUME NEW step \in Step \ ({"retarget"} \union AboutTheGuide),
               NEW a, NEW id, NEW put, NEW row, NEW watch, Arrive(s, step, a, id, put, row, watch)
        PROVE  Came
    <3>1. PICK q : q = [step |-> step, app |-> a, id |-> id, put |-> put, row |-> row,
                        watch |-> watch, stale |-> FALSE]
      OBVIOUS
    <3>2. req[s] = Nil /\ req' = [req EXCEPT ![s] = q] /\ q.step = step
      BY <2>1, <3>1 DEF Arrive
    <3>3. QED
      BY <3>2
  <2> HIDE DEF Came
  <2>2. {"create", "check", "create_profile", "update_profile", "delete_profile", "revoke", "patch",
         "switch_off", "delete_steps", "target", "reset"} \subseteq Step \ ({"retarget"} \union AboutTheGuide)
    BY DEF Step, AboutTheGuide
  <2>3. Came
    BY <1>4, <2>1, <2>2 DEF Arrival, ConfigFind, ProfileTest, ProfileRetest, ProfileUnused, RevokeRead,
                            FunctionRead, SwitchOffRead, StepsCheck, Resolve, Reset
  <2>4. PICK q : req[s] = Nil /\ req' = [req EXCEPT ![s] = q] /\ q.step \notin {"retarget"} \union AboutTheGuide
    BY <2>3 DEF Came
  <2>5. s = r => ~Looking(r)'
    BY <2>4 DEF Looking, TypeOK
  <2>6. QED
    BY <1>2, <2>4, <2>5 DEF Waits
<1>5. ASSUME NEW s \in Requests, Continue(s), NEW t \in Requests \ {s} PROVE Waits(t)
  <2>1. ASSUME NEW q, Goto(s, q) PROVE Waits(t)
    BY <1>2, <2>1 DEF Goto
  <2>2. Refuse(s) => Waits(t)
    BY <2>1 DEF Refuse
  <2>3. ConfigCheck(s) \/ StepsDelete(s) \/ ReadOrg(s) \/ FindTarget(s) \/ LookAround(s) => Waits(t)
    BY <2>1, <2>2 DEF ConfigCheck, StepsDelete, ReadOrg, FindTarget, LookAround, Look
  <2>4. ConfigCreate(s) \/ ConfigUpdate(s) \/ ProfileCreate(s) \/ ProfileUpdate(s) \/ ProfileDelete(s)
          => Waits(t)
    BY <1>3, <2>2 DEF ConfigCreate, ConfigUpdate, ProfileCreate, ProfileUpdate, ProfileDelete
  <2>5. RevokeCommit(s) \/ FunctionWrite(s) \/ SwitchOff(s) \/ StepsInsert(s) => Waits(t)
    BY <1>3, <2>2 DEF RevokeCommit, FunctionWrite, SwitchOff, Switch, StepsInsert
  <2>6. ResetWrite(s) \/ Retarget(s) \/ Complete(s) => Waits(t)
    BY <1>3 DEF ResetWrite, Retarget, Complete
  <2>7. ConfigAudit(s) \/ FunctionAudit(s) \/ LoseAudit(s) => Waits(t)
    BY <1>2 DEF ConfigAudit, FunctionAudit, LoseAudit, Audit
  <2>8. QED
    BY <1>5, <2>3, <2>4, <2>5, <2>6, <2>7 DEF Continue
<1>6. ASSUME NEW s \in Requests, Continue(s) PROVE Waits(r) \/ (s = r /\ \A t \in Requests \ {r} : Waits(t))
  BY <1>5, <1>6
<1>7. QED
  BY <1>1, <1>4, <1>6 DEF Next, Change, CreateApp, DeleteApp, CreateKey

\* An action of a request is the one of its step.
LEMMA StepTaken ==
  ASSUME NEW r \in Requests, Continue(r)
  PROVE  /\ req[r].step = "audit_config" => ConfigAudit(r) \/ LoseAudit(r)
         /\ req[r].step = "audit_function" => FunctionAudit(r) \/ LoseAudit(r)
         /\ req[r].step = "update" => ConfigUpdate(r)
         /\ req[r].step = "update_profile" => ProfileUpdate(r)
         /\ req[r].step = "insert_steps" => StepsInsert(r)
<1>1. ConfigCreate(r) \/ ConfigCheck(r) => req[r].step \in {"create", "check"}
  BY DEF ConfigCreate, ConfigCheck, At
<1>2. ConfigUpdate(r) => req[r].step = "update"
  BY DEF ConfigUpdate, At
<1>3. ProfileCreate(r) \/ ProfileDelete(r) => req[r].step \in {"create_profile", "delete_profile"}
  BY DEF ProfileCreate, ProfileDelete, At
<1>4. ProfileUpdate(r) => req[r].step = "update_profile"
  BY DEF ProfileUpdate, At
<1>5. RevokeCommit(r) \/ FunctionWrite(r) \/ SwitchOff(r) \/ StepsDelete(r)
        => req[r].step \in {"revoke", "patch", "switch_off", "delete_steps"}
  BY DEF RevokeCommit, FunctionWrite, SwitchOff, StepsDelete, At
<1>6. StepsInsert(r) => req[r].step = "insert_steps"
  BY DEF StepsInsert, At
<1>7. ResetWrite(r) \/ ReadOrg(r) \/ FindTarget(r) \/ Retarget(r) \/ Complete(r)
        => req[r].step \in {"reset", "read_org", "target", "retarget", "complete"}
  BY DEF ResetWrite, ReadOrg, FindTarget, Retarget, Complete, At
<1>8. LookAround(r) => req[r].step \in {"has_profile", "has_model", "has_key", "has_function"}
  BY DEF LookAround, Look, At
<1>9. LoseAudit(r) => req[r].step \in {"audit_config", "audit_function"}
  BY DEF LoseAudit, Audits
<1>10. (ConfigAudit(r) => req[r].step = "audit_config") /\ (FunctionAudit(r) => req[r].step = "audit_function")
  BY DEF ConfigAudit, FunctionAudit, At
<1>11. QED
  BY <1>1, <1>2, <1>3, <1>4, <1>5, <1>6, <1>7, <1>8, <1>9, <1>10 DEF Continue

\* What a request that looks around has found was done at some moment since it
\* began to.
MetInv ==
  \A r \in Requests : Looking(r) =>
    /\ met[r] \subseteq GuideSteps
    /\ "app" \in met[r]
    /\ req[r].step \in AboutTheGuide \ {"has_profile"} => "profile" \in met[r]
    /\ req[r].step \in {"has_key", "has_function", "complete"} => "model" \in met[r]
    /\ req[r].step \in {"has_function", "complete"} => "key" \in met[r]
    /\ req[r].step = "complete" => "function" \in met[r]

\* Steps that are done are remembered while the request looks around.
LEMMA MetGrows ==
  ASSUME Remember, NEW r \in Requests, Looking(r)'
  PROVE  /\ Done(r)' \subseteq met'[r]
         /\ Looking(r) => met[r] \subseteq met'[r]
         /\ Looking(r) /\ met[r] \subseteq GuideSteps => met'[r] \subseteq GuideSteps
         /\ ~Looking(r) => met'[r] \subseteq GuideSteps
<1>1. met'[r] = Done(r)' \union (IF Looking(r) THEN met[r] ELSE {})
  BY DEF Remember
<1>2. Done(r)' \subseteq GuideSteps
  BY DEF Done
<1>3. QED
  BY <1>1, <1>2

\* The fields of a request that has moved on.
LEMMA MovedOn ==
  ASSUME TypeOK, NEW r \in Requests, req[r] # Nil, NEW step, NEW row, NEW a
  PROVE  /\ Then(r, step).step = step /\ Then(r, step).app = req[r].app
         /\ [Then(r, step) EXCEPT !.row = row].step = step
         /\ [Then(r, step) EXCEPT !.app = a].step = step
         /\ [Then(r, step) EXCEPT !.app = a].app = a
<1>1. Typed(req[r])
  BY DEF TypeOK, Typed
<1>2. PICK as, ids, puts, rows : req[r] \in Asking(as, ids, puts, rows)
  BY <1>1, TypedIsAsking
<1>3. QED
  BY <1>2 DEF Asking, Then

\* Only the guide's own queries look at its steps.
LEMMA OthersDoNotLook ==
  ASSUME TypeOK, NEW r \in Requests, Continue(r), Looking(r)'
  PROVE  FindTarget(r) \/ Retarget(r) \/ LookAround(r)
<1> DEFINE Away(q) == q = Nil \/ q.step \notin {"retarget"} \union AboutTheGuide
<1>1. Away(Nil)
  OBVIOUS
<1>2. ASSUME NEW step, step \notin {"retarget"} \union AboutTheGuide, req[r] # Nil
      PROVE  Away(Then(r, step)) /\ \A row : Away([Then(r, step) EXCEPT !.row = row])
  BY <1>2, MovedOn
<1>3. ASSUME NEW q, NEW rows, Away(q), Write(r, q, rows) \/ Goto(r, q) PROVE FALSE
  <2>1. req'[r] = q
    BY <1>3 DEF Write, Goto, TypeOK
  <2>2. QED
    BY <1>3, <2>1 DEF Looking
<1> HIDE DEF Away
<1>4. ~Refuse(r)
  BY <1>1, <1>3 DEF Refuse
<1>5. ~ConfigCreate(r)
  BY <1>1, <1>2, <1>3, <1>4 DEF ConfigCreate, At, AboutTheGuide
<1>6. ~ConfigCheck(r) /\ ~ConfigUpdate(r)
  BY <1>1, <1>2, <1>3, <1>4 DEF ConfigCheck, ConfigUpdate, At, AboutTheGuide
<1>7. ~ProfileCreate(r) /\ ~ProfileUpdate(r) /\ ~ProfileDelete(r) /\ ~RevokeCommit(r)
  BY <1>1, <1>3, <1>4 DEF ProfileCreate, ProfileUpdate, ProfileDelete, RevokeCommit
<1>8. ~FunctionWrite(r) /\ ~SwitchOff(r)
  BY <1>1, <1>2, <1>3, <1>4 DEF FunctionWrite, SwitchOff, Switch, At, AboutTheGuide
<1>9. ~StepsDelete(r) /\ ~StepsInsert(r)
  BY <1>1, <1>2, <1>3, <1>4 DEF StepsDelete, StepsInsert, At, AboutTheGuide
<1>10. ~ResetWrite(r) /\ ~ReadOrg(r) /\ ~Complete(r)
  BY <1>1, <1>2, <1>3 DEF ResetWrite, ReadOrg, Complete, At, AboutTheGuide
<1>11. ~ConfigAudit(r) /\ ~FunctionAudit(r) /\ ~LoseAudit(r)
  BY DEF ConfigAudit, FunctionAudit, LoseAudit, Audit, Looking, TypeOK
<1>12. QED
  BY <1>5, <1>6, <1>7, <1>8, <1>9, <1>10, <1>11 DEF Continue

\* A request only goes from a step of the guide to the next when it has found
\* that step done.
LEMMA GuideMoves ==
  ASSUME TypeOK, NEW r \in Requests, Continue(r), Looking(r)'
  PROVE  /\ req'[r].step = "retarget" => "app" \in Done(r)'
         /\ req'[r].step = "has_profile" => "app" \in Done(r)' \/ (Looking(r) /\ req[r].step = "retarget")
         /\ req'[r].step = "has_model" => Looking(r) /\ req[r].step = "has_profile" /\ "profile" \in Done(r)'
         /\ req'[r].step = "has_key" => Looking(r) /\ req[r].step = "has_model" /\ "model" \in Done(r)'
         /\ req'[r].step = "has_function" => Looking(r) /\ req[r].step = "has_key" /\ "key" \in Done(r)'
         /\ req'[r].step = "complete" => Looking(r) /\ req[r].step = "has_function" /\ "function" \in Done(r)'
<1>1. CASE FindTarget(r)
  <2>1. ~Refuse(r) /\ ~Goto(r, Nil)
    BY DEF Refuse, Goto, Looking, TypeOK
  <2>2. req[r] # Nil
    BY <1>1 DEF FindTarget, At
  <2>3. CASE req[r].row.target \in apps /\ Goto(r, [Then(r, "has_profile") EXCEPT !.app = req[r].row.target])
    <3>1. /\ req'[r] = [Then(r, "has_profile") EXCEPT !.app = req[r].row.target]
          /\ req'[r].app \in apps' /\ req'[r].step = "has_profile"
      BY <2>2, <2>3, MovedOn DEF Goto, TypeOK, tables
    <3>2. QED
      BY <3>1 DEF Done, GuideSteps
  <2>4. CASE Goto(r, [Then(r, "retarget") EXCEPT !.app = First(apps)])
    <3>1. /\ req'[r].app = First(apps) /\ req'[r].step = "retarget" /\ apps' = apps
      BY <2>2, <2>4, MovedOn DEF Goto, TypeOK, tables
    <3>2. req'[r].app \in apps'
      BY <3>1, FirstIsOne DEF Looking, TypeOK, TablesOK
    <3>3. QED
      BY <3>1, <3>2 DEF Done, GuideSteps
  <2>5. QED
    BY <1>1, <2>1, <2>3, <2>4 DEF FindTarget
<1>2. CASE Retarget(r)
  <2>1. req[r] # Nil /\ req[r].step = "retarget"
    BY <1>2 DEF Retarget, At
  <2>2. req'[r] = Then(r, "has_profile") /\ req[r].app # Nil
    BY <1>2 DEF Retarget, Write, Looking, TypeOK
  <2>3. req'[r].step = "has_profile" /\ Looking(r)
    BY <2>1, <2>2, MovedOn DEF Looking
  <2>4. QED
    BY <2>1, <2>3
<1>3. ASSUME NEW step \in AboutTheGuide, NEW next \in AboutTheGuide, NEW found, Look(r, step, found, next)
      PROVE  /\ req[r].step = step /\ req'[r].step = next /\ req'[r].app = req[r].app
             /\ Looking(r) /\ found /\ UNCHANGED tables
  <2>1. req[r] # Nil /\ req[r].step = step
    BY <1>3 DEF Look, At
  <2>2. found /\ Goto(r, Then(r, next))
    BY <1>3 DEF Look, Refuse, Goto, Looking, TypeOK
  <2>3. req'[r] = Then(r, next) /\ UNCHANGED tables
    BY <2>2 DEF Goto, TypeOK
  <2>4. req'[r].step = next /\ req'[r].app = req[r].app
    BY <2>1, <2>3, MovedOn
  <2>5. QED
    BY <2>1, <2>2, <2>3, <2>4 DEF Looking
<1>4. CASE Look(r, "has_profile", HasProfile, "has_model")
  <2>1. req[r].step = "has_profile" /\ req'[r].step = "has_model" /\ Looking(r) /\ HasProfile /\ UNCHANGED tables
    BY <1>3, <1>4 DEF AboutTheGuide
  <2>2. HasProfile'
    BY <2>1 DEF HasProfile, tables
  <2>3. QED
    BY <2>1, <2>2 DEF Done, GuideSteps
<1>5. ASSUME NEW a \in Apps, req[r].app = a, Look(r, "has_model", HasModel(a), "has_key")
      PROVE  req[r].step = "has_model" /\ req'[r].step = "has_key" /\ Looking(r) /\ "model" \in Done(r)'
  <2>1. /\ req[r].step = "has_model" /\ req'[r].step = "has_key" /\ Looking(r)
        /\ HasModel(a) /\ UNCHANGED tables /\ req'[r].app = a
    BY <1>3, <1>5 DEF AboutTheGuide
  <2>2. HasModel(req[r].app)'
    BY <2>1 DEF HasModel, tables
  <2>3. QED
    BY <2>1, <2>2 DEF Done, GuideSteps
<1>6. ASSUME NEW a \in Apps, req[r].app = a, Look(r, "has_key", HasKey(a), "has_function")
      PROVE  req[r].step = "has_key" /\ req'[r].step = "has_function" /\ Looking(r) /\ "key" \in Done(r)'
  <2>1. /\ req[r].step = "has_key" /\ req'[r].step = "has_function" /\ Looking(r)
        /\ HasKey(a) /\ UNCHANGED tables /\ req'[r].app = a
    BY <1>3, <1>6 DEF AboutTheGuide
  <2>2. HasKey(req[r].app)'
    BY <2>1 DEF HasKey, Of, tables
  <2>3. QED
    BY <2>1, <2>2 DEF Done, GuideSteps
<1>7. ASSUME NEW a \in Apps, req[r].app = a, Look(r, "has_function", HasFunction(a), "complete")
      PROVE  req[r].step = "has_function" /\ req'[r].step = "complete" /\ Looking(r) /\ "function" \in Done(r)'
  <2>1. /\ req[r].step = "has_function" /\ req'[r].step = "complete" /\ Looking(r)
        /\ HasFunction(a) /\ UNCHANGED tables /\ req'[r].app = a
    BY <1>3, <1>7 DEF AboutTheGuide
  <2>2. HasFunction(req[r].app)'
    BY <2>1 DEF HasFunction, Of, tables
  <2>3. QED
    BY <2>1, <2>2 DEF Done, GuideSteps
<1>8. CASE LookAround(r)
  <2>1. CASE Look(r, "has_profile", HasProfile, "has_model")
    BY <1>3, <1>4, <2>1 DEF AboutTheGuide
  <2>2. CASE ~Look(r, "has_profile", HasProfile, "has_model")
    <3>1. PICK a \in Apps :
            /\ req[r].app = a
            /\ \/ Look(r, "has_model", HasModel(a), "has_key")
               \/ Look(r, "has_key", HasKey(a), "has_function")
               \/ Look(r, "has_function", HasFunction(a), "complete")
      BY <1>8, <2>2 DEF LookAround
    <3>2. QED
      BY <1>5, <1>6, <1>7, <3>1
  <2>3. QED
    BY <2>1, <2>2
<1>9. QED
  BY <1>1, <1>2, <1>8, OthersDoNotLook

\* Every step keeps what is remembered of the requests that look around.
LEMMA MetStep ==
  ASSUME TypeOK, MetInv, Next
  PROVE  MetInv'
<1> SUFFICES ASSUME NEW r \in Requests, Looking(r)'
             PROVE  /\ met'[r] \subseteq GuideSteps
                    /\ "app" \in met'[r]
                    /\ req'[r].step \in AboutTheGuide \ {"has_profile"} => "profile" \in met'[r]
                    /\ req'[r].step \in {"has_key", "has_function", "complete"} => "model" \in met'[r]
                    /\ req'[r].step \in {"has_function", "complete"} => "key" \in met'[r]
                    /\ req'[r].step = "complete" => "function" \in met'[r]
  BY DEF MetInv
<1>1. /\ Done(r)' \subseteq met'[r]
      /\ Looking(r) => met[r] \subseteq met'[r] /\ met'[r] \subseteq GuideSteps
      /\ ~Looking(r) => met'[r] \subseteq GuideSteps
  BY MetGrows DEF Next, MetInv
<1>2. CASE Waits(r)
  <2>1. Looking(r) /\ req'[r].step = req[r].step
    BY <1>2 DEF Waits, Looking
  <2>2. QED
    BY <1>1, <2>1 DEF MetInv
<1>3. CASE Continue(r)
  <2>1. req'[r].step \in {"retarget"} \union AboutTheGuide
    BY DEF Looking
  <2>2. CASE req'[r].step \in {"retarget", "has_profile"}
    BY <1>1, <1>3, <2>2, GuideMoves DEF MetInv, AboutTheGuide
  <2>3. CASE req'[r].step = "has_model"
    BY <1>1, <1>3, <2>3, GuideMoves DEF MetInv
  <2>4. CASE req'[r].step = "has_key"
    BY <1>1, <1>3, <2>4, GuideMoves DEF MetInv, AboutTheGuide
  <2>5. CASE req'[r].step = "has_function"
    BY <1>1, <1>3, <2>5, GuideMoves DEF MetInv, AboutTheGuide
  <2>6. CASE req'[r].step = "complete"
    BY <1>1, <1>3, <2>6, GuideMoves DEF MetInv, AboutTheGuide
  <2>7. QED
    BY <2>1, <2>2, <2>3, <2>4, <2>5, <2>6 DEF AboutTheGuide
<1>4. QED
  BY <1>2, <1>3, OthersWait

\* The guide reads its steps one after the other: a request completes it only when
\* each was done at some moment since it began, and, if its grounds have not changed
\* since it read them, when all are done.
THEOREM CompletionIsEarned == Spec => CompletedWasEarned
<1>1. ASSUME TypeOK, RequestsSound, MetInv, [Next]_vars, org'.done /\ ~org.done
      PROVE  \E r \in Requests :
               /\ At(r, "complete") /\ req'[r] = Nil
               /\ met[r] = GuideSteps
               /\ req[r].stale \/ AllDone(org'.target)
  <2>1. org' # org /\ Next
    BY <1>1 DEF vars, tables
  <2>2. PICK r \in Requests : ResetWrite(r) \/ Retarget(r) \/ Complete(r)
    BY <2>1, WhoWrites
  <2>3. Complete(r) /\ org'.target = org.target
    BY <1>1, <2>2 DEF ResetWrite, Retarget, Complete, TypeOK, TablesOK, OrgRow
  <2>4. PICK q : q = req[r] /\ q # Nil /\ Typed(q) /\ Sound(q) /\ q.step = "complete"
    BY <1>1, <2>3, RequestAt DEF Complete
  <2>5. ~q.stale => AllDone(org'.target)
    BY <2>3, <2>4 DEF Sound, Holds, AboutTheGuide, AllDone
  <2>6. q.app # Nil
    BY <2>4, TypedFields, NilAssumption
  <2>7. met[r] = GuideSteps
    BY <1>1, <2>4, <2>6 DEF MetInv, Looking, AboutTheGuide, GuideSteps
  <2>8. At(r, "complete") /\ req'[r] = Nil
    BY <2>3, <2>4 DEF At, Complete, Write
  <2>9. q.stale \in BOOLEAN
    BY <2>4, TypedIsAsking DEF Asking
  <2>10. QED
    BY <2>4, <2>5, <2>7, <2>8, <2>9
<1>2. Init => MetInv
  BY DEF Init, MetInv, Looking
<1>3. TypeOK /\ MetInv /\ [Next]_vars => MetInv'
  <2>1. UNCHANGED vars /\ MetInv => MetInv'
    BY DEF vars, MetInv, Looking
  <2>2. QED
    BY <2>1, MetStep
<1>4. TypeOK /\ RequestsSound /\ MetInv /\ [Next]_vars
        => [org'.done /\ ~org.done =>
              \E r \in Requests :
                /\ At(r, "complete") /\ req'[r] = Nil
                /\ met[r] = GuideSteps
                /\ req[r].stale \/ AllDone(org'.target)]_vars
  BY <1>1
<1>5. QED
  BY <1>2, <1>3, <1>4, RequestsAreSound, PTL DEF Spec, CompletedWasEarned

\* What a request whose grounds have not changed writes is what it has checked.
THEOREM SavesAreChecked == Spec => SavesLeaveWhatTheyChecked
<1>1. ASSUME TypeOK, RequestsSound, [Next]_vars, NEW r \in Requests, Fresh(r)
      PROVE  /\ At(r, "update") /\ config' # config => Fits(config'[req[r].app])
             /\ At(r, "update_profile") /\ profile' # profile => profile'[req[r].id] = req[r].row
             /\ At(r, "insert_steps") /\ playbook' # playbook =>
                  playbook'[req[r].app].steps = req[r].put
  <2>1. Continue(r)
    BY <1>1, OthersWait DEF Fresh, Waits, vars
  <2>2. ~req[r].stale
    BY <1>1 DEF Fresh
  <2>3. ASSUME At(r, "update"), config' # config PROVE Fits(config'[req[r].app])
    <3>1. PICK q : q = req[r] /\ q # Nil /\ Typed(q) /\ Sound(q) /\ q.step = "update"
      BY <1>1, <2>3, RequestAt
    <3>2. ConfigUpdate(r)
      BY <2>1, <3>1, StepTaken
    <3>3. config' = [config EXCEPT ![q.app] = Over(q.put, @)]
      BY <2>3, <3>1, <3>2 DEF ConfigUpdate, Refuse, Goto, tables
    <3>4. q.app \in Apps /\ config[q.app] = q.row /\ Fits(Over(q.put, q.row))
      BY <2>2, <3>1, TypedFields DEF Sound, Checked, Holds
    <3>5. config'[q.app] = Over(q.put, q.row)
      BY <1>1, <3>3, <3>4 DEF TypeOK, TablesOK
    <3>6. QED
      BY <3>1, <3>4, <3>5
  <2>4. ASSUME At(r, "update_profile"), profile' # profile PROVE profile'[req[r].id] = req[r].row
    <3>1. PICK q : q = req[r] /\ q # Nil /\ Typed(q) /\ Sound(q) /\ q.step = "update_profile"
      BY <1>1, <2>4, RequestAt
    <3>2. ProfileUpdate(r)
      BY <2>1, <3>1, StepTaken
    <3>3. q.id \in Profiles /\ q.put \in Parts(Provider) /\ profile[q.id] # Nil
          /\ q.row = Over(q.put, profile[q.id])
      BY <2>2, <3>1, TypedFields DEF Sound, Holds
    <3>4. profile' = [profile EXCEPT ![q.id] =
                        Over([f \in {"at"} \union DOMAIN q.put |-> q.row[f]], @)]
      BY <3>1, <3>2, <3>3 DEF ProfileUpdate
    <3>5. profile'[q.id] = Over([f \in {"at"} \union DOMAIN q.put |-> q.row[f]], profile[q.id])
      BY <1>1, <3>3, <3>4 DEF TypeOK, TablesOK
    <3>6. profile[q.id] \in Provider
      BY <1>1, <3>3 DEF TypeOK, TablesOK
    <3>7. PICK row : row = profile[q.id]
      OBVIOUS
    <3>8. Over([f \in {"at"} \union DOMAIN q.put |-> Over(q.put, row)[f]], row) = Over(q.put, row)
      BY <3>3, <3>6, <3>7, OverProvider
    <3>9. QED
      BY <3>1, <3>3, <3>5, <3>7, <3>8
  <2>5. ASSUME At(r, "insert_steps"), playbook' # playbook
        PROVE  playbook'[req[r].app].steps = req[r].put
    <3>1. PICK q : q = req[r] /\ q # Nil /\ Typed(q) /\ Sound(q) /\ q.step = "insert_steps"
      BY <1>1, <2>5, RequestAt
    <3>2. StepsInsert(r)
      BY <2>1, <3>1, StepTaken
    <3>3. q.app \in Apps /\ playbook[q.app].n = q.row
      BY <2>2, <3>1, TypedFields DEF Sound, Holds
    <3>4. playbook' = [playbook EXCEPT ![q.app] = [steps |-> {} \union q.put, n |-> @.n + 1]]
      BY <2>5, <3>1, <3>2, <3>3 DEF StepsInsert, Refuse, Goto, tables
    <3>5. QED
      BY <1>1, <3>1, <3>3, <3>4 DEF TypeOK, TablesOK
  <2>6. QED
    BY <2>3, <2>4, <2>5
<1>2. TypeOK /\ RequestsSound /\ [Next]_vars
        => [\A r \in Requests : Fresh(r) =>
              /\ At(r, "update") /\ config' # config => Fits(config'[req[r].app])
              /\ At(r, "update_profile") /\ profile' # profile => profile'[req[r].id] = req[r].row
              /\ At(r, "insert_steps") /\ playbook' # playbook =>
                   playbook'[req[r].app].steps = req[r].put]_vars
  BY <1>1
<1>3. QED
  BY <1>2, RequestsAreSound, PTL DEF Spec, SavesLeaveWhatTheyChecked

-----------------------------------------------------------------------------
(* The trail. *)

\* No row outlives its app.
RowsHaveApps ==
  /\ \A a \in Apps : config[a] # Nil => a \in apps
  /\ \A f \in Functions : fn[f] # Nil => fn[f].app \in apps

\* Someone has still to write the event.
AuditsConfig(a) == \E r \in Requests : At(r, "audit_config") /\ req[r].app = a
AuditsFunction(f) == \E r \in Requests : At(r, "audit_function") /\ req[r].id = f

ConfigTold(a) ==
  <<"config", a>> \notin doubt =>
    IF config[a] = Nil THEN trail[<<"config", a>>] = <<>>
    ELSE LastOf(trail[<<"config", a>>], DefaultConfig) = config[a] \/ AuditsConfig(a)

FunctionTold(f) ==
  <<"function", f>> \notin doubt /\ fn[f] # Nil /\ fn[f].active =>
    LastOf(trail[<<"function", f>>], "activated") = "activated" \/ AuditsFunction(f)

TrailInv == (\A a \in Apps : ConfigTold(a)) /\ (\A f \in Functions : FunctionTold(f))

\* Configurations and functions go with their app.
LEMMA RowsStep ==
  ASSUME TypeOK, RowsHaveApps, Next
  PROVE  RowsHaveApps'
<1>1. CASE \E a \in Apps : DeleteApp(a)
  <2>1. PICK a \in Apps : DeleteApp(a)
    BY <1>1
  <2>2. /\ apps' = apps \ {a} /\ config'[a] = Nil
        /\ \A b \in Apps \ {a} : config'[b] = config[b]
        /\ \A f \in Functions : fn'[f] = IF f \in Of(a, fn) THEN Nil ELSE fn[f]
    BY <2>1, DeleteAppFacts
  <2>3. ASSUME NEW f \in Functions, fn'[f] # Nil PROVE fn'[f].app \in apps'
    <3>1. f \notin Of(a, fn) /\ fn'[f] = fn[f]
      BY <2>2, <2>3
    <3>2. fn[f].app # a
      BY <2>3, <3>1 DEF Of, TypeOK, TablesOK
    <3>3. QED
      BY <2>2, <2>3, <3>1, <3>2 DEF RowsHaveApps
  <2>4. QED
    BY <2>2, <2>3 DEF RowsHaveApps
<1>2. CASE ~\E a \in Apps : DeleteApp(a)
  <2>1. apps \subseteq apps'
    BY <1>2, WhoWrites DEF CreateApp
  <2>2. ASSUME NEW a \in Apps, config'[a] # Nil PROVE a \in apps
    <3>1. CASE config'[a] = config[a]
      BY <2>2, <3>1 DEF RowsHaveApps
    <3>2. ASSUME NEW r \in Requests, ConfigCreate(r), config' # config PROVE a \in apps
      <4>1. config' = [config EXCEPT ![req[r].app] = DefaultConfig] /\ req[r].app \in apps
        BY <3>2 DEF ConfigCreate, Refuse, Goto, tables
      <4>2. QED
        BY <2>2, <4>1 DEF TypeOK, TablesOK, RowsHaveApps
    <3>3. ASSUME NEW r \in Requests, ConfigUpdate(r), config' # config PROVE a \in apps
      <4>1. config' = [config EXCEPT ![req[r].app] = Over(req[r].put, @)] /\ config[req[r].app] # Nil
        BY <3>3 DEF ConfigUpdate, Refuse, Goto, tables
      <4>2. QED
        BY <2>2, <4>1 DEF TypeOK, TablesOK, RowsHaveApps
    <3>4. ASSUME NEW r \in Requests, ProfileDelete(r), config' # config PROVE a \in apps
      <4>1. config' = [b \in Apps |-> IF b \in Users(req[r].id) THEN [config[b] EXCEPT !.profile = Nil]
                                      ELSE config[b]]
        BY <3>4 DEF ProfileDelete, Refuse, Goto, tables
      <4>2. config[a] # Nil
        BY <2>2, <4>1 DEF Users
      <4>3. QED
        BY <4>2 DEF RowsHaveApps
    <3>5. QED
      BY <1>2, <3>1, <3>2, <3>3, <3>4, WhoWrites
  <2>3. ASSUME NEW f \in Functions, fn'[f] # Nil PROVE fn'[f].app \in apps
    <3>1. CASE fn' = fn
      BY <2>3, <3>1 DEF RowsHaveApps
    <3>2. CASE fn' # fn
      <4>1. PICK r \in Requests : FunctionWrite(r) \/ SwitchOff(r)
        BY <1>2, <3>2, WhoWrites
      <4>2. PICK g, active : fn[g] # Nil /\ fn' = [fn EXCEPT ![g].active = active]
        BY <3>2, <4>1 DEF FunctionWrite, SwitchOff, Switch, Refuse, Goto, tables
      <4>3. fn[f] # Nil /\ fn'[f].app = fn[f].app
        BY <2>3, <4>2 DEF TypeOK, TablesOK, OfApp
      <4>4. QED
        BY <4>3 DEF RowsHaveApps
    <3>3. QED
      BY <3>1, <3>2
  <2>4. QED
    BY <2>1, <2>2, <2>3 DEF RowsHaveApps
<1>3. QED
  BY <1>1, <1>2

\* The trails of a settled database tell what is stored.
LEMMA InitTold == ASSUME Init PROVE RowsHaveApps /\ TrailInv
<1>1. /\ \A a \in Apps \ apps : config[a] = Nil
      /\ \A f \in Functions : fn[f] # Nil => fn[f].app \in apps
  BY DEF Init
<1>2. ASSUME NEW a \in Apps PROVE ConfigTold(a)
  <2>1. PICK x : x = <<"config", a>>
    OBVIOUS
  <2>2. x \in Audited /\ x[1] = "config" /\ x[2] = a
    BY <2>1, RowIs DEF Audited
  <2>3. trail[x] = IF config[a] \in {Nil, DefaultConfig} THEN <<>> ELSE <<config[a]>>
    BY <2>2 DEF Init
  <2>4. QED
    BY <2>1, <2>3 DEF ConfigTold, LastOf
<1>3. ASSUME NEW f \in Functions PROVE FunctionTold(f)
  <2>1. PICK x : x = <<"function", f>>
    OBVIOUS
  <2>2. x \in Audited /\ x[1] = "function"
    BY <2>1, RowIs DEF Audited
  <2>3. trail[x] = <<>>
    BY <2>2 DEF Init
  <2>4. QED
    BY <2>1, <2>3 DEF FunctionTold, LastOf
<1>4. QED
  BY <1>1, <1>2, <1>3 DEF RowsHaveApps, TrailInv

\* Doubts stay.
LEMMA DoubtStays == ASSUME Next PROVE doubt \subseteq doubt'
<1>1. ASSUME NEW r \in Requests, NEW q, NEW rows, Write(r, q, rows) PROVE doubt \subseteq doubt'
  BY <1>1 DEF Write
<1>2. ASSUME NEW r \in Requests, NEW q, Goto(r, q) PROVE doubt \subseteq doubt'
  BY <1>2 DEF Goto
<1>3. ASSUME NEW r \in Requests, Refuse(r) PROVE doubt \subseteq doubt'
  BY <1>2, <1>3 DEF Refuse
<1>4. ASSUME NEW r \in Requests, Arrival(r) PROVE doubt \subseteq doubt'
  BY <1>4 DEF Arrival, ConfigFind, ProfileTest, ProfileRetest, ProfileUnused, RevokeRead, FunctionRead,
              SwitchOffRead, StepsCheck, Resolve, Reset, Arrive
<1>5. ASSUME NEW r \in Requests,
             \/ ConfigCreate(r) \/ ConfigUpdate(r) \/ ProfileCreate(r) \/ ProfileUpdate(r)
             \/ ProfileDelete(r) \/ RevokeCommit(r) \/ FunctionWrite(r) \/ SwitchOff(r)
             \/ StepsInsert(r) \/ ResetWrite(r) \/ Retarget(r) \/ Complete(r)
      PROVE  doubt \subseteq doubt'
  BY <1>1, <1>3, <1>5 DEF ConfigCreate, ConfigUpdate, ProfileCreate, ProfileUpdate, ProfileDelete,
     RevokeCommit, FunctionWrite, SwitchOff, Switch, StepsInsert, ResetWrite, Retarget, Complete
<1>6. ASSUME NEW r \in Requests,
             \/ ConfigCheck(r) \/ StepsDelete(r) \/ ReadOrg(r) \/ FindTarget(r) \/ LookAround(r)
      PROVE  doubt \subseteq doubt'
  BY <1>2, <1>3, <1>6 DEF ConfigCheck, StepsDelete, ReadOrg, FindTarget, LookAround, Look
<1>7. ASSUME NEW r \in Requests, ConfigAudit(r) \/ FunctionAudit(r) \/ LoseAudit(r)
      PROVE  doubt \subseteq doubt'
  BY <1>7 DEF ConfigAudit, FunctionAudit, LoseAudit, Audit
<1>8. QED
  BY <1>4, <1>5, <1>6, <1>7 DEF Next, Change, Continue, CreateApp, DeleteApp, CreateKey, WriteAtOnce

\* An event stays to be written until its request writes or loses it.
LEMMA AuditsStay ==
  ASSUME TypeOK, Next
  PROVE  /\ \A a \in Apps : AuditsConfig(a) =>
              \/ AuditsConfig(a)'
              \/ \E r \in Requests : /\ At(r, "audit_config") /\ req[r].app = a
                                     /\ ConfigAudit(r) \/ LoseAudit(r)
         /\ \A f \in Functions : AuditsFunction(f) =>
              \/ AuditsFunction(f)'
              \/ \E r \in Requests : /\ At(r, "audit_function") /\ req[r].id = f
                                     /\ FunctionAudit(r) \/ LoseAudit(r)
<1>1. ASSUME NEW r \in Requests, At(r, "audit_config") \/ At(r, "audit_function")
      PROVE  \/ req'[r] # Nil /\ req'[r].step = req[r].step /\ req'[r].app = req[r].app
                /\ req'[r].id = req[r].id
             \/ Continue(r)
  BY <1>1, OthersWait DEF Waits, At
<1>2. ASSUME NEW a \in Apps, AuditsConfig(a)
      PROVE  \/ AuditsConfig(a)'
             \/ \E r \in Requests : /\ At(r, "audit_config") /\ req[r].app = a
                                    /\ ConfigAudit(r) \/ LoseAudit(r)
  <2>1. PICK r \in Requests : At(r, "audit_config") /\ req[r].app = a
    BY <1>2 DEF AuditsConfig
  <2>2. CASE Continue(r)
    BY <2>1, <2>2, StepTaken DEF At
  <2>3. CASE ~Continue(r)
    BY <1>1, <2>1, <2>3 DEF AuditsConfig, At
  <2>4. QED
    BY <2>2, <2>3
<1>3. ASSUME NEW f \in Functions, AuditsFunction(f)
      PROVE  \/ AuditsFunction(f)'
             \/ \E r \in Requests : /\ At(r, "audit_function") /\ req[r].id = f
                                    /\ FunctionAudit(r) \/ LoseAudit(r)
  <2>1. PICK r \in Requests : At(r, "audit_function") /\ req[r].id = f
    BY <1>3 DEF AuditsFunction
  <2>2. CASE Continue(r)
    BY <2>1, <2>2, StepTaken DEF At
  <2>3. CASE ~Continue(r)
    BY <1>1, <2>1, <2>3 DEF AuditsFunction, At
  <2>4. QED
    BY <2>2, <2>3
<1>4. QED
  BY <1>2, <1>3

\* The events of a row are those of its own audits, until it goes with its app.
LEMMA TrailKeeps ==
  ASSUME TypeOK, Next, NEW x \in Audited, trail'[x] # trail[x]
  PROVE  \/ \E a \in Apps : DeleteApp(a) /\ x \in Gone(a)
         \/ x \in Row("key", Keys)
         \/ \E r \in Requests : ConfigAudit(r) /\ x = <<"config", req[r].app>>
         \/ \E r \in Requests : FunctionAudit(r) /\ x = <<"function", req[r].id>>
<1>1. ASSUME NEW y, NEW event, Record(y, event) PROVE x = y
  BY <1>1 DEF Record, TypeOK, TablesOK
<1>2. ASSUME NEW a \in Apps, DeleteApp(a) PROVE x \in Gone(a)
  BY <1>2, DeleteAppFacts
<1>3. ASSUME NEW k \in Keys, Record(<<"key", k>>, "created") \/ Record(<<"key", k>>, "revoked")
      PROVE  x \in Row("key", Keys)
  BY <1>1, <1>3, RowIs
<1>4. ASSUME NEW r \in Requests, RevokeCommit(r), trail' # trail PROVE x \in Row("key", Keys)
  <2>1. Record(<<"key", req[r].id>>, "revoked")
    BY <1>4 DEF RevokeCommit, Refuse, Goto, tables
  <2>2. x = <<"key", req[r].id>>
    BY <1>1, <2>1
  <2>3. QED
    BY <2>2 DEF Audited, Row
<1>5. ASSUME NEW r \in Requests, ConfigAudit(r), trail' # trail PROVE x = <<"config", req[r].app>>
  BY <1>1, <1>5 DEF ConfigAudit, Audit
<1>6. ASSUME NEW r \in Requests, FunctionAudit(r), trail' # trail PROVE x = <<"function", req[r].id>>
  BY <1>1, <1>6 DEF FunctionAudit, Audit
<1>7. QED
  BY <1>2, <1>3, <1>4, <1>5, <1>6, WhoWrites DEF CreateKey

\* No step leaves a configuration untold: who wrote it has the event still to
\* write, lost it, or was stale.
LEMMA ConfigToldStep ==
  ASSUME TypeOK, RequestsSound, RowsHaveApps, TrailInv, Next, NEW a \in Apps
  PROVE  ConfigTold(a)'
<1>1. PICK x : x = <<"config", a>>
  OBVIOUS
<1>2. x \in Audited /\ x \notin Row("key", Keys)
  BY <1>1, RowIs DEF Audited
<1> DEFINE Told == IF config[a] = Nil THEN trail[x] = <<>>
                   ELSE LastOf(trail[x], DefaultConfig) = config[a] \/ AuditsConfig(a)
<1>3. SUFFICES ASSUME x \notin doubt' PROVE Told'
  BY <1>1 DEF ConfigTold
<1>4. Told
  BY <1>1, <1>3, DoubtStays DEF TrailInv, ConfigTold
<1>5. CASE DeleteApp(a)
  BY <1>1, <1>2, <1>5, DeleteAppFacts DEF Gone
<1>6. ASSUME NEW r \in Requests, ConfigAudit(r), req[r].app = a PROVE Told'
  <2>1. PICK q : q = req[r] /\ q # Nil /\ Typed(q) /\ Sound(q) /\ q.step = "audit_config"
    BY <1>6, RequestAt DEF ConfigAudit
  <2>2. config' = config
    BY <1>6 DEF ConfigAudit, Audit
  <2>3. CASE a \notin apps
    <3>1. config[a] = Nil /\ trail' = trail
      BY <1>6, <2>3 DEF ConfigAudit, Audit, RowsHaveApps
    <3>2. QED
      BY <1>4, <2>2, <3>1
  <2>4. CASE a \in apps
    <3>1. Record(x, Over(q.put, q.row)) /\ ~q.stale
      BY <1>1, <1>3, <1>6, <2>1, <2>4 DEF ConfigAudit, Audit, Planned
    <3>2. config[a] # Nil /\ config[a] = Over(q.put, q.row)
      BY <1>6, <2>1, <3>1 DEF Sound, Holds
    <3>3. trail[x] \in Seq(Config)
      BY <1>1, RowIs DEF TypeOK, TablesOK
    <3>4. trail'[x] = Append(trail[x], config[a])
      BY <1>2, <3>1, <3>2 DEF Record, TypeOK, TablesOK
    <3>5. LastOf(trail'[x], DefaultConfig) = config[a]
      BY <3>3, <3>4 DEF LastOf
    <3>6. QED
      BY <2>2, <3>2, <3>5
  <2>5. QED
    BY <2>3, <2>4
<1>7. ASSUME NEW r \in Requests, LoseAudit(r), At(r, "audit_config"), req[r].app = a PROVE Told'
  BY <1>1, <1>3, <1>7 DEF LoseAudit
<1>8. CASE /\ ~DeleteApp(a)
           /\ ~\E r \in Requests : /\ At(r, "audit_config") /\ req[r].app = a
                                   /\ ConfigAudit(r) \/ LoseAudit(r)
  <2>1. AuditsConfig(a) => AuditsConfig(a)'
    BY <1>8, AuditsStay
  <2>2. trail'[x] = trail[x]
    <3>1. \A b \in Apps : x \in Gone(b) => b = a
      BY <1>1, RowIs DEF Gone
    <3>2. \A r \in Requests : x # <<"function", req[r].id>>
      BY <1>1
    <3>3. \A r \in Requests : ConfigAudit(r) => x # <<"config", req[r].app>>
      BY <1>1, <1>8 DEF ConfigAudit
    <3>4. QED
      BY <1>2, <1>8, <3>1, <3>2, <3>3, TrailKeeps
  <2>3. CASE config'[a] = config[a]
    BY <1>4, <2>1, <2>2, <2>3
  <2>4. ASSUME NEW b \in Apps, DeleteApp(b) PROVE config'[a] = config[a]
    BY <1>8, <2>4, DeleteAppFacts
  <2>5. ASSUME NEW r \in Requests, ConfigCreate(r), config'[a] # config[a] PROVE Told'
    <3>1. config' = [config EXCEPT ![req[r].app] = DefaultConfig] /\ config[req[r].app] = Nil
      BY <2>5 DEF ConfigCreate, Refuse, Goto, tables
    <3>2. config[a] = Nil /\ config'[a] = DefaultConfig
      BY <2>5, <3>1 DEF TypeOK, TablesOK
    <3>3. trail'[x] = <<>>
      BY <1>4, <2>2, <3>2
    <3>4. LastOf(trail'[x], DefaultConfig) = DefaultConfig
      BY <3>3 DEF LastOf
    <3>5. QED
      BY <3>2, <3>4, DefaultIsConfig, NilAssumption
  <2>6. ASSUME NEW r \in Requests, ConfigUpdate(r), config'[a] # config[a] PROVE Told'
    <3>1. PICK q : q = req[r] /\ q # Nil /\ Typed(q) /\ Sound(q) /\ q.step = "update"
      BY <2>6, RequestAt DEF ConfigUpdate
    <3>2. /\ config' = [config EXCEPT ![q.app] = Over(q.put, @)] /\ config[q.app] # Nil
          /\ Write(r, IF Planned(r) = q.row THEN Nil ELSE Then(r, "audit_config"),
                   {<<"config", q.app>>})
      BY <2>6, <3>1 DEF ConfigUpdate, Refuse, Goto, tables
    <3>3. q.app = a /\ config'[a] = Over(q.put, config[a]) /\ config[a] \in Config
      BY <2>6, <3>2 DEF TypeOK, TablesOK
    <3>4. ~q.stale
      BY <1>1, <1>3, <3>1, <3>2, <3>3 DEF Write
    <3>5. config[a] = q.row
      BY <3>1, <3>3, <3>4 DEF Sound, Holds
    <3>6. PICK p : p = [q EXCEPT !.step = "audit_config"]
      OBVIOUS
    <3>7. req'[r] = p
      BY <2>6, <3>1, <3>2, <3>3, <3>5, <3>6 DEF Write, Planned, Then
    <3>8. q \in Asking(Apps, {Nil}, Parts(Config), Config)
      BY <3>1 DEF Typed, Request
    <3>9. p \in Asking(Apps, {Nil}, Parts(Config), Config) /\ p.step = "audit_config" /\ p.app = a
      BY <3>3, <3>6, <3>8, ThenFields DEF Step
    <3>10. Typed(p)
      BY <3>9 DEF Typed, Request, Step
    <3>11. AuditsConfig(a)'
      BY <3>7, <3>9, <3>10, TypedIsNotNil DEF AuditsConfig, At
    <3>12. config'[a] # Nil
      BY <3>1, <3>3, TypedFields, OverConfig, NilAssumption
    <3>13. QED
      BY <3>11, <3>12
  <2>7. ASSUME NEW r \in Requests, ProfileDelete(r), config'[a] # config[a] PROVE FALSE
    <3>1. PICK q : q = req[r] /\ q # Nil /\ Typed(q) /\ Sound(q) /\ q.step = "delete_profile"
      BY <2>7, RequestAt DEF ProfileDelete
    <3>2. /\ config' = [b \in Apps |-> IF b \in Users(q.id) THEN [config[b] EXCEPT !.profile = Nil]
                                       ELSE config[b]]
          /\ Write(r, Nil, {<<"profile", q.id>>} \union Row("config", Users(q.id)))
      BY <2>7, <3>1 DEF ProfileDelete, Refuse, Goto, tables
    <3>3. a \in Users(q.id)
      BY <2>7, <3>2
    <3>4. x \in Row("config", Users(q.id))
      BY <1>1, <3>3, RowIs
    <3>5. ~q.stale
      BY <1>3, <3>1, <3>2, <3>4 DEF Write
    <3>6. QED
      BY <3>1, <3>3, <3>5 DEF Sound, Holds
  <2>8. QED
    BY <2>3, <2>4, <2>5, <2>6, <2>7, WhoWrites
<1>9. QED
  BY <1>5, <1>6, <1>7, <1>8

\* No step leaves an active function whose last event is its deactivation,
\* but for the same reasons.
LEMMA FunctionToldStep ==
  ASSUME TypeOK, RequestsSound, RowsHaveApps, TrailInv, Next, NEW f \in Functions
  PROVE  FunctionTold(f)'
<1>1. PICK x : x = <<"function", f>>
  OBVIOUS
<1>2. x \in Audited /\ x \notin Row("key", Keys) /\ x \in Row("function", Functions)
  BY <1>1, RowIs DEF Audited
<1> DEFINE Told == LastOf(trail[x], "activated") = "activated" \/ AuditsFunction(f)
<1>3. SUFFICES ASSUME x \notin doubt', fn'[f] # Nil, fn'[f].active PROVE Told'
  BY <1>1 DEF FunctionTold
<1>4. fn[f] # Nil /\ fn[f].active => Told
  BY <1>1, <1>3, DoubtStays DEF TrailInv, FunctionTold
<1>5. ASSUME NEW r \in Requests, FunctionAudit(r), req[r].id = f PROVE Told'
  <2>1. PICK q : q = req[r] /\ q # Nil /\ Typed(q) /\ Sound(q) /\ q.step = "audit_function"
    BY <1>5, RequestAt DEF FunctionAudit
  <2>2. fn' = fn
    BY <1>5 DEF FunctionAudit, Audit
  <2>3. q.app \in apps
    BY <1>3, <1>5, <2>1, <2>2 DEF Sound, Checked, RowsHaveApps
  <2>4. Record(x, IF q.put THEN "activated" ELSE "deactivated") /\ ~q.stale
    BY <1>1, <1>3, <1>5, <2>1, <2>3 DEF FunctionAudit, Audit
  <2>5. fn[f].active = q.put
    BY <1>5, <2>1, <2>4 DEF Sound, Holds
  <2>6. q.put = TRUE
    BY <1>3, <2>1, <2>2, <2>5, TypedFields
  <2>7. trail[x] \in Seq(Events)
    BY <1>2 DEF TypeOK, TablesOK
  <2>8. trail'[x] = Append(trail[x], "activated")
    BY <1>2, <2>4, <2>6 DEF Record, TypeOK, TablesOK
  <2>9. QED
    BY <2>7, <2>8 DEF LastOf, Events
<1>6. ASSUME NEW r \in Requests, LoseAudit(r), At(r, "audit_function"), req[r].id = f PROVE FALSE
  BY <1>1, <1>3, <1>6 DEF LoseAudit, At
<1>7. CASE ~\E r \in Requests : /\ At(r, "audit_function") /\ req[r].id = f
                                /\ FunctionAudit(r) \/ LoseAudit(r)
  <2>1. AuditsFunction(f) => AuditsFunction(f)'
    BY <1>7, AuditsStay
  <2>2. \A a \in Apps : DeleteApp(a) => x \notin Gone(a) /\ fn'[f] = fn[f]
    <3>1. ASSUME NEW a \in Apps, DeleteApp(a) PROVE f \notin Of(a, fn) /\ fn'[f] = fn[f]
      BY <1>3, <3>1, DeleteAppFacts
    <3>2. \A a \in Apps : x \in Gone(a) => f \in Of(a, fn)
      BY <1>1, RowIs DEF Gone
    <3>3. QED
      BY <3>1, <3>2
  <2>3. trail'[x] = trail[x]
    <3>1. \A r \in Requests : x # <<"config", req[r].app>>
      BY <1>1
    <3>2. \A r \in Requests : FunctionAudit(r) => x # <<"function", req[r].id>>
      BY <1>1, <1>7 DEF FunctionAudit
    <3>3. QED
      BY <1>2, <2>2, <3>1, <3>2, TrailKeeps
  <2>4. CASE fn'[f] = fn[f]
    BY <1>3, <1>4, <2>1, <2>3, <2>4
  <2>5. ASSUME NEW r \in Requests, FunctionWrite(r), fn'[f] # fn[f] PROVE Told'
    <3>1. PICK q : q = req[r] /\ q # Nil /\ Typed(q) /\ Sound(q) /\ q.step = "patch"
      BY <2>5, RequestAt DEF FunctionWrite
    <3>2. /\ fn[q.id] # Nil /\ fn' = [fn EXCEPT ![q.id].active = q.put]
          /\ Write(r, IF q.row # q.put THEN Then(r, "audit_function") ELSE Nil, {<<"function", q.id>>})
          /\ UNCHANGED <<apps, profile, config, key, playbook, org, trail>>
      BY <2>5, <3>1 DEF FunctionWrite, Switch, Refuse, Goto, tables
    <3>3. q.id \in Functions /\ q.put \in BOOLEAN /\ q.row \in BOOLEAN
      BY <3>1, TypedFields
    <3>4. q.id = f
      BY <2>5, <3>2 DEF TypeOK, TablesOK
    <3>5. ~q.stale
      BY <1>1, <1>3, <3>1, <3>2, <3>4 DEF Write
    <3>6. fn[f].active = q.row
      BY <3>1, <3>4, <3>5 DEF Sound, Holds
    <3>7. fn'[f].active = q.put
      BY <3>2, <3>3, <3>4, FunctionChanges DEF TypeOK
    <3>8. q.put = TRUE
      BY <1>3, <3>3, <3>7
    <3>9. CASE q.row = TRUE
      BY <1>4, <2>1, <2>3, <3>2, <3>4, <3>6, <3>9
    <3>10. CASE q.row # q.put
      <4>1. PICK p : p = [q EXCEPT !.step = "audit_function"]
        OBVIOUS
      <4>2. req'[r] = p
        BY <3>1, <3>2, <3>10, <4>1 DEF Write, Then
      <4>3. q \in Asking(Apps, Functions, BOOLEAN, BOOLEAN)
        BY <3>1 DEF Typed, Request
      <4>4. /\ p \in Asking(Apps, Functions, BOOLEAN, BOOLEAN)
            /\ p.step = "audit_function" /\ p.id = f
        BY <3>4, <4>1, <4>3, ThenFields DEF Step
      <4>5. Typed(p)
        BY <4>4 DEF Typed, Request, Step
      <4>6. AuditsFunction(f)'
        BY <4>2, <4>4, <4>5, TypedIsNotNil DEF AuditsFunction, At
      <4>7. QED
        BY <4>6
    <3>11. QED
      BY <3>3, <3>8, <3>9, <3>10
  <2>6. ASSUME NEW r \in Requests, SwitchOff(r), fn'[f] # fn[f] PROVE FALSE
    <3>1. /\ fn[req[r].id] # Nil /\ fn' = [fn EXCEPT ![req[r].id].active = FALSE]
          /\ UNCHANGED <<apps, profile, config, key, playbook, org, trail>>
      BY <2>6 DEF SwitchOff, Switch, Refuse, Goto, tables
    <3>2. req[r].id = f
      BY <2>6, <3>1 DEF TypeOK, TablesOK
    <3>3. fn'[f].active = FALSE
      BY <3>1, <3>2, FunctionChanges DEF TypeOK
    <3>4. QED
      BY <1>3, <3>3
  <2>7. QED
    BY <2>2, <2>4, <2>5, <2>6, WhoWrites
<1>8. QED
  BY <1>5, <1>6, <1>7

\* The trail of what is not in doubt ends with what is, as soon as no event has still to
\* be written.
THEOREM TrailTells == Spec => []TrailTellsState
<1> DEFINE Inv == TypeOK /\ RequestsSound /\ RowsHaveApps /\ TrailInv
<1>1. Init => Inv
  BY InitSound, InitTold
<1>2. Inv /\ [Next]_vars => Inv'
  <2> SUFFICES ASSUME Inv, [Next]_vars PROVE Inv'
    OBVIOUS
  <2>1. TypeOK' /\ RequestsSound'
    BY NextSound
  <2>2. CASE Next
    <3>1. TrailInv'
      BY <2>2, ConfigToldStep, FunctionToldStep DEF TrailInv
    <3>2. QED
      BY <2>1, <2>2, <3>1, RowsStep
  <2>3. CASE UNCHANGED vars
    <3>1. UNCHANGED <<apps, config, fn, trail, req, doubt>>
      BY <2>3 DEF vars, tables
    <3>2. RowsHaveApps'
      BY <3>1 DEF RowsHaveApps
    <3>3. TrailInv'
      BY <3>1 DEF TrailInv, ConfigTold, FunctionTold, AuditsConfig, AuditsFunction, At
    <3>4. QED
      BY <2>1, <3>2, <3>3
  <2>4. QED
    BY <2>2, <2>3
<1>3. Inv => TrailTellsState
  <2> SUFFICES ASSUME Inv, \A r \in Requests : req[r] # Nil => req[r].step \notin Audits
      PROVE  /\ \A a \in Apps : <<"config", a>> \notin doubt /\ config[a] # Nil =>
                  LastOf(trail[<<"config", a>>], DefaultConfig) = config[a]
             /\ \A f \in Functions : <<"function", f>> \notin doubt /\ fn[f] # Nil /\ fn[f].active =>
                  LastOf(trail[<<"function", f>>], "activated") = "activated"
    BY DEF TrailTellsState
  <2>1. \A a \in Apps : ~AuditsConfig(a)
    BY DEF AuditsConfig, At, Audits
  <2>2. \A f \in Functions : ~AuditsFunction(f)
    BY DEF AuditsFunction, At, Audits
  <2>3. QED
    BY <2>1, <2>2 DEF TrailInv, ConfigTold, FunctionTold
<1>4. QED
  BY <1>1, <1>2, <1>3, PTL DEF Spec
=============================================================================
