----------------------------- MODULE Membership -----------------------------
(***************************************************************************)
(* The routes under app/v1/auth and app/v1/organizations as they run.      *)
(*                                                                         *)
(* A handler authenticates the caller, reads the rows it decides on, and   *)
(* writes.  Every one of these is a query of its own and nothing is locked *)
(* between them, so a request in flight carries what it has read (a row of *)
(* req) and any other request may run before it goes on.  Only what the    *)
(* code wraps in $transaction is one step.                                 *)
(***************************************************************************)
EXTENDS MembershipRules

CONSTANT Requests   \* requests that may be under way at a time

VARIABLE req        \* req[r]: what the request in flight has read, or Nil

vars == <<account, orgs, invitation, app, req>>

Steps == {"signup", "invite", "invite_check", "invite_create",
          "cancel", "cancel_write", "accept_commit", "expire_write",
          "role", "role_count", "role_write", "app"}

\* A request in flight: the handler's next query, the caller and the caller's
\* row as it was authenticated, and the rows and arguments the next queries
\* use; what no later query uses is dropped.  stale is a history variable:
\* another request has changed the tables since this one began.  No action
\* looks at it.
Request == [step  : Steps,
            actor : Developers,
            as    : Member \union {Nil},
            org   : Orgs \union {Nil},
            who   : Developers \union {Nil},
            inv   : Invitations \union {Nil},
            role  : Roles \union {Nil},
            stale : BOOLEAN]

ASSUME RequestAssumption == Nil \notin Request /\ Nil \notin Roles

TypeOK == TablesOK /\ req \in [Requests -> Request \union {Nil}]

Init == TablesInit /\ req = [r \in Requests |-> Nil]

Arrive(r, request) == req[r] = Nil /\ req' = [req EXCEPT ![r] = request]
At(r, step) == req[r] # Nil /\ req[r].step = step
Goto(r, step) == req' = [req EXCEPT ![r] = [@ EXCEPT !.step = step]]
Refuse(r) == req' = [req EXCEPT ![r] = Nil]
ReadOnly == UNCHANGED tables

\* r answers after it has written: what the others have read is out of date.
Finish(r) ==
  req' = [s \in Requests |-> IF s = r \/ req[s] = Nil THEN Nil
                             ELSE [req[s] EXCEPT !.stale = TRUE]]

(***************************************************************************)
(* POST /v1/auth/signup.  The checks find the address and the wanted id    *)
(* free.  An id that was not asked for explicitly and is taken is replaced *)
(* by a random one, which is checked as well.  Hashing the password comes  *)
(* between the checks and the transaction, whose unique constraints decide.*)
(***************************************************************************)
SignupCheck(r, d, wanted, explicit) ==
  /\ account[d] = Nil
  /\ wanted \in orgs => ~explicit
  /\ \E o \in IF wanted \in orgs THEN Orgs ELSE {wanted} :
       /\ o \notin orgs
       /\ Arrive(r, [step |-> "signup", actor |-> d, as |-> Nil, org |-> o, who |-> Nil,
                     inv |-> Nil, role |-> Nil, stale |-> FALSE])
  /\ ReadOnly

SignupCreate(r) ==
  /\ At(r, "signup")
  /\ IF account[req[r].actor] = Nil /\ req[r].org \notin orgs
       THEN Found(req[r].actor, req[r].org) /\ Finish(r)
       ELSE Refuse(r) /\ ReadOnly

\* getDeveloperFromRequest: the token names an account, whose row is read
\* now; its organization and role are what the handler decides with.
Authenticate(r, d, operation) ==
  /\ d \in Registered
  /\ operation \in {"invite", "role"} => account[d].role \in AdminRoles
  /\ Arrive(r, [step |-> operation, actor |-> d, as |-> account[d], org |-> Nil, who |-> Nil,
                inv |-> Nil, role |-> Nil, stale |-> FALSE])
  /\ ReadOnly

-----------------------------------------------------------------------------
(* POST /v1/organizations/invitations *)

InviteRead(r, invitee) ==
  /\ At(r, "invite")
  /\ IF MayInvite(req[r].as, req[r].actor, invitee)
       THEN req' = [req EXCEPT ![r] = [@ EXCEPT !.step = "invite_check", !.who = invitee]]
       ELSE Refuse(r)
  /\ ReadOnly

InviteCheck(r) ==
  /\ At(r, "invite_check")
  /\ IF NotInvited(req[r].as.org, req[r].who) THEN Goto(r, "invite_create") ELSE Refuse(r)
  /\ ReadOnly

InviteCreate(r, i) ==
  /\ At(r, "invite_create")
  /\ AddInvitation(i, req[r].as.org, req[r].actor, req[r].who)
  /\ Finish(r)

-----------------------------------------------------------------------------
(* DELETE /v1/organizations/invitations/{id} *)

CancelRead(r, i) ==
  /\ At(r, "cancel")
  /\ IF MayCancel(req[r].as, req[r].actor, i)
       THEN req' = [req EXCEPT ![r] = [@ EXCEPT !.step = "cancel_write", !.inv = i, !.as = Nil]]
       ELSE Refuse(r)
  /\ ReadOnly

CancelWrite(r) ==
  /\ At(r, "cancel_write")
  /\ SetStatus(req[r].inv, "canceled")
  /\ Finish(r)

-----------------------------------------------------------------------------
(* POST /v1/organizations/invitations/{id}/accept *)

\* The handler uses nothing of the caller but the id, which never changes:
\* authentication is no step of its own here.
AcceptRead(r, d, i) ==
  /\ d \in Registered
  /\ MayAccept(d, i)
  /\ Arrive(r, [step |-> IF invitation[i].due THEN "expire_write" ELSE "accept_commit",
                actor |-> d, as |-> Nil, org |-> Nil, who |-> Nil,
                inv |-> i, role |-> Nil, stale |-> FALSE])
  /\ ReadOnly

ExpireWrite(r) ==
  /\ At(r, "expire_write")
  /\ SetStatus(req[r].inv, "expired")
  /\ Finish(r)

\* A clash of app names rolls the whole transaction back.
AcceptCommit(r) ==
  /\ At(r, "accept_commit")
  /\ IF NamesClash(req[r].actor, invitation[req[r].inv].org)
       THEN Refuse(r) /\ ReadOnly
       ELSE Join(req[r].actor, req[r].inv) /\ Finish(r)

-----------------------------------------------------------------------------
(* PATCH /v1/organizations/members/{id}/role *)

RoleRead(r, target, role) ==
  /\ At(r, "role")
  /\ IF MaySetRole(req[r].as, target, role)
       THEN req' = [req EXCEPT ![r] = [@ EXCEPT
              !.step = IF Demotes(target, role) THEN "role_count" ELSE "role_write",
              !.as = IF Demotes(target, role) THEN req[r].as ELSE Nil,
              !.who = target,
              !.role = role]]
       ELSE Refuse(r)
  /\ ReadOnly

\* The owners are counted; with the target among them, one must be left.
RoleCount(r) ==
  /\ At(r, "role_count")
  /\ IF Cardinality(Owners(req[r].as.org)) <= 1 THEN Refuse(r)
       ELSE req' = [req EXCEPT ![r] = [@ EXCEPT !.step = "role_write", !.as = Nil]]
  /\ ReadOnly

RoleWrite(r) ==
  /\ At(r, "role_write")
  /\ WriteRole(req[r].who, req[r].role)
  /\ Finish(r)

-----------------------------------------------------------------------------
(* POST /v1/apps: the app is put into the organization the caller was read *)
(* to belong to.                                                           *)

\* defect: without the unique constraint on the name.
MutantAppCreate(r, a) ==
  /\ At(r, "app")
  /\ AddApp(a, req[r].actor, req[r].as.org)
  /\ Finish(r)

AppCreate(r, a) ==
  /\ At(r, "app")
  /\ app[a] = Nil
  /\ IF NameTaken(a, req[r].as.org)
       THEN Refuse(r) /\ ReadOnly
       ELSE AddApp(a, req[r].actor, req[r].as.org) /\ Finish(r)

\* Time passes under the requests, too.
Lapse(i) ==
  /\ RunOut(i)
  /\ req' = [s \in Requests |-> IF req[s] = Nil THEN Nil ELSE [req[s] EXCEPT !.stale = TRUE]]

Step(r) ==
  \/ \E d \in Developers, o \in Orgs, e \in BOOLEAN : SignupCheck(r, d, o, e)
  \/ SignupCreate(r)
  \/ \E d \in Developers, operation \in {"invite", "cancel", "role", "app"} :
       Authenticate(r, d, operation)
  \/ \E d \in Developers : InviteRead(r, d)
  \/ InviteCheck(r)
  \/ \E i \in Invitations : InviteCreate(r, i) \/ CancelRead(r, i)
  \/ \E d \in Developers, i \in Invitations : AcceptRead(r, d, i)
  \/ CancelWrite(r)
  \/ ExpireWrite(r)
  \/ AcceptCommit(r)
  \/ \E d \in Developers, role \in Roles : RoleRead(r, d, role)
  \/ RoleCount(r)
  \/ RoleWrite(r)
  \/ \E a \in Apps : AppCreate(r, a)

Next ==
  \/ \E r \in Requests : Step(r)
  \/ \E i \in Invitations : Lapse(i)

Spec == Init /\ [][Next]_vars

-----------------------------------------------------------------------------

\* A request that nobody wrote under does what its route does when it runs
\* alone: every change of the tables is one of the routes in one step, or the
\* write of a request that decided on rows another request has changed since.
FreshRequestsAreAtomic ==
  [][TablesNext \/ \E r \in Requests : req[r] # Nil /\ req[r].stale /\ req'[r] = Nil]_tables

\* The form in which it is proved: what a request q that is not stale has read
\* still holds.
StillTrue(q) ==
  LET as == account[q.actor] IN
  /\ q.step = "signup" => account[q.actor] = Nil /\ q.org \notin orgs
  /\ q.step # "signup" => q.as \in {Nil, as}
  /\ q.step \in {"invite_check", "invite_create"} => MayInvite(as, q.actor, q.who)
  /\ q.step = "invite_create" => NotInvited(as.org, q.who)
  /\ q.step = "cancel_write" => MayCancel(as, q.actor, q.inv)
  /\ q.step \in {"accept_commit", "expire_write"} =>
       MayAccept(q.actor, q.inv) /\ (q.step = "expire_write" <=> invitation[q.inv].due)
  /\ q.step \in {"role_count", "role_write"} => MaySetRole(as, q.who, q.role)
  /\ q.step = "role_count" => Demotes(q.who, q.role)
  /\ q.step = "role_write" /\ Demotes(q.who, q.role) => OwnerRemains(as.org, q.who)

FreshReadsHold == \A r \in Requests : req[r] # Nil /\ ~req[r].stale => StillTrue(req[r])
=============================================================================
