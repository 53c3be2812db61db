--------------------------- MODULE MembershipProofs ---------------------------
(***************************************************************************)
(* Proofs about Membership, for any number of developers, organizations,   *)
(* invitations, apps and requests under way.                               *)
(*                                                                         *)
(* The inductive invariant is TypeOK with FreshReadsHold: what a request   *)
(* has read still holds as long as no other request has written.  A step   *)
(* that writes makes all other requests stale and ends its own, so the     *)
(* invariant is about the steps that only read.                            *)
(***************************************************************************)
EXTENDS Membership, FiniteSetTheorems, TLAPS

\* The routes' writes keep the tables well formed.
LEMMA WritesTyped ==
  ASSUME TablesOK,
         NEW d \in Developers, NEW o \in Orgs, NEW i \in Invitations,
         NEW inviter \in Developers, NEW invitee \in Developers, NEW a \in Apps,
         NEW role \in Roles, NEW status \in {"accepted", "canceled", "expired"}
  PROVE  /\ Found(d, o) => TablesOK'
         /\ AddInvitation(i, o, inviter, invitee) => TablesOK'
         /\ Pending(i) /\ SetStatus(i, status) => TablesOK'
         /\ Pending(i) /\ Join(d, i) => TablesOK'
         /\ d \in Registered /\ WriteRole(d, role) => TablesOK'
         /\ AddApp(a, d, o) => TablesOK'
         /\ RunOut(i) => TablesOK'
<1> USE DEF TablesOK, Member, Invitation, AppRow, Roles
<1>1. Found(d, o) => TablesOK'
  BY DEF Found
<1>2. AddInvitation(i, o, inviter, invitee) => TablesOK'
  BY DEF AddInvitation
<1>3. Pending(i) /\ SetStatus(i, status) => TablesOK'
  BY DEF SetStatus, Pending
<1>4. Pending(i) /\ Join(d, i) => TablesOK'
  BY DEF Join, Pending
<1>5. d \in Registered /\ WriteRole(d, role) => TablesOK'
  BY DEF WriteRole, Registered
<1>6. AddApp(a, d, o) => TablesOK'
  BY DEF AddApp
<1>7. RunOut(i) => TablesOK'
  BY DEF RunOut, Open, Pending
<1>8. QED
  BY <1>1, <1>2, <1>3, <1>4, <1>5, <1>6, <1>7

-----------------------------------------------------------------------------
(* The rules: what holds as long as no request is overtaken. *)

RulesInv == TablesOK /\ MembersBelong /\ InvitedOnce /\ AppsFollowDeveloper

\* With every route in one step: members belong to created organizations,
\* nobody is invited twice at a time, apps follow their developer.
THEOREM RulesHold == TablesSpec => []RulesInv
<1>1. TablesInit => RulesInv
  BY DEF TablesInit, RulesInv, TablesOK, MembersBelong, InvitedOnce, AppsFollowDeveloper,
         Registered, Open, Pending
<1>2. RulesInv /\ [TablesNext]_tables => RulesInv'
  <2> SUFFICES ASSUME RulesInv, [TablesNext]_tables PROVE RulesInv'
    OBVIOUS
  <2> USE DEF RulesInv
  <2>1. ASSUME NEW d \in Developers, NEW o \in Orgs, Signup(d, o) PROVE RulesInv'
    <3>1. TablesOK'
      BY <2>1, WritesTyped DEF Signup, Invitation, TablesOK, Found, Member, Roles
    <3>2. MembersBelong' /\ AppsFollowDeveloper'
      BY <2>1, NilAssumption DEF Signup, Found, MembersBelong, AppsFollowDeveloper, Registered, TablesOK, AppRow, Member
    <3>3. InvitedOnce'
      BY <2>1 DEF Signup, Found, InvitedOnce, Open, Pending
    <3> QED BY <3>1, <3>2, <3>3
  <2>2. ASSUME NEW d \in Developers, NEW who \in Developers, NEW i \in Invitations, Invite(d, who, i)
        PROVE RulesInv'
    <3>1. account[d].org \in Orgs
      BY <2>2 DEF Invite, Registered, TablesOK, Member
    <3>2. TablesOK'
      BY <2>2, <3>1 DEF Invite, AddInvitation, TablesOK, Invitation
    <3>5. AppsFollowDeveloper'
      BY <2>2 DEF Invite, AddInvitation, AppsFollowDeveloper, Registered
    <3>3. MembersBelong' /\ AppsFollowDeveloper'
      BY <2>2, <3>5 DEF Invite, AddInvitation, MembersBelong, Registered, TablesOK
    <3>4. InvitedOnce'
      BY <2>2 DEF Invite, AddInvitation, InvitedOnce, NotInvited, Open, Pending, TablesOK
    <3> QED BY <3>2, <3>3, <3>4
  <2>3. ASSUME NEW i \in Invitations, NEW status \in {"canceled", "expired"},
               Pending(i), SetStatus(i, status)
        PROVE RulesInv'
    <3>1. TablesOK'
      BY <2>3 DEF SetStatus, Pending, TablesOK, Invitation
    <3>4. \A j \in Invitations : invitation'[j] # Nil =>
             invitation[j] # Nil /\ invitation'[j].org = invitation[j].org
      BY <2>3 DEF SetStatus, Pending, TablesOK, Invitation
    <3>2. MembersBelong' /\ AppsFollowDeveloper'
      BY <2>3, <3>4 DEF SetStatus, MembersBelong, AppsFollowDeveloper, Registered
    <3>3. InvitedOnce'
      BY <2>3 DEF SetStatus, InvitedOnce, Open, Pending, TablesOK, Invitation
    <3> QED BY <3>1, <3>2, <3>3
  <2>4. ASSUME NEW d \in Developers, NEW i \in Invitations, d \in Registered, Pending(i), Join(d, i)
        PROVE RulesInv'
    <3>1. TablesOK'
      BY <2>4 DEF Join, Pending, TablesOK, Invitation, Member, AppRow, Roles
    <3> DEFINE home == invitation[i].org
    <3>11. /\ invitation[i].org \in Orgs
          /\ account' = [account EXCEPT ![d] = [org |-> home, role |-> "member"]]
          /\ account \in [Developers -> Member \union {Nil}]
          /\ orgs' = orgs
      BY <2>4 DEF Join, Pending, TablesOK, Invitation
    <3>12. account'[d] # Nil
      BY <3>1, NilAssumption, <3>11, <2>4 DEF Member, Roles
    <3>13. /\ account'[d].org = home
          /\ \A x \in Developers \ {d} : account'[x] = account[x]
      BY <3>11, <2>4
    <3>14. Registered' = Registered
      BY <3>12, <3>13, <2>4 DEF Registered
    <3>2. AppsFollowDeveloper'
      <4> SUFFICES ASSUME NEW a \in Apps, app'[a] # Nil
                   PROVE  /\ app'[a].developer \in Registered'
                          /\ app'[a].org = account'[app'[a].developer].org
        BY DEF AppsFollowDeveloper
      <4>0. /\ app' = [x \in Apps |-> IF app[x] # Nil /\ app[x].developer = d
                              THEN [app[x] EXCEPT !.org = home] ELSE app[x]]
            /\ app \in [Apps -> AppRow \union {Nil}]
            /\ AppsFollowDeveloper
        BY <2>4 DEF Join, TablesOK
      <4>1. CASE app[a] # Nil /\ app[a].developer = d
        <5>1. app[a] \in AppRow
          BY <4>0, <4>1
        <5>2. app'[a] = [app[a] EXCEPT !.org = home]
          BY <4>0, <4>1
        <5>3. app'[a].developer = d /\ app'[a].org = home
          BY <5>1, <5>2, <4>1 DEF AppRow
        <5> QED BY <5>3, <3>13, <3>14, <2>4
      <4>2. CASE app[a] = Nil
        BY <4>2, <4>0
      <4>3. CASE app[a] # Nil /\ app[a].developer # d
        <5>1. app'[a] = app[a] /\ app[a] \in AppRow
          BY <4>0, <4>3
        <5>2. app[a].developer \in Registered /\ app[a].org = account[app[a].developer].org
          BY <4>0, <4>3 DEF AppsFollowDeveloper
        <5> QED BY <5>1, <5>2, <4>3, <3>13, <3>14 DEF AppRow
      <4> QED BY <4>1, <4>2, <4>3
    <3>3. InvitedOnce'
      BY <2>4 DEF Join, InvitedOnce, Open, Pending, TablesOK, Invitation
    <3>4. \A j \in Invitations : invitation'[j] # Nil =>
             invitation[j] # Nil /\ invitation'[j].org = invitation[j].org
      BY <2>4 DEF Join, Pending, TablesOK, Invitation
    <3>5. home \in orgs
      BY <2>4 DEF MembersBelong, Pending
    <3>6. MembersBelong'
      BY <3>4, <3>5, <3>11, <3>13, <3>14 DEF MembersBelong
    <3> QED BY <3>1, <3>2, <3>3, <3>6
  <2>5. ASSUME NEW d \in Developers, NEW target \in Developers, NEW role \in Roles,
               SetRole(d, target, role)
        PROVE RulesInv'
    <3>1. target \in Registered /\ WriteRole(target, role)
      BY <2>5 DEF SetRole, MaySetRole
    <3>2. TablesOK'
      BY <3>1 DEF WriteRole, TablesOK, Registered, Member
    <3>3. \A x \in Developers : /\ account'[x] # Nil <=> account[x] # Nil
                                /\ account[x] # Nil => account'[x].org = account[x].org
      BY <3>1, <3>2, NilAssumption DEF WriteRole, TablesOK, Registered, Member
    <3>4. Registered' = Registered
      BY <3>3 DEF Registered
    <3>5. MembersBelong' /\ AppsFollowDeveloper'
      BY <3>1, <3>3, <3>4 DEF WriteRole, MembersBelong, AppsFollowDeveloper, Registered
    <3>6. InvitedOnce'
      BY <3>1 DEF WriteRole, InvitedOnce, Open, Pending
    <3> QED BY <3>2, <3>5, <3>6
  <2>6. ASSUME NEW d \in Developers, NEW a \in Apps, CreateApp(d, a)
        PROVE RulesInv'
    <3>1. /\ app[a] = Nil /\ d \in Registered
          /\ app' = [app EXCEPT ![a] = [developer |-> d, org |-> account[d].org]]
          /\ UNCHANGED <<account, orgs, invitation>>
          /\ account[d].org \in Orgs
      BY <2>6 DEF CreateApp, AddApp, Registered, TablesOK, Member
    <3>2. TablesOK'
      BY <3>1 DEF TablesOK, AppRow
    <3>3. AppsFollowDeveloper'
      BY <3>1 DEF AppsFollowDeveloper, TablesOK, Registered
    <3>4. MembersBelong' /\ InvitedOnce'
      BY <3>1 DEF MembersBelong, InvitedOnce, Registered, Open, Pending
    <3> QED BY <3>2, <3>3, <3>4
  <2>7. ASSUME NEW i \in Invitations, RunOut(i) PROVE RulesInv'
    <3>1. TablesOK'
      BY <2>7 DEF RunOut, Open, Pending, TablesOK, Invitation
    <3>2. \A j \in Invitations :
             /\ invitation'[j] # Nil <=> invitation[j] # Nil
             /\ invitation[j] # Nil =>
                  /\ invitation'[j].org = invitation[j].org
                  /\ invitation'[j].invitee = invitation[j].invitee
                  /\ invitation'[j].status = invitation[j].status
                  /\ invitation[j].due => invitation'[j].due
      BY <2>7, <3>1, NilAssumption DEF RunOut, Open, Pending, TablesOK, Invitation
    <3>3. MembersBelong' /\ AppsFollowDeveloper'
      BY <2>7, <3>2 DEF RunOut, MembersBelong, AppsFollowDeveloper, Registered
    <3>4. \A j \in Invitations : Open(j)' => Open(j)
      BY <3>1, <3>2 DEF Open, Pending, TablesOK, Invitation
    <3>5. InvitedOnce'
      BY <3>2, <3>4 DEF InvitedOnce, Open, Pending
    <3> QED BY <3>1, <3>3, <3>5
  <2>8. ASSUME UNCHANGED tables PROVE RulesInv'
    BY <2>8 DEF tables, TablesOK, MembersBelong, InvitedOnce, AppsFollowDeveloper,
                Registered, Open, Pending
  <2>9. ASSUME NEW d \in Developers, NEW i \in Invitations, Cancel(d, i) PROVE RulesInv'
    BY <2>9, <2>3 DEF Cancel, MayCancel
  <2>10. ASSUME NEW d \in Developers, NEW i \in Invitations, Accept(d, i) PROVE RulesInv'
    BY <2>10, <2>3, <2>4 DEF Accept, MayAccept
  <2> QED
    BY <2>1, <2>2, <2>5, <2>6, <2>7, <2>8, <2>9, <2>10 DEF TablesNext
<1>3. QED BY <1>1, <1>2, PTL DEF TablesSpec

\* Invitations come from outside: an invitation to the organization its
\* invitee has meanwhile joined is no longer open.
LEMMA InvitedFromOutsideHolds == TablesSpec => []InvitedFromOutside
<1>1. TablesInit => InvitedFromOutside
  BY DEF TablesInit, InvitedFromOutside, Open, Pending
<1>2. RulesInv /\ RulesInv' /\ InvitedFromOutside /\ [TablesNext]_tables => InvitedFromOutside'
  <2> SUFFICES ASSUME RulesInv, RulesInv', InvitedFromOutside, [TablesNext]_tables,
                      NEW j \in Invitations, Open(j)'
               PROVE  /\ invitation'[j].invitee \in Registered'
                      /\ account'[invitation'[j].invitee].org # invitation'[j].org
    BY DEF InvitedFromOutside
  <2> DEFINE who == invitation[j].invitee
  <2>0. TablesOK /\ TablesOK' /\ InvitedOnce /\ AppsFollowDeveloper
    BY DEF RulesInv
  <2>1. ASSUME NEW d \in Developers, NEW o \in Orgs, Signup(d, o)
        PROVE  invitation'[j].invitee \in Registered' /\ account'[invitation'[j].invitee].org # invitation'[j].org
    BY <2>0, <2>1 DEF Signup, Found, InvitedFromOutside, Registered, Open, Pending, TablesOK
  <2>2. ASSUME NEW d \in Developers, NEW w \in Developers, NEW i \in Invitations, Invite(d, w, i)
        PROVE  invitation'[j].invitee \in Registered' /\ account'[invitation'[j].invitee].org # invitation'[j].org
    BY <2>0, <2>2 DEF Invite, MayInvite, AddInvitation, InvitedFromOutside, Registered, Open, Pending, TablesOK
  <2>3. ASSUME NEW i \in Invitations, NEW status \in {"canceled", "expired"}, Pending(i), SetStatus(i, status)
        PROVE  invitation'[j].invitee \in Registered' /\ account'[invitation'[j].invitee].org # invitation'[j].org
    BY <2>0, <2>3 DEF SetStatus, InvitedFromOutside, Registered, Open, Pending, TablesOK, Invitation
  <2>4. ASSUME NEW d \in Developers, NEW i \in Invitations, d \in Registered, Open(i),
               invitation[i].invitee = d, Join(d, i)
        PROVE  invitation'[j].invitee \in Registered' /\ account'[invitation'[j].invitee].org # invitation'[j].org
    <3>1. i # j /\ invitation'[j] = invitation[j] /\ Open(j)
      BY <2>0, <2>4 DEF Join, Open, Pending, TablesOK, Invitation
    <3>2. who \in Registered /\ who \in Developers /\ account[who].org # invitation[j].org
      BY <3>1 DEF InvitedFromOutside, Registered
    <3>3. who = d => invitation[i].org # invitation[j].org
      BY <3>1, <2>0, <2>4 DEF InvitedOnce
    <3>4. account'[d].org = invitation[i].org /\ account'[d] # Nil
      BY <2>0, <2>4, NilAssumption DEF Join, TablesOK, Open, Pending, Invitation, Member, Roles
    <3>5. who # d => account'[who] = account[who]
      BY <2>0, <2>4, <3>2 DEF Join, TablesOK
    <3> QED BY <3>1, <3>2, <3>3, <3>4, <3>5 DEF Registered
  <2>5. ASSUME NEW d \in Developers, NEW target \in Developers, NEW role \in Roles, SetRole(d, target, role)
        PROVE  invitation'[j].invitee \in Registered' /\ account'[invitation'[j].invitee].org # invitation'[j].org
    <3>1. target \in Registered /\ WriteRole(target, role) /\ Open(j) /\ invitation' = invitation
      BY <2>5 DEF SetRole, MaySetRole, WriteRole, Open, Pending
    <3>2. \A x \in Developers : /\ account'[x] # Nil <=> account[x] # Nil
                                /\ account[x] # Nil => account'[x].org = account[x].org
      BY <3>1, <2>0, NilAssumption DEF WriteRole, TablesOK, Registered, Member
    <3> QED BY <3>1, <3>2 DEF InvitedFromOutside, Registered
  <2>6. ASSUME NEW d \in Developers, NEW a \in Apps, CreateApp(d, a)
        PROVE  invitation'[j].invitee \in Registered' /\ account'[invitation'[j].invitee].org # invitation'[j].org
    BY <2>6 DEF CreateApp, AddApp, InvitedFromOutside, Registered, Open, Pending
  <2>7. ASSUME NEW i \in Invitations, RunOut(i)
        PROVE  invitation'[j].invitee \in Registered' /\ account'[invitation'[j].invitee].org # invitation'[j].org
    BY <2>0, <2>7 DEF RunOut, InvitedFromOutside, Registered, Open, Pending, TablesOK, Invitation
  <2>8. ASSUME UNCHANGED tables
        PROVE  invitation'[j].invitee \in Registered' /\ account'[invitation'[j].invitee].org # invitation'[j].org
    BY <2>8 DEF tables, InvitedFromOutside, Registered, Open, Pending
  <2>9. ASSUME NEW d \in Developers, NEW i \in Invitations, Cancel(d, i)
        PROVE  invitation'[j].invitee \in Registered' /\ account'[invitation'[j].invitee].org # invitation'[j].org
    BY <2>9, <2>3 DEF Cancel, MayCancel
  <2>10. ASSUME NEW d \in Developers, NEW i \in Invitations, Accept(d, i)
        PROVE  invitation'[j].invitee \in Registered' /\ account'[invitation'[j].invitee].org # invitation'[j].org
    BY <2>10, <2>3, <2>4 DEF Accept, MayAccept, Open
  <2> QED
    BY <2>1, <2>2, <2>5, <2>6, <2>7, <2>8, <2>9, <2>10 DEF TablesNext
<1>3. QED BY <1>1, <1>2, RulesHold, PTL DEF TablesSpec

\* With every route in one step an organization loses its last owner only by
\* that owner's own acceptance of an invitation elsewhere.
THEOREM OwnersStay == TablesSpec => OwnersKept
<1>1. RulesInv /\ InvitedFromOutside /\ [TablesNext]_tables =>
        [\A o \in Orgs : Owners(o) # {} /\ Owners(o)' = {} =>
           \E d \in Owners(o) : account'[d].org # o]_tables
  <2> SUFFICES ASSUME RulesInv, InvitedFromOutside, TablesNext,
                      NEW o \in Orgs, NEW w \in Owners(o), Owners(o)' = {}
               PROVE  \E d \in Owners(o) : account'[d].org # o
    OBVIOUS
  <2>0. TablesOK /\ w \in Developers /\ account[w] = [org |-> o, role |-> "owner"]
    BY DEF RulesInv, Owners, Registered
  <2>1. account'[w] # account[w]
    BY <2>0 DEF Owners, Registered
  <2>2. CASE \E d \in Developers, x \in Orgs : Signup(d, x)
    BY <2>0, <2>1, <2>2, NilAssumption DEF Signup, Found, TablesOK, Member, Roles
  <2>3. ASSUME NEW d \in Developers, NEW i \in Invitations, Open(i), invitation[i].invitee = d, Join(d, i)
        PROVE  \E x \in Owners(o) : account'[x].org # o
    <3>1. w = d
      BY <2>0, <2>1, <2>3 DEF Join, TablesOK
    <3>2. account'[d].org = invitation[i].org
      BY <2>0, <2>3 DEF Join, TablesOK
    <3>3. account[d].org # invitation[i].org /\ account[d].org = o
      BY <2>0, <2>3, <3>1 DEF InvitedFromOutside
    <3> QED BY <3>1, <3>2, <3>3
  <2>4. ASSUME NEW d \in Developers, NEW target \in Developers, NEW role \in Roles, SetRole(d, target, role)
        PROVE  FALSE
    <3>1. w = target /\ account' = [account EXCEPT ![target].role = role]
      BY <2>0, <2>1, <2>4 DEF SetRole, WriteRole, TablesOK
    <3>2. role # "owner"
      BY <2>0, <2>1, <3>1 DEF TablesOK, Member
    <3>3. account[d].org = o /\ Demotes(target, role)
      BY <2>0, <2>4, <3>1, <3>2 DEF SetRole, MaySetRole, Demotes
    <3>4. PICK z \in Owners(o) : z # target
      BY <2>4, <3>3 DEF SetRole, OwnerRemains
    <3>5. z \in Developers /\ account'[z] = account[z] /\ account[z] # Nil
          /\ account[z] = [org |-> o, role |-> "owner"]
      BY <2>0, <3>1, <3>4 DEF Owners, Registered, TablesOK
    <3>6. z \in Owners(o)'
      BY <3>5 DEF Owners, Registered
    <3> QED BY <3>6
  <2>5. account' = account => FALSE
    BY <2>1
  <2> QED
    BY <2>2, <2>3, <2>4, <2>5 DEF TablesNext, Invite, AddInvitation, Cancel, SetStatus, Accept, MayAccept,
       Open, CreateApp, AddApp, RunOut
<1>2. QED BY <1>1, RulesHold, InvitedFromOutsideHolds, PTL DEF TablesSpec, OwnersKept

-----------------------------------------------------------------------------
(* The routes with other requests in between. *)

\* What the next queries of a request q need is there, stale or not: rows are
\* never deleted.
Carries(q) ==
  /\ q.step = "signup" => q.org \in Orgs
  /\ q.step # "signup" => q.actor \in Registered
  /\ q.step \in {"invite", "invite_check", "invite_create", "cancel", "role", "role_count", "app"}
       => q.as \in Member
  /\ q.step \in {"invite_check", "invite_create"} => q.who \in Developers
  /\ q.step \in {"cancel_write", "expire_write", "accept_commit"} =>
       q.inv \in Invitations /\ invitation[q.inv] # Nil
  /\ q.step \in {"role_count", "role_write"} => q.who \in Registered /\ q.role \in Roles

RequestsCarry == \A r \in Requests : req[r] # Nil => Carries(req[r])

IInv == TypeOK /\ RequestsCarry /\ FreshReadsHold

\* A step that only reads and leaves request r with q.
LEMMA ReadingStep ==
  ASSUME IInv, ReadOnly, NEW r \in Requests, NEW q,
         req' = [req EXCEPT ![r] = q],
         q # Nil => q \in Request /\ Carries(q) /\ (~q.stale => StillTrue(q))
  PROVE  IInv'
<1>1. /\ account' = account /\ orgs' = orgs /\ invitation' = invitation /\ app' = app
      /\ TypeOK /\ RequestsCarry /\ FreshReadsHold
  BY DEF ReadOnly, tables, IInv
<1>2. TypeOK'
  BY <1>1 DEF TypeOK, TablesOK
<1>3. \A s \in Requests : req'[s] = IF s = r THEN q ELSE req[s]
  BY <1>1 DEF TypeOK
<1>4. ASSUME NEW s \in Requests, req'[s] # Nil
      PROVE  Carries(req[s])' /\ (~req'[s].stale => StillTrue(req[s])')
  <2>1. Carries(req'[s]) /\ (~req'[s].stale => StillTrue(req'[s]))
    BY <1>1, <1>3, <1>4 DEF RequestsCarry, FreshReadsHold
  <2> QED
    BY <2>1, <1>1 DEF Carries, StillTrue, Registered, MayInvite, NotInvited, MayCancel, MayAccept,
       MaySetRole, Demotes, OwnerRemains, Owners, Open, Pending
<1> QED BY <1>2, <1>4 DEF IInv, RequestsCarry, FreshReadsHold

\* A step that writes: the requests that stay under way are stale, and no row
\* is lost.
LEMMA WritingStep ==
  ASSUME IInv, TablesOK',
         \A d \in Developers : account[d] # Nil => account'[d] # Nil,
         \A i \in Invitations : invitation[i] # Nil => invitation'[i] # Nil,
         req' \in [Requests -> Request \union {Nil}],
         \A s \in Requests : req'[s] # Nil =>
           req[s] # Nil /\ req'[s] = [req[s] EXCEPT !.stale = TRUE]
  PROVE  IInv'
<1>1. TypeOK'
  BY DEF TypeOK
<1>2. ASSUME NEW s \in Requests, req'[s] # Nil PROVE Carries(req[s])' /\ req'[s].stale
  <2>1. req[s] \in Request /\ req'[s] = [req[s] EXCEPT !.stale = TRUE] /\ Carries(req[s])
    BY <1>2 DEF IInv, TypeOK, RequestsCarry
  <2>2. /\ req'[s].step = req[s].step /\ req'[s].actor = req[s].actor
        /\ req'[s].as = req[s].as /\ req'[s].org = req[s].org
        /\ req'[s].who = req[s].who /\ req'[s].inv = req[s].inv
        /\ req'[s].role = req[s].role /\ req'[s].stale
    BY <2>1 DEF Request
  <2>3. Registered \subseteq Registered'
    BY DEF Registered
  <2> QED BY <2>1, <2>2, <2>3 DEF Carries
<1> QED BY <1>1, <1>2 DEF IInv, RequestsCarry, FreshReadsHold

\* Finish leaves the others stale.
LEMMA FinishLeavesStale ==
  ASSUME TypeOK, NEW r \in Requests, Finish(r)
  PROVE  /\ req' \in [Requests -> Request \union {Nil}]
         /\ req'[r] = Nil
         /\ \A s \in Requests : req'[s] # Nil =>
              req[s] # Nil /\ req'[s] = [req[s] EXCEPT !.stale = TRUE]
<1>1. \A s \in Requests : req[s] # Nil => [req[s] EXCEPT !.stale = TRUE] \in Request
  BY DEF TypeOK, Request
<1> QED BY <1>1 DEF Finish, TypeOK

\* The reading steps.
LEMMA ReadingStepsKeepIInv ==
  ASSUME IInv, NEW r \in Requests
  PROVE  /\ \A d \in Developers, o \in Orgs, e \in BOOLEAN : SignupCheck(r, d, o, e) => IInv'
         /\ \A d \in Developers, op \in {"invite", "cancel", "role", "app"} : Authenticate(r, d, op) => IInv'
         /\ \A d \in Developers : InviteRead(r, d) => IInv'
         /\ InviteCheck(r) => IInv'
         /\ \A i \in Invitations : CancelRead(r, i) => IInv'
         /\ \A d \in Developers, i \in Invitations : AcceptRead(r, d, i) => IInv'
         /\ \A d \in Developers, role \in Roles : RoleRead(r, d, role) => IInv'
         /\ RoleCount(r) => IInv'
<1>0. ASSUME Refuse(r), ReadOnly PROVE IInv'
  BY <1>0, ReadingStep DEF Refuse
<1>11. TypeOK /\ TablesOK /\ RequestsCarry /\ FreshReadsHold
  BY DEF IInv, TypeOK
<1>12. Nil \notin Request /\ Nil \notin Member /\ Nil \notin Orgs /\ Nil \notin Developers
  BY RequestAssumption, NilAssumption
<1>13. req[r] # Nil => req[r] \in Request
  BY <1>11 DEF TypeOK
<1>1. ASSUME NEW d \in Developers, NEW o \in Orgs, NEW e \in BOOLEAN, SignupCheck(r, d, o, e) PROVE IInv'
  <2>1. PICK n \in Orgs : /\ n \notin orgs
                          /\ req' = [req EXCEPT ![r] =
                               [step |-> "signup", actor |-> d, as |-> Nil, org |-> n, who |-> Nil,
                                inv |-> Nil, role |-> Nil, stale |-> FALSE]]
    BY <1>1 DEF SignupCheck, Arrive
  <2> DEFINE q == [step |-> "signup", actor |-> d, as |-> Nil, org |-> n, who |-> Nil,
                   inv |-> Nil, role |-> Nil, stale |-> FALSE]
  <2>2. q \in Request /\ Carries(q) /\ StillTrue(q)
    BY <1>1, <2>1 DEF SignupCheck, Request, Steps, Carries, StillTrue
  <2>3. ReadOnly /\ req' = [req EXCEPT ![r] = q]
    BY <1>1, <2>1 DEF SignupCheck
  <2> QED BY <2>2, <2>3, ReadingStep
<1>2. ASSUME NEW d \in Developers, NEW op \in {"invite", "cancel", "role", "app"}, Authenticate(r, d, op)
      PROVE  IInv'
  <2> DEFINE q == [step |-> op, actor |-> d, as |-> account[d], org |-> Nil, who |-> Nil,
                   inv |-> Nil, role |-> Nil, stale |-> FALSE]
  <2>1. account[d] \in Member /\ d \in Registered
    BY <1>2, <1>11 DEF Authenticate, Registered, TablesOK
  <2>2. q \in Request /\ Carries(q) /\ StillTrue(q)
    BY <2>1 DEF Request, Steps, Carries, StillTrue
  <2>3. ReadOnly /\ req' = [req EXCEPT ![r] = q]
    BY <1>2 DEF Authenticate, Arrive
  <2> QED BY <2>2, <2>3, ReadingStep
<1>3. ASSUME NEW d \in Developers, InviteRead(r, d) PROVE IInv'
  <2> DEFINE q == [req[r] EXCEPT !.step = "invite_check", !.who = d]
  <2>0. req[r] \in Request /\ req[r].step = "invite" /\ Carries(req[r])
        /\ (~req[r].stale => StillTrue(req[r]))
    BY <1>3, <1>13, <1>11 DEF InviteRead, At, RequestsCarry, FreshReadsHold
  <2>1. CASE MayInvite(req[r].as, req[r].actor, d)
    <3>1. /\ q.step = "invite_check" /\ q.who = d /\ q.actor = req[r].actor /\ q.as = req[r].as
          /\ q.stale = req[r].stale /\ q \in Request
      BY <2>0 DEF Request, Steps
    <3>2. Carries(q) /\ (~q.stale => StillTrue(q))
      BY <2>0, <2>1, <3>1, <1>12 DEF Carries, StillTrue
    <3>3. ReadOnly /\ req' = [req EXCEPT ![r] = q]
      BY <1>3, <2>1 DEF InviteRead
    <3> QED BY <3>1, <3>2, <3>3, ReadingStep
  <2> QED BY <2>1, <1>3, <1>0 DEF InviteRead
<1>4. ASSUME InviteCheck(r) PROVE IInv'
  <2> DEFINE q == [req[r] EXCEPT !.step = "invite_create"]
  <2>0. req[r] \in Request /\ req[r].step = "invite_check" /\ Carries(req[r])
        /\ (~req[r].stale => StillTrue(req[r]))
    BY <1>4, <1>13, <1>11 DEF InviteCheck, At, RequestsCarry, FreshReadsHold
  <2>1. CASE NotInvited(req[r].as.org, req[r].who)
    <3>1. /\ q.step = "invite_create" /\ q.who = req[r].who /\ q.actor = req[r].actor
          /\ q.as = req[r].as /\ q.stale = req[r].stale /\ q \in Request
      BY <2>0 DEF Request, Steps
    <3>2. Carries(q) /\ (~q.stale => StillTrue(q))
      BY <2>0, <2>1, <3>1, <1>12 DEF Carries, StillTrue
    <3>3. ReadOnly /\ req' = [req EXCEPT ![r] = q]
      BY <1>4, <2>1 DEF InviteCheck, Goto
    <3> QED BY <3>1, <3>2, <3>3, ReadingStep
  <2> QED BY <2>1, <1>4, <1>0 DEF InviteCheck
<1>5. ASSUME NEW i \in Invitations, CancelRead(r, i) PROVE IInv'
  <2> DEFINE q == [req[r] EXCEPT !.step = "cancel_write", !.inv = i, !.as = Nil]
  <2>0. req[r] \in Request /\ req[r].step = "cancel" /\ Carries(req[r])
        /\ (~req[r].stale => StillTrue(req[r]))
    BY <1>5, <1>13, <1>11 DEF CancelRead, At, RequestsCarry, FreshReadsHold
  <2>1. CASE MayCancel(req[r].as, req[r].actor, i)
    <3>1. /\ q.step = "cancel_write" /\ q.inv = i /\ q.actor = req[r].actor
          /\ q.as = Nil /\ q.stale = req[r].stale /\ q \in Request
      BY <2>0 DEF Request, Steps
    <3>2. Carries(q) /\ (~q.stale => StillTrue(q))
      BY <2>0, <2>1, <3>1, <1>12 DEF Carries, StillTrue, MayCancel, Pending
    <3>3. ReadOnly /\ req' = [req EXCEPT ![r] = q]
      BY <1>5, <2>1 DEF CancelRead
    <3> QED BY <3>1, <3>2, <3>3, ReadingStep
  <2> QED BY <2>1, <1>5, <1>0 DEF CancelRead
<1>6. ASSUME NEW d \in Developers, NEW i \in Invitations, AcceptRead(r, d, i) PROVE IInv'
  <2> DEFINE q == [step |-> IF invitation[i].due THEN "expire_write" ELSE "accept_commit",
                   actor |-> d, as |-> Nil, org |-> Nil, who |-> Nil,
                   inv |-> i, role |-> Nil, stale |-> FALSE]
  <2>1. d \in Registered /\ MayAccept(d, i)
    BY <1>6 DEF AcceptRead
  <2>2. q \in Request /\ Carries(q) /\ StillTrue(q)
    BY <2>1 DEF Request, Steps, Carries, StillTrue, MayAccept, Pending
  <2>3. ReadOnly /\ req' = [req EXCEPT ![r] = q]
    BY <1>6 DEF AcceptRead, Arrive
  <2> QED BY <2>2, <2>3, ReadingStep
<1>7. ASSUME NEW d \in Developers, NEW role \in Roles, RoleRead(r, d, role) PROVE IInv'
  <2> DEFINE q == [req[r] EXCEPT
              !.step = IF Demotes(d, role) THEN "role_count" ELSE "role_write",
              !.as = IF Demotes(d, role) THEN req[r].as ELSE Nil, !.who = d, !.role = role]
  <2>0. req[r] \in Request /\ req[r].step = "role" /\ Carries(req[r])
        /\ (~req[r].stale => StillTrue(req[r]))
    BY <1>7, <1>13, <1>11 DEF RoleRead, At, RequestsCarry, FreshReadsHold
  <2>1. CASE MaySetRole(req[r].as, d, role)
    <3>1. /\ q.step = IF Demotes(d, role) THEN "role_count" ELSE "role_write"
          /\ q.as = IF Demotes(d, role) THEN req[r].as ELSE Nil
          /\ q.who = d /\ q.role = role /\ q.actor = req[r].actor
          /\ q.stale = req[r].stale /\ q \in Request
      BY <2>0 DEF Request, Steps
    <3>2. Carries(q) /\ (~q.stale => StillTrue(q))
      BY <2>0, <2>1, <3>1, <1>12 DEF Carries, StillTrue, MaySetRole
    <3>3. ReadOnly /\ req' = [req EXCEPT ![r] = q]
      BY <1>7, <2>1 DEF RoleRead
    <3> QED BY <3>1, <3>2, <3>3, ReadingStep
  <2> QED BY <2>1, <1>7, <1>0 DEF RoleRead
<1>8. ASSUME RoleCount(r) PROVE IInv'
  <2> DEFINE q == [req[r] EXCEPT !.step = "role_write", !.as = Nil]
             all == Owners(req[r].as.org)
  <2>0. req[r] \in Request /\ req[r].step = "role_count" /\ Carries(req[r])
        /\ (~req[r].stale => StillTrue(req[r]))
    BY <1>8, <1>13, <1>11 DEF RoleCount, At, RequestsCarry, FreshReadsHold
  <2>1. CASE ~(Cardinality(all) <= 1)
    <3>1. /\ q.step = "role_write" /\ q.as = Nil /\ q.who = req[r].who /\ q.role = req[r].role
          /\ q.actor = req[r].actor /\ q.stale = req[r].stale /\ q \in Request
      BY <2>0 DEF Request, Steps
    <3>2. OwnerRemains(req[r].as.org, req[r].who)
      <4>1. ASSUME all \subseteq {req[r].who} PROVE FALSE
        <5>1. IsFiniteSet({req[r].who}) /\ Cardinality({req[r].who}) = 1
          BY FS_Singleton
        <5>2. Cardinality(all) <= 1
          BY <4>1, <5>1, FS_Subset
        <5> QED BY <5>2, <2>1
      <4> QED BY <4>1 DEF OwnerRemains
    <3>3. Carries(q) /\ (~q.stale => StillTrue(q))
      BY <2>0, <3>1, <3>2, <1>12 DEF Carries, StillTrue
    <3>4. ReadOnly /\ req' = [req EXCEPT ![r] = q]
      BY <1>8, <2>1 DEF RoleCount
    <3> QED BY <3>1, <3>3, <3>4, ReadingStep
  <2> QED BY <2>1, <1>8, <1>0 DEF RoleCount
<1>9. \A d \in Developers, o \in Orgs, e \in BOOLEAN : SignupCheck(r, d, o, e) => IInv'
  BY <1>1
<1>10. \A d \in Developers, op \in {"invite", "cancel", "role", "app"} : Authenticate(r, d, op) => IInv'
  BY <1>2
<1>14. \A d \in Developers : InviteRead(r, d) => IInv'
  BY <1>3
<1>15. \A i \in Invitations : CancelRead(r, i) => IInv'
  BY <1>5
<1>16. \A d \in Developers, i \in Invitations : AcceptRead(r, d, i) => IInv'
  BY <1>6
<1>17. \A d \in Developers, role \in Roles : RoleRead(r, d, role) => IInv'
  BY <1>7
<1> QED BY <1>4, <1>8, <1>9, <1>10, <1>14, <1>15, <1>16, <1>17

\* The writing steps.
LEMMA WritingStepsKeepIInv ==
  ASSUME IInv, NEW r \in Requests
  PROVE  /\ SignupCreate(r) => IInv'
         /\ \A i \in Invitations : InviteCreate(r, i) => IInv'
         /\ CancelWrite(r) => IInv'
         /\ ExpireWrite(r) => IInv'
         /\ AcceptCommit(r) => IInv'
         /\ RoleWrite(r) => IInv'
         /\ \A a \in Apps : AppCreate(r, a) => IInv'
<1>0. ASSUME Refuse(r), ReadOnly PROVE IInv'
  BY <1>0, ReadingStep DEF Refuse
<1>1. TypeOK /\ TablesOK /\ RequestsCarry /\ Nil \notin Member /\ Nil \notin Invitation
  BY NilAssumption DEF IInv, TypeOK
<1>2. req[r] # Nil => req[r] \in Request /\ Carries(req[r])
  BY <1>1 DEF TypeOK, RequestsCarry
<1>3. ASSUME SignupCreate(r) PROVE IInv'
  <2>1. CASE ~(account[req[r].actor] = Nil /\ req[r].org \notin orgs)
    BY <2>1, <1>3, <1>0 DEF SignupCreate
  <2>2. CASE account[req[r].actor] = Nil /\ req[r].org \notin orgs
    <3>1. req[r].actor \in Developers /\ req[r].org \in Orgs /\ Found(req[r].actor, req[r].org) /\ Finish(r)
      BY <1>2, <1>3, <2>2 DEF SignupCreate, At, Request, Carries
    <3>2. TablesOK' /\ invitation' = invitation
      BY <3>1, <1>1 DEF Found, TablesOK, Member, Roles
    <3>3. \A d \in Developers : account[d] # Nil => account'[d] # Nil
      BY <3>1, <2>2, <1>1 DEF Found, TablesOK
    <3> QED BY <1>1, <3>1, <3>2, <3>3, FinishLeavesStale, WritingStep
  <2> QED BY <2>1, <2>2
<1>4. ASSUME NEW i \in Invitations, InviteCreate(r, i) PROVE IInv'
  <2>1. /\ req[r].as.org \in Orgs /\ req[r].actor \in Developers /\ req[r].who \in Developers
        /\ AddInvitation(i, req[r].as.org, req[r].actor, req[r].who) /\ Finish(r)
    BY <1>2, <1>4 DEF InviteCreate, At, Request, Carries, Member
  <2>2. TablesOK' /\ account' = account
    BY <2>1, <1>1 DEF AddInvitation, TablesOK, Invitation
  <2>3. \A j \in Invitations : invitation[j] # Nil => invitation'[j] # Nil
    BY <2>1, <1>1 DEF AddInvitation, TablesOK
  <2> QED BY <1>1, <2>1, <2>2, <2>3, FinishLeavesStale, WritingStep
<1>5. ASSUME NEW status \in {"canceled", "expired"}, req[r] # Nil,
             req[r].step \in {"cancel_write", "expire_write"}, SetStatus(req[r].inv, status), Finish(r)
      PROVE  IInv'
  <2>1. req[r].inv \in Invitations /\ invitation[req[r].inv] \in Invitation
    BY <1>1, <1>2, <1>5 DEF Carries, TablesOK
  <2>2. TablesOK' /\ account' = account
    BY <2>1, <1>5, <1>1 DEF SetStatus, TablesOK, Invitation
  <2>3. \A j \in Invitations : invitation[j] # Nil => invitation'[j] # Nil
    BY <2>1, <1>5, <1>1 DEF SetStatus, TablesOK, Invitation
  <2> QED BY <1>1, <1>5, <2>1, <2>2, <2>3, FinishLeavesStale, WritingStep
<1>6. ASSUME AcceptCommit(r) PROVE IInv'
  <2>1. CASE NamesClash(req[r].actor, invitation[req[r].inv].org)
    BY <2>1, <1>6, <1>0 DEF AcceptCommit
  <2>2. CASE ~NamesClash(req[r].actor, invitation[req[r].inv].org)
    <3> DEFINE d == req[r].actor  i == req[r].inv
    <3>1. d \in Developers /\ i \in Invitations /\ invitation[i] \in Invitation /\ Join(d, i) /\ Finish(r)
      BY <1>1, <1>2, <1>6, <2>2 DEF AcceptCommit, At, Request, Carries, TablesOK
    <3> HIDE DEF d, i
    <3>2. TablesOK'
      <4>1. account' \in [Developers -> Member \union {Nil}]
        BY <3>1, <1>1 DEF Join, TablesOK, Member, Roles, Invitation
      <4>2. invitation' \in [Invitations -> Invitation \union {Nil}]
        BY <3>1, <1>1 DEF Join, TablesOK, Invitation
      <4>3. app' \in [Apps -> AppRow \union {Nil}]
        BY <3>1, <1>1 DEF Join, TablesOK, Invitation, AppRow
      <4> QED BY <3>1, <1>1, <4>1, <4>2, <4>3 DEF Join, TablesOK
    <3>3. \A x \in Developers : account[x] # Nil => account'[x] # Nil
      BY <3>1, <3>2, <1>1, NilAssumption DEF Join, TablesOK, Member, Roles, Invitation
    <3>4. \A j \in Invitations : invitation[j] # Nil => invitation'[j] # Nil
      BY <3>1, <1>1 DEF Join, TablesOK, Invitation
    <3> QED BY <1>1, <3>1, <3>2, <3>3, <3>4, FinishLeavesStale, WritingStep
  <2> QED BY <2>1, <2>2
<1>7. ASSUME RoleWrite(r) PROVE IInv'
  <2>1. req[r].who \in Developers /\ account[req[r].who] \in Member /\ req[r].role \in Roles
        /\ WriteRole(req[r].who, req[r].role) /\ Finish(r)
    BY <1>1, <1>2, <1>7 DEF RoleWrite, At, Carries, Registered, TablesOK
  <2>2. TablesOK' /\ invitation' = invitation
    BY <2>1, <1>1 DEF WriteRole, TablesOK, Member
  <2>3. \A d \in Developers : account[d] # Nil => account'[d] # Nil
    BY <2>1, <1>1 DEF WriteRole, TablesOK, Member
  <2> QED BY <1>1, <2>1, <2>2, <2>3, FinishLeavesStale, WritingStep
<1>8. ASSUME NEW a \in Apps, AppCreate(r, a) PROVE IInv'
  <2>1. CASE NameTaken(a, req[r].as.org)
    BY <2>1, <1>8, <1>0 DEF AppCreate
  <2>2. CASE ~NameTaken(a, req[r].as.org)
    <3>1. req[r].as.org \in Orgs /\ req[r].actor \in Developers
          /\ AddApp(a, req[r].actor, req[r].as.org) /\ Finish(r)
      BY <1>2, <1>8, <2>2 DEF AppCreate, At, Request, Carries, Member
    <3>2. TablesOK' /\ account' = account /\ invitation' = invitation
      BY <3>1, <1>1 DEF AddApp, TablesOK, AppRow
    <3> QED BY <1>1, <3>1, <3>2, FinishLeavesStale, WritingStep
  <2> QED BY <2>1, <2>2
<1>9. CancelWrite(r) => IInv'
  BY <1>5 DEF CancelWrite, At
<1>10. ExpireWrite(r) => IInv'
  BY <1>5 DEF ExpireWrite, At
<1> QED BY <1>3, <1>4, <1>6, <1>7, <1>8, <1>9, <1>10

\* An invitation runs out: what requests have read of it is not about time.
LEMMA LapseKeepsIInv ==
  ASSUME IInv, NEW i \in Invitations, Lapse(i)
  PROVE  IInv'
<1>1. TypeOK /\ TablesOK /\ Nil \notin Invitation
  BY NilAssumption DEF IInv, TypeOK
<1>2. TablesOK' /\ account' = account
  BY <1>1 DEF Lapse, RunOut, Open, Pending, TablesOK, Invitation
<1>3. \A j \in Invitations : invitation[j] # Nil => invitation'[j] # Nil
  BY <1>1 DEF Lapse, RunOut, Open, Pending, TablesOK, Invitation
<1>4. /\ req' \in [Requests -> Request \union {Nil}]
      /\ \A s \in Requests : req'[s] # Nil =>
           req[s] # Nil /\ req'[s] = [req[s] EXCEPT !.stale = TRUE]
  <2>1. \A s \in Requests : req[s] # Nil => [req[s] EXCEPT !.stale = TRUE] \in Request
    BY <1>1 DEF TypeOK, Request
  <2> QED BY <2>1, <1>1 DEF Lapse, TypeOK
<1> QED BY <1>2, <1>3, <1>4, WritingStep

\* The types hold, and what a fresh request has read.
LEMMA Invariant == Spec => []IInv
<1>1. Init => IInv
  BY DEF Init, TablesInit, IInv, TypeOK, TablesOK, RequestsCarry, FreshReadsHold
<1>2. IInv /\ [Next]_vars => IInv'
  <2> SUFFICES ASSUME IInv, [Next]_vars PROVE IInv'
    OBVIOUS
  <2>1. ASSUME NEW r \in Requests, Step(r) PROVE IInv'
    BY <2>1, ReadingStepsKeepIInv, WritingStepsKeepIInv DEF Step
  <2>2. CASE UNCHANGED vars
    BY <2>2 DEF vars, IInv, TypeOK, TablesOK, RequestsCarry, FreshReadsHold, Carries, StillTrue,
       Registered, MayInvite, NotInvited, MayCancel, MayAccept, MaySetRole, Demotes, OwnerRemains,
       Owners, Open, Pending
  <2> QED BY <2>1, <2>2, LapseKeepsIInv DEF Next
<1> QED BY <1>1, <1>2, PTL DEF Spec

\* The tables and the requests under way have their types.
THEOREM TypeCorrect == Spec => []TypeOK
BY Invariant, PTL DEF IInv

\* What a request has read still holds while nobody else has written.
THEOREM FreshReads == Spec => []FreshReadsHold
BY Invariant, PTL DEF IInv

\* A request that is not overtaken does what its route does alone.
THEOREM FreshRequestsAtomic == Spec => FreshRequestsAreAtomic
<1>1. IInv /\ [Next]_vars =>
        [TablesNext \/ \E r \in Requests : req[r] # Nil /\ req[r].stale /\ req'[r] = Nil]_tables
  <2> SUFFICES ASSUME IInv, Next, tables' # tables,
                      \A r \in Requests : req[r] # Nil /\ req[r].stale => req'[r] # Nil
               PROVE  TablesNext
    BY DEF vars, tables
  <2>1. TypeOK /\ TablesOK /\ RequestsCarry /\ FreshReadsHold /\ Nil \notin Member
    BY NilAssumption DEF IInv, TypeOK
  <2>2. ASSUME NEW r \in Requests, Step(r) PROVE TablesNext
    <3>1. tables' # tables => ~ReadOnly
      BY DEF ReadOnly
    <3>2. \/ SignupCreate(r) \/ CancelWrite(r) \/ ExpireWrite(r) \/ AcceptCommit(r) \/ RoleWrite(r)
          \/ \E i \in Invitations : InviteCreate(r, i)
          \/ \E a \in Apps : AppCreate(r, a)
      BY <2>2, <3>1 DEF Step, SignupCheck, Authenticate, InviteRead, InviteCheck, CancelRead,
         AcceptRead, RoleRead, RoleCount
    <3>3. Finish(r) /\ req[r] # Nil
      BY <3>1, <3>2 DEF SignupCreate, CancelWrite, ExpireWrite, AcceptCommit, RoleWrite, InviteCreate,
         AppCreate, At
    <3>4. ~req[r].stale
      BY <2>1, <3>3, FinishLeavesStale
    <3> DEFINE q == req[r]  d == q.actor
    <3>5. q \in Request /\ Carries(q) /\ StillTrue(q) /\ d \in Developers
      BY <2>1, <3>3, <3>4 DEF TypeOK, RequestsCarry, FreshReadsHold, Request
    <3>6. q.step # "signup" /\ q.as \in Member => q.as = account[d]
      BY <3>5, <2>1 DEF StillTrue, Request, Carries
    <3>7. CASE SignupCreate(r)
      <4>1. Signup(d, q.org) /\ q.org \in Orgs
        BY <3>1, <3>5, <3>7 DEF SignupCreate, Signup, At, Carries
      <4> QED BY <4>1, <3>5 DEF TablesNext
    <3>8. ASSUME NEW i \in Invitations, InviteCreate(r, i) PROVE TablesNext
      <4>1. d \in Registered /\ q.as = account[d] /\ q.who \in Developers
        BY <3>5, <3>6, <3>8 DEF InviteCreate, At, Carries
      <4>2. Invite(d, q.who, i)
        BY <4>1, <3>5, <3>8 DEF InviteCreate, At, StillTrue, Invite
      <4> QED BY <4>1, <4>2, <3>5, <3>8 DEF TablesNext
    <3>9. CASE CancelWrite(r)
      <4>1. Cancel(d, q.inv) /\ q.inv \in Invitations
        BY <3>5, <3>9 DEF CancelWrite, At, StillTrue, Carries, Cancel
      <4> QED BY <4>1, <3>5 DEF TablesNext
    <3>10. CASE ExpireWrite(r) \/ AcceptCommit(r)
      <4>1. Accept(d, q.inv) /\ q.inv \in Invitations
        BY <3>1, <3>5, <3>10 DEF ExpireWrite, AcceptCommit, At, StillTrue, Carries, Accept
      <4> QED BY <4>1, <3>5 DEF TablesNext
    <3>11. CASE RoleWrite(r)
      <4>1. q.step = "role_write" /\ WriteRole(q.who, q.role)
        BY <3>11 DEF RoleWrite, At
      <4>2. d \in Registered /\ q.who \in Developers /\ q.role \in Roles
        BY <4>1, <3>5 DEF Carries, Registered
      <4>3. SetRole(d, q.who, q.role)
        BY <4>1, <4>2, <3>5 DEF StillTrue, SetRole
      <4> QED BY <4>2, <4>3, <3>5 DEF TablesNext
    <3>12. ASSUME NEW a \in Apps, AppCreate(r, a) PROVE TablesNext
      <4>1. d \in Registered /\ q.as = account[d]
        BY <3>5, <3>6, <3>12 DEF AppCreate, At, Carries
      <4>2. CreateApp(d, a)
        BY <4>1, <3>1, <3>12 DEF AppCreate, CreateApp
      <4> QED BY <4>2, <3>5, <3>12 DEF TablesNext
    <3> QED BY <3>2, <3>7, <3>8, <3>9, <3>10, <3>11, <3>12
  <2>3. ASSUME NEW i \in Invitations, Lapse(i) PROVE TablesNext
    BY <2>3 DEF Lapse, TablesNext
  <2> QED BY <2>2, <2>3 DEF Next
<1> QED BY <1>1, Invariant, PTL DEF Spec, FreshRequestsAreAtomic
=============================================================================
