-------------------------- MODULE MembershipRules --------------------------
(***************************************************************************)
(* The tables behind the dashboard's accounts, organizations, invitations  *)
(* and apps, and what each route does to them if nothing else happens      *)
(* while it runs: its checks hold of the very state its write changes.     *)
(* Membership is the system itself, where other requests run in between.   *)
(***************************************************************************)
EXTENDS Naturals, FiniteSets

CONSTANTS
  Developers,    \* the accounts that may exist, one per e-mail address
  Orgs,          \* public ids of organizations
  Invitations,   \* ids of invitations
  Apps,          \* apps
  Name,          \* Name[a]: the name of app a
  Nil            \* no row

ASSUME DevelopersAssumption == IsFiniteSet(Developers)

VARIABLES
  account,       \* account[d]: organization and role of d's row, Nil before signup
  orgs,          \* organizations that were created
  invitation,    \* invitation[i]: the row, Nil before it is created
  app            \* app[a]: developer and organization of the row, or Nil

tables == <<account, orgs, invitation, app>>

Roles == {"owner", "admin", "member"}
AdminRoles == {"owner", "admin"}

Member == [org : Orgs, role : Roles]
Invitation == [org : Orgs, inviter : Developers, invitee : Developers,
               status : {"pending", "accepted", "canceled", "expired"},
               due : BOOLEAN]
AppRow == [developer : Developers, org : Orgs]

ASSUME NilAssumption ==
  /\ Nil \notin Developers \union Orgs \union Invitations
  /\ Nil \notin Member /\ Nil \notin Invitation /\ Nil \notin AppRow

TablesOK ==
  /\ account \in [Developers -> Member \union {Nil}]
  /\ orgs \in SUBSET Orgs
  /\ invitation \in [Invitations -> Invitation \union {Nil}]
  /\ app \in [Apps -> AppRow \union {Nil}]

Registered == {d \in Developers : account[d] # Nil}
Owners(o) == {d \in Registered : account[d] = [org |-> o, role |-> "owner"]}

Pending(i) == invitation[i] # Nil /\ invitation[i].status = "pending"
Open(i) == Pending(i) /\ ~invitation[i].due

\* An organization may not hold two apps of one name.
NamesClash(d, o) ==
  \E a, b \in Apps :
    /\ a # b /\ Name[a] = Name[b]
    /\ app[a] # Nil /\ app[b] # Nil
    /\ app[a].developer = d
    /\ app[b].org = o \/ app[b].developer = d

NameTaken(a, o) == \E b \in Apps : app[b] # Nil /\ app[b].org = o /\ Name[b] = Name[a]

TablesInit ==
  /\ account = [d \in Developers |-> Nil]
  /\ orgs = {}
  /\ invitation = [i \in Invitations |-> Nil]
  /\ app = [a \in Apps |-> Nil]

-----------------------------------------------------------------------------
(* The writes. *)

\* One transaction: the organization and its first account.
Found(d, o) ==
  /\ orgs' = orgs \union {o}
  /\ account' = [account EXCEPT ![d] = [org |-> o, role |-> "owner"]]
  /\ UNCHANGED <<invitation, app>>

AddInvitation(i, o, inviter, invitee) ==
  /\ invitation[i] = Nil
  /\ invitation' = [invitation EXCEPT ![i] =
       [org |-> o, inviter |-> inviter, invitee |-> invitee,
        status |-> "pending", due |-> FALSE]]
  /\ UNCHANGED <<account, orgs, app>>

SetStatus(i, status) ==
  /\ invitation' = [invitation EXCEPT ![i].status = status]
  /\ UNCHANGED <<account, orgs, app>>

\* One transaction: the account moves and becomes a member, its apps move
\* with it, the invitation is accepted.
Join(d, i) ==
  /\ account' = [account EXCEPT ![d] = [org |-> invitation[i].org, role |-> "member"]]
  /\ app' = [a \in Apps |-> IF app[a] # Nil /\ app[a].developer = d
                              THEN [app[a] EXCEPT !.org = invitation[i].org]
                              ELSE app[a]]
  /\ invitation' = [invitation EXCEPT ![i].status = "accepted"]
  /\ UNCHANGED orgs

WriteRole(d, role) ==
  /\ account' = [account EXCEPT ![d].role = role]
  /\ UNCHANGED <<orgs, invitation, app>>

AddApp(a, d, o) ==
  /\ app[a] = Nil
  /\ app' = [app EXCEPT ![a] = [developer |-> d, org |-> o]]
  /\ UNCHANGED <<account, orgs, invitation>>

-----------------------------------------------------------------------------
(* What the handlers require of what they read. *)

MayInvite(as, d, invitee) ==
  /\ as.role \in AdminRoles
  /\ invitee \in Registered \ {d}
  /\ account[invitee].org # as.org

NotInvited(o, invitee) ==
  ~ \E i \in Invitations : /\ Open(i)
                           /\ invitation[i].org = o
                           /\ invitation[i].invitee = invitee

MayCancel(as, d, i) ==
  /\ Pending(i)
  /\ invitation[i].org = as.org
  /\ d = invitation[i].inviter \/ as.role \in AdminRoles

MayAccept(d, i) == Pending(i) /\ invitation[i].invitee = d

\* An admin leaves owners alone and makes none.
MaySetRole(as, target, role) ==
  /\ as.role \in AdminRoles
  /\ target \in Registered
  /\ account[target].org = as.org
  /\ as.role = "admin" => "owner" \notin {account[target].role, role}

Demotes(target, role) == account[target].role = "owner" /\ role # "owner"

\* At least one owner remains: ownerCount <= 1 is refused.
OwnerRemains(o, target) == Owners(o) \ {target} # {}

-----------------------------------------------------------------------------
(* The routes, each in one step. *)

Signup(d, o) == account[d] = Nil /\ o \notin orgs /\ Found(d, o)

Invite(d, invitee, i) ==
  /\ d \in Registered
  /\ MayInvite(account[d], d, invitee)
  /\ NotInvited(account[d].org, invitee)
  /\ AddInvitation(i, account[d].org, d, invitee)

Cancel(d, i) ==
  /\ d \in Registered
  /\ MayCancel(account[d], d, i)
  /\ SetStatus(i, "canceled")

Accept(d, i) ==
  /\ d \in Registered
  /\ MayAccept(d, i)
  /\ \/ invitation[i].due /\ SetStatus(i, "expired")
     \/ ~invitation[i].due /\ ~NamesClash(d, invitation[i].org) /\ Join(d, i)

SetRole(d, target, role) ==
  /\ d \in Registered
  /\ MaySetRole(account[d], target, role)
  /\ Demotes(target, role) => OwnerRemains(account[d].org, target)
  /\ WriteRole(target, role)

CreateApp(d, a) ==
  /\ d \in Registered
  /\ ~NameTaken(a, account[d].org)
  /\ AddApp(a, d, account[d].org)

\* Seven days pass.
RunOut(i) ==
  /\ Open(i)
  /\ invitation' = [invitation EXCEPT ![i].due = TRUE]
  /\ UNCHANGED <<account, orgs, app>>

TablesNext ==
  \/ \E d \in Developers :
       \/ \E o \in Orgs : Signup(d, o)
       \/ \E i \in Invitations :
            \/ \E invitee \in Developers : Invite(d, invitee, i)
            \/ Cancel(d, i)
            \/ Accept(d, i)
       \/ \E target \in Developers, role \in Roles : SetRole(d, target, role)
       \/ \E a \in Apps : CreateApp(d, a)
  \/ \E i \in Invitations : RunOut(i)

TablesSpec == TablesInit /\ [][TablesNext]_tables

-----------------------------------------------------------------------------
(* What the routes guarantee as long as no request is overtaken. *)

\* Members belong to organizations that were created, and are invited to such.
MembersBelong ==
  /\ \A d \in Registered : account[d].org \in orgs
  /\ \A i \in Invitations : invitation[i] # Nil => invitation[i].org \in orgs

\* The same person is not invited twice to the same organization at a time
\* ("Pending invitation already exists").
InvitedOnce ==
  \A i, j \in Invitations :
    /\ Open(i) /\ Open(j)
    /\ invitation[i].org = invitation[j].org
    /\ invitation[i].invitee = invitation[j].invitee
    => i = j

\* Nobody holds an open invitation to the organization they are in.
InvitedFromOutside ==
  \A i \in Invitations : Open(i) =>
    /\ invitation[i].invitee \in Registered
    /\ account[invitation[i].invitee].org # invitation[i].org

\* An app is always in the organization its developer is in, however the
\* developer moves.
AppsFollowDeveloper ==
  \A a \in Apps : app[a] # Nil =>
    app[a].developer \in Registered /\ app[a].org = account[app[a].developer].org

\* An organization that has owners keeps one, unless its last owner accepts
\* an invitation elsewhere.
OwnersKept ==
  [][\A o \in Orgs :
       Owners(o) # {} /\ Owners(o)' = {} =>
         \E d \in Owners(o) : account'[d].org # o]_tables

\* The organization has an owner whatever happens: "At least one owner must
\* remain in the organization".
AlwaysOwned == \A o \in orgs : Owners(o) # {}
=============================================================================
