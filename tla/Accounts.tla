------------------------------- MODULE Accounts -------------------------------
(***************************************************************************)
(* Administrator accounts, their roles and their sessions:                 *)
(* api/routes_admin_users.py, api/routes_admin_roles.py,                   *)
(* api/routes_auth.py, api/deps.py and the allow-list of security.py.      *)
(*                                                                         *)
(* A request that writes holds the gate of reference_lock.py from before   *)
(* its authentication to its only commit, so it is one action.  A session  *)
(* token carries a username; which account acts is decided anew by every   *)
(* request.  Passwords are not modelled, and a login that fails changes    *)
(* no account.                                                             *)
(***************************************************************************)
EXTENDS Shared, Integers, FiniteSets

CONSTANTS
  Admins,       \* account identifiers, each created at most once
  Usernames,    \* names they may have
  Roles,        \* names of roles
  Templates,    \* those every installation starts with
  Permissions,  \* keys of the permission catalogue
  Sources,      \* addresses requests come from
  AllowLists,   \* what may be typed as allowed_source_ips: sets of hosts, {} unrestricted
  AdminLimit,   \* administrators the licence allows
  AccountLimit  \* bound: edits in a behaviour

VARIABLES
  account,      \* rows of admin_users: [name, active, super, trusted, role]
  role,         \* rows of admin_roles: the permissions of each
  session,      \* usernames whose token is in a browser
  own,          \* history: the latest edit an administrator made to its own account
  accountEdits  \* edits so far

accountVars == <<account, role, session, own, accountEdits>>

\* There is something to permit, the seeded roles have names, and an allow-list may be empty.
ASSUME AccountsAssumption ==
  /\ Permissions # {}
  /\ Templates \subseteq Roles
  /\ {} \in AllowLists

-----------------------------------------------------------------------------
(* Who a request is *)

\* is_source_ip_allowed: an empty list restricts nobody.
Allowed(trusted, host) == trusted = {} \/ host \in trusted

\* The account a token stands for at this moment; there is at most one of a name.
Holder(name) == {a \in DOMAIN account : account[a].name = name /\ account[a].active}

Signed == UNION {Holder(name) : name \in session}

\* get_current_superadmin.
Editors == {a \in Signed : account[a].super}

\* require_permission: a role narrows an account that is no superadmin; a role that
\* is not there leaves it nothing.
Granted(a) ==
  IF account[a].super \/ account[a].role = None THEN Permissions
  ELSE IF account[a].role \in DOMAIN role THEN role[account[a].role] ELSE {}

ActiveSuperadmins == {a \in DOMAIN account : account[a].super /\ account[a].active}

\* Mutant: the account being changed counts as well.
LastOneCounted(a) == a \in ActiveSuperadmins /\ ActiveSuperadmins = {}

\* _active_superadmin_count(excluding the target) is zero.
IsLast(a) == a \in ActiveSuperadmins /\ ActiveSuperadmins \ {a} = {}

-----------------------------------------------------------------------------
(* Accounts *)

Forms ==
  [name : Usernames, active : BOOLEAN, super : BOOLEAN, trusted : AllowLists, role : Roles \cup {None}]

RoleResolves(form) == form.role = None \/ form.role \in DOMAIN role
NameIsFree(form, a) == \A b \in DOMAIN account \ {a} : account[b].name # form.name

\* The installer creates the only account of a new installation; main.py seeds the roles.
InitAccounts ==
  /\ \E a \in Admins, name \in Usernames :
       account = [b \in {a} |-> [name |-> name, active |-> TRUE, super |-> TRUE,
                                 trusted |-> {}, role |-> None]]
  /\ role = [r \in Templates |-> Permissions]
  /\ session = {} /\ own = None /\ accountEdits = 0

\* A login needs an active account and a host it trusts.
Login(name, host) ==
  /\ \E a \in Holder(name) : Allowed(account[a].trusted, host)
  /\ session' = session \cup {name}
  /\ UNCHANGED <<account, role, own, accountEdits>>

\* Logout, or eight hours.
Leave(name) ==
  /\ session' = session \ {name}
  /\ UNCHANGED <<account, role, own, accountEdits>>

\* create_admin_user: the role, the licence, then the unique username.
CreateAdminUser(form) ==
  /\ RoleResolves(form)
  /\ Cardinality(DOMAIN account) + 1 <= AdminLimit
  /\ NameIsFree(form, None)
  /\ \E a \in Admins \ DOMAIN account :
       account' = [b \in DOMAIN account \cup {a} |-> IF b = a THEN form ELSE account[b]]
  /\ own' = None
  /\ UNCHANGED <<role, session>>

\* update_admin_user: not oneself off, not the last superadmin away, and not the
\* address one works from out of one's own allow-list.
UpdateAdminUser(editor, host, a, form) ==
  /\ ~(a = editor /\ ~form.active)
  /\ ~(IsLast(a) /\ ~(form.super /\ form.active))
  /\ a = editor => Allowed(form.trusted, host)
  /\ RoleResolves(form) /\ NameIsFree(form, a)
  /\ account' = [account EXCEPT ![a] = form]
  /\ own' = IF a = editor THEN <<a, host>> ELSE None
  /\ UNCHANGED <<role, session>>

\* delete_admin_user.
DeleteAdminUser(editor, a) ==
  /\ a # editor
  /\ ~IsLast(a)
  /\ account' = [b \in DOMAIN account \ {a} |-> account[b]]
  /\ own' = None
  /\ UNCHANGED <<role, session>>

-----------------------------------------------------------------------------
(* Roles *)

\* A role's permissions are saved as a whole, and its name is unique.
CreateRole(r, permissions) ==
  /\ r \notin DOMAIN role
  /\ role' = [s \in DOMAIN role \cup {r} |-> IF s = r THEN permissions ELSE role[s]]
  /\ own' = None
  /\ UNCHANGED <<account, session>>

\* update_role: the accounts refer to the role's id and follow it to its new name.
UpdateRole(r, new, permissions) ==
  /\ r \in DOMAIN role
  /\ new \notin DOMAIN role \ {r}
  /\ role' = [s \in (DOMAIN role \ {r}) \cup {new} |-> IF s = new THEN permissions ELSE role[s]]
  /\ account' = [a \in DOMAIN account |->
                   IF account[a].role = r THEN [account[a] EXCEPT !.role = new] ELSE account[a]]
  /\ own' = None
  /\ UNCHANGED session

\* delete_role: ON DELETE SET NULL, which is full standard access.
DeleteRole(r) ==
  /\ r \in DOMAIN role
  /\ role' = [s \in DOMAIN role \ {r} |-> role[s]]
  /\ account' = [a \in DOMAIN account |->
                   IF account[a].role = r THEN [account[a] EXCEPT !.role = None] ELSE account[a]]
  /\ own' = None
  /\ UNCHANGED session

\* ensure_seeded at a start of the platform: only when no role is left.
Restart ==
  /\ DOMAIN role = {}
  /\ role' = [r \in Templates |-> Permissions]
  /\ UNCHANGED <<account, session, own, accountEdits>>

-----------------------------------------------------------------------------
EditAccounts ==
  /\ accountEdits < AccountLimit
  /\ accountEdits' = accountEdits + 1
  /\ \E editor \in Editors :
       \/ \E form \in Forms : CreateAdminUser(form)
       \/ \E host \in Sources, a \in DOMAIN account, form \in Forms :
            UpdateAdminUser(editor, host, a, form)
       \/ \E a \in DOMAIN account : DeleteAdminUser(editor, a)
       \/ \E r \in Roles, permissions \in SUBSET Permissions :
            CreateRole(r, permissions) \/ \E new \in Roles : UpdateRole(r, new, permissions)
       \/ \E r \in Roles : DeleteRole(r)

NextAccounts ==
  \/ EditAccounts
  \/ \E name \in Usernames, host \in Sources : Login(name, host)
  \/ \E name \in session : Leave(name)
  \/ Restart

SpecAccounts == InitAccounts /\ [][NextAccounts]_accountVars

-----------------------------------------------------------------------------
(* Properties *)

\* No sequence of edits by any number of administrators leaves the platform without
\* an active superadmin, lets an administrator shut itself out by an edit of its own
\* account, or takes every permission from an account by deleting its role.
NobodyIsLockedOut ==
  /\ ActiveSuperadmins # {}
  /\ own # None => /\ own[1] \in DOMAIN account /\ account[own[1]].active
                   /\ Allowed(account[own[1]].trusted, own[2])
  /\ \A a \in DOMAIN account :
       Granted(a) = {} => account[a].role \in DOMAIN role /\ role[account[a].role] = {}
=============================================================================
