-------------------------- MODULE SecurityDocument --------------------------
(***************************************************************************)
(* The security document: roles with permissions, users with roles         *)
(* (gateway/security.py), and what administrators do to it                 *)
(* (gateway/admin_ops.py).  As in ConfigDocument an edit is the set of     *)
(* documents it may leave, empty when it raises.                           *)
(***************************************************************************)
CONSTANTS
  Roles,      \* names of roles, those of the default document among them
  Users,      \* names of users
  Unnamed     \* no name

ASSUME SecurityAssumption ==
  /\ {"admin", "operator", "monitor"} \subseteq Roles
  /\ Unnamed \notin Roles \cup Users

Permissions ==
  {"monitor_access", "admin_access", "services_manage", "security_manage"}

RoleEntries == [name : Roles, permissions : SUBSET Permissions]
UserEntries ==
  [name : Users, roles : SUBSET Roles, enabled : BOOLEAN, hashed : BOOLEAN]

\* bad: some entry is none that the document may have.
SecurityDocuments ==
  [roles : SUBSET RoleEntries, users : SUBSET UserEntries, bad : BOOLEAN]

\* What is loaded from an empty file: the default roles and nobody.
DefaultSecurity ==
  [roles |->
     {[name |-> "admin", permissions |-> Permissions],
      [name |-> "operator", permissions |-> Permissions \ {"security_manage"}],
      [name |-> "monitor", permissions |-> {"monitor_access"}]},
   users |-> {},
   bad |-> FALSE]

Names(entries) == {e.name : e \in entries}
Entry(entries, name) == {e \in entries : e.name = name}
Replacing(entries, names, new) == {e \in entries : e.name \notin names} \cup {new}

\* Every entry is a valid one and every role of a user exists.
SecurityLoads(doc) ==
  /\ ~doc.bad
  /\ \A u \in doc.users : u.roles \subseteq Names(doc.roles)

\* What a user may do: nothing without an entry, or with a disabled one.
PermissionsOf(doc, user) ==
  UNION {r.permissions :
    r \in {x \in doc.roles :
             \E u \in Entry(doc.users, user) : u.enabled /\ x.name \in u.roles}}

-----------------------------------------------------------------------------
Allowed(refused, doc) == IF refused THEN {} ELSE {doc}
Renames(r) == r.original \notin {Unnamed, r.name}

\* A renamed role is renamed wherever it is assigned.
SaveRole(doc, r) ==
  LET Renamed(roles) ==
        IF Renames(r) /\ r.original \in roles
        THEN (roles \ {r.original}) \cup {r.name} ELSE roles
  IN Allowed(Renames(r) /\ r.name \in Names(doc.roles),
       [doc EXCEPT
          !.roles = Replacing(@, IF Renames(r) THEN {r.original, r.name} ELSE {r.name},
                              [name |-> r.name, permissions |-> r.permissions]),
          !.users = {[u EXCEPT !.roles = Renamed(@)] : u \in @}])

DeleteRole(doc, r) ==
  Allowed(r.name \notin Names(doc.roles) \/ \E u \in doc.users : r.name \in u.roles,
    [doc EXCEPT !.roles = @ \ Entry(@, r.name)])

\* A user without a new password keeps the old one, under a new name as well.
SaveUser(doc, r) ==
  LET existing ==
        Entry(doc.users, IF r.original = Unnamed THEN r.name ELSE r.original)
      refused ==
        \/ ~(r.roles \subseteq Names(doc.roles))
        \/ Renames(r) /\ r.name \in Names(doc.users)
        \/ ~r.hashed /\ ~\E u \in existing : u.hashed
      user == [name |-> r.name, roles |-> r.roles, enabled |-> r.enabled,
               hashed |-> TRUE]
  IN Allowed(refused,
       [doc EXCEPT !.users =
          Replacing(@, IF Renames(r) THEN {r.original, r.name} ELSE {r.name}, user)])

DeleteUser(doc, r) ==
  Allowed(r.name \notin Names(doc.users),
    [doc EXCEPT !.users = @ \ Entry(@, r.name)])

ImportSecurity(doc, r) ==
  LET new == r.security
  IN {CASE r.scope \in {"security", "full"} -> new
        [] r.scope = "roles" -> [doc EXCEPT !.roles = new.roles, !.bad = new.bad]
        [] r.scope = "users" -> [doc EXCEPT !.users = new.users, !.bad = new.bad]}

SecurityEdits(doc, r) ==
  {new \in CASE r.op = "save_role"   -> SaveRole(doc, r)
             [] r.op = "delete_role" -> DeleteRole(doc, r)
             [] r.op = "save_user"   -> SaveUser(doc, r)
             [] r.op = "delete_user" -> DeleteUser(doc, r)
             [] r.op = "import"      -> ImportSecurity(doc, r) :
     SecurityLoads(new)}
=============================================================================
