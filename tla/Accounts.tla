------------------------------ MODULE Accounts ------------------------------
(***************************************************************************)
(* Accounts (app/auth, app/admin/users): the table public.users, the JSON  *)
(* web tokens that browsers hold, and the check every protected route      *)
(* makes before its own code.  ChatHistory adds the routes of the chat.    *)
(*                                                                         *)
(* A request is two steps: the statement of get_current_user, then the     *)
(* statement of the route with its commit; other requests come in between. *)
(* A statement that writes and its commit are one step: nobody reads the   *)
(* row in between, and a writer of the same row waits for the commit.      *)
(***************************************************************************)
CONSTANTS
    Users,          \* accounts, by e-mail address
    Roles, Admin,   \* the roles, and the one that administers
    Requests,       \* HTTP requests that can be in progress together
    SerialAdmin,    \* TRUE: one request to update a user at a time
    NoRole,         \* no account; in a payload, no such field
    NoUser

ASSUME AdminIsARole == Admin \in Roles /\ NoRole \notin Roles

VARIABLES
    role,           \* public.users: role of each account, NoRole when there is none
    active,         \* public.users: is_active
    access,         \* users with an access token that verifies: signed, not expired
    refresh,        \* users whose browser holds a refresh cookie that verifies
    pc,             \* next step of each request
    caller,         \* user row that get_current_user read for each request
    arg             \* parameters of each request

accountVars == <<role, active, access, refresh>>
requestVars == <<pc, caller, arg>>

Flags == {"absent", "on", "off"}
UserUpdate == [target: Users, role: Roles \cup {NoRole}, active: Flags]

Exists(u) == role[u] # NoRole
Authorised(u) == Exists(u) /\ active[u]
ActiveAdmins == {u \in Users : active[u] /\ role[u] = Admin}

NoCaller == [user |-> NoUser, role |-> NoRole]

AccountsInit ==
    /\ role = [u \in Users |-> NoRole]
    /\ active = [u \in Users |-> FALSE]
    /\ access = {}
    /\ refresh = {}
    /\ pc = [r \in Requests |-> "idle"]
    /\ caller = [r \in Requests |-> NoCaller]
    /\ arg = [r \in Requests |-> "none"]

-----------------------------------------------------------------------------
(* Sessions *)

\* create_user.py, create_admin.py: ON CONFLICT (email) DO NOTHING.
CreateAccount(u, newRole) ==
    /\ ~Exists(u)
    /\ role' = [role EXCEPT ![u] = newRole]
    /\ active' = [active EXCEPT ![u] = TRUE]
    /\ UNCHANGED <<access, refresh, requestVars>>

\* POST /auth/login with the right password.  The access token names a role too,
\* which nothing reads.
Login(u) ==
    /\ Authorised(u)
    /\ access' = access \cup {u}
    /\ refresh' = refresh \cup {u}
    /\ UNCHANGED <<role, active, requestVars>>

\* POST /auth/refresh: no new refresh token.
Refresh(u) ==
    /\ u \in refresh /\ Authorised(u)
    /\ access' = access \cup {u}
    /\ UNCHANGED <<role, active, refresh, requestVars>>

\* POST /auth/logout deletes the cookie; an access token still verifies.
Logout(u) ==
    /\ u \in refresh
    /\ refresh' = refresh \ {u}
    /\ UNCHANGED <<role, active, access, requestVars>>

\* The exp claim: decode_token refuses the token from then on.
ExpireAccess(u) ==
    /\ u \in access
    /\ access' = access \ {u}
    /\ UNCHANGED <<role, active, refresh, requestVars>>

-----------------------------------------------------------------------------
(* Protected routes *)

\* get_current_user: the token says who, the row says whether and as what.
\* Every refusal (401) leaves all as it was.
Authenticate(r, u, step, params) ==
    /\ pc[r] = "idle" /\ u \in access /\ Authorised(u)
    /\ pc' = [pc EXCEPT ![r] = step]
    /\ caller' = [caller EXCEPT ![r] = [user |-> u, role |-> role[u]]]
    /\ arg' = [arg EXCEPT ![r] = params]

Finish(r) ==
    /\ pc' = [pc EXCEPT ![r] = "idle"]
    /\ caller' = [caller EXCEPT ![r] = NoCaller]
    /\ arg' = [arg EXCEPT ![r] = "none"]

\* Mutation: an administrator may also disable their own account.
RefusedRoleOnly(admin, update) ==
    \/ update.target = admin.user /\ update.role \notin {NoRole, admin.role}
    \/ update.role = NoRole /\ update.active = "absent"

\* The updates that are answered 400: of the caller's own role or of its own
\* account to disabled, and empty ones.
Refused(admin, update) ==
    \/ /\ update.target = admin.user
       /\ \/ update.role \notin {NoRole, admin.role}
          \/ update.active = "off"
    \/ update.role = NoRole /\ update.active = "absent"

\* PATCH /users/{id} up to its statement; require_role looks at the row read.
UpdateUserBegin(r, u, update) ==
    /\ SerialAdmin => \A s \in Requests : pc[s] # "update_user"
    /\ Authenticate(r, u, "update_user", update)
    /\ caller'[r].role = Admin
    /\ ~Refused(caller'[r], update)
    /\ UNCHANGED accountVars

\* Mutation: the fields that were not sent are written too.
UpdateUserWriteAll(r) ==
    LET u == arg[r].target
    IN  /\ pc[r] = "update_user" /\ Exists(u)
        /\ role' = [role EXCEPT ![u] = arg[r].role]
        /\ active' = [active EXCEPT ![u] = arg[r].active = "on"]
        /\ Finish(r)
        /\ UNCHANGED <<access, refresh>>

\* UPDATE ... RETURNING and commit, of no row when there is no such user (404).
UpdateUserWrite(r) ==
    LET u == arg[r].target
    IN  /\ pc[r] = "update_user"
        /\ role' = IF Exists(u) /\ arg[r].role # NoRole
                   THEN [role EXCEPT ![u] = arg[r].role] ELSE role
        /\ active' = IF Exists(u) /\ arg[r].active # "absent"
                     THEN [active EXCEPT ![u] = arg[r].active = "on"] ELSE active
        /\ Finish(r)
        /\ UNCHANGED <<access, refresh>>

AccountsNext ==
    \/ \E u \in Users :
          \/ \E newRole \in Roles : CreateAccount(u, newRole)
          \/ Login(u)
          \/ Refresh(u)
          \/ Logout(u)
          \/ ExpireAccess(u)
    \/ \E r \in Requests :
          \/ \E u \in access, update \in UserUpdate : UpdateUserBegin(r, u, update)
          \/ UpdateUserWrite(r)

-----------------------------------------------------------------------------
(* Properties *)

AccountsTypeOK ==
    /\ role \in [Users -> Roles \cup {NoRole}]
    /\ active \in [Users -> BOOLEAN]
    /\ \A u \in Users : active[u] => Exists(u)
    /\ access \subseteq Users
    /\ refresh \subseteq Users
    /\ caller \in [Requests -> [user: Users \cup {NoUser}, role: Roles \cup {NoRole}]]

\* users/router.py:44-57 refuses that administrators disable themselves so that
\* someone is left who can enable accounts.  While requests that update users come
\* one at a time, the last active administrator stays one, whoever updates whom:
\* the caller is an active administrator when the row is written, long after it
\* was checked, and the row written is not the caller's or keeps it so.
AdminsNeverVanish ==
    [][ActiveAdmins # {} => ActiveAdmins' # {}]_<<role, active>>
=============================================================================
