-------------------------------- MODULE Auth --------------------------------
(***************************************************************************)
(* Users, API keys, permissions and groups: auth_manager.go, with the      *)
(* claims of auth.go, the middleware of auth_middleware.go and             *)
(* auth_grpc.go, and the tenants of tenant.go.                             *)
(*                                                                         *)
(* AuthManager keeps five buckets and a map in memory for each.  A request *)
(* looks at the map, writes the bucket in a transaction and then changes   *)
(* the map; am.mu is held for the look and for the change, and over the    *)
(* whole of UpdateGroup and DeleteGroup only.  LoadAll fills the maps at   *)
(* start.  A token carries the claims of the moment it was issued and      *)
(* outlives a restart.                                                     *)
(*                                                                         *)
(* Permissions are given on the wildcard collection; a collection is       *)
(* inside the tenant's namespace, outside it, or the wildcard.  Passwords, *)
(* signatures and expiry only refuse, and are left out.                    *)
(***************************************************************************)
EXTENDS Integers, FiniteSets

CONSTANTS
  AuthUsers,    \* user names
  AuthKeys,     \* API keys
  AuthGroups,   \* group names
  Grants,       \* sets of operations a permission can give
  NoVal,        \* "no entry"
  AuthClients,  \* request handlers
  MaxAuthReqs, MaxAuthFails, MaxAuthRestarts   \* bounds

Ops == {"read", "write", "admin"}
Tenants == {"", "t"}

ASSUME GrantsAssumption == Grants \subseteq SUBSET Ops
ASSUME NoValAssumption ==
  NoVal \notin [tenant : Tenants, disabled : BOOLEAN] \cup [ops : Grants] \cup [members : SUBSET AuthUsers]

\* One key of one of the five buckets.
Entries == ({"user", "perm"} \X AuthUsers) \cup ({"key"} \X AuthKeys)
             \cup ({"group", "gperm"} \X AuthGroups)

VARIABLES
  db,        \* the buckets: [Entries -> value or NoVal]
  mem,       \* the maps, likewise
  authreq,   \* [AuthClients -> [pc, entry, val]]
  tokens,    \* claims issued by login: [user, tenant, admin]
  home,      \* history: [AuthUsers -> tenant the user was registered for]
  gone,      \* history: users whose deletion was answered
  strayed,   \* history: entries on which requests overlapped or failed half way
  keysMade, authReqs, authFails, authRestarts

authVars == <<db, mem, authreq, tokens, home, gone, strayed, keysMade, authReqs, authFails,
              authRestarts>>
authHistory == <<tokens, home, gone>>
authBounds == <<authReqs, authFails, authRestarts>>

NoReq == [pc |-> "idle", entry |-> NoVal, val |-> NoVal]

AuthInit ==
  /\ db = [e \in Entries |-> NoVal] /\ mem = db
  /\ authreq = [c \in AuthClients |-> NoReq]
  /\ tokens = {} /\ home = [u \in AuthUsers |-> ""] /\ gone = {} /\ strayed = {}
  /\ keysMade = {} /\ authReqs = 0 /\ authFails = 0 /\ authRestarts = 0

Enabled(u) == mem[<<"user", u>>] # NoVal /\ ~mem[<<"user", u>>].disabled
Granted(e) == IF mem[e] = NoVal THEN {} ELSE mem[e].ops
IsAdmin(u) == "admin" \in Granted(<<"perm", u>>)

-----------------------------------------------------------------------------
\* A request arrives.
Request(c) == authreq[c].pc = "idle" /\ authReqs < MaxAuthReqs /\ authReqs' = authReqs + 1

\* Another request is about to give the entry another value.
Contested(c, e, v) ==
  \E o \in AuthClients \ {c} :
    authreq[o].pc \in {"put", "cache"} /\ authreq[o].entry = e /\ authreq[o].val # v

\* The look at the map has passed; the bucket and the map are still to be written.
Begin(c, e, v) ==
  /\ Request(c)
  /\ authreq' = [authreq EXCEPT ![c] = [pc |-> "put", entry |-> e, val |-> v]]
  /\ strayed' = IF Contested(c, e, v) THEN strayed \cup {e} ELSE strayed
  /\ UNCHANGED <<db, authHistory, authFails, authRestarts>>

CreateTenantUser(c, u, t) ==
  /\ mem[<<"user", u>>] = NoVal
  /\ Begin(c, <<"user", u>>, [tenant |-> t, disabled |-> FALSE])
  /\ UNCHANGED <<mem, keysMade>>

\* DeleteUser marks the user in the map before anything is stored.
DeleteUser(c, u) ==
  /\ mem[<<"user", u>>] # NoVal
  /\ LET off == [mem[<<"user", u>>] EXCEPT !.disabled = TRUE] IN
       /\ mem' = [mem EXCEPT ![<<"user", u>>] = off]
       /\ Begin(c, <<"user", u>>, off)
  /\ UNCHANGED keysMade

\* CreateAPIKey: a new key for a user that exists, disabled or not.
CreateAPIKey(c, k, u) ==
  /\ mem[<<"user", u>>] # NoVal /\ k \notin keysMade
  /\ keysMade' = keysMade \cup {k}
  /\ Begin(c, <<"key", k>>, u)
  /\ UNCHANGED mem

DeleteAPIKey(c, k) ==
  /\ mem[<<"key", k>>] # NoVal
  /\ Begin(c, <<"key", k>>, NoVal)
  /\ UNCHANGED <<mem, keysMade>>

SetPermission(c, u, grant) ==
  /\ mem[<<"user", u>>] # NoVal
  /\ Begin(c, <<"perm", u>>, [ops |-> grant])
  /\ UNCHANGED <<mem, keysMade>>

CreateGroup(c, g, members) ==
  /\ mem[<<"group", g>>] = NoVal
  /\ Begin(c, <<"group", g>>, [members |-> members])
  /\ UNCHANGED <<mem, keysMade>>

SetGroupPermission(c, g, grant) ==
  /\ mem[<<"group", g>>] # NoVal
  /\ Begin(c, <<"gperm", g>>, [ops |-> grant])
  /\ UNCHANGED <<mem, keysMade>>

\* The transaction of any of these requests ...
AuthPut(c) ==
  /\ authreq[c].pc = "put"
  /\ db' = [db EXCEPT ![authreq[c].entry] = authreq[c].val]
  /\ authreq' = [authreq EXCEPT ![c].pc = "cache"]
  /\ UNCHANGED <<mem, authHistory, strayed, keysMade, authBounds>>

\* ... or its failure, which is answered with an error; a user marked as deleted stays so
\* until the server is started again.
AuthPutFails(c) ==
  /\ authreq[c].pc = "put" /\ authFails < MaxAuthFails /\ authFails' = authFails + 1
  /\ authreq' = [authreq EXCEPT ![c] = NoReq]
  /\ strayed' = IF authreq[c].entry[1] = "user" /\ authreq[c].val.disabled
                  THEN strayed \cup {authreq[c].entry} ELSE strayed
  /\ UNCHANGED <<db, mem, authHistory, keysMade, authReqs, authRestarts>>

\* The change of the map, after which the request is answered.
AuthCache(c) ==
  /\ authreq[c].pc = "cache"
  /\ LET e == authreq[c].entry
         v == authreq[c].val
     IN /\ mem' = [mem EXCEPT ![e] = v]
        /\ home' = IF e[1] = "user" THEN [home EXCEPT ![e[2]] = v.tenant] ELSE home
        /\ gone' = IF e[1] = "user" /\ v.disabled THEN gone \cup {e[2]} ELSE gone
  /\ authreq' = [authreq EXCEPT ![c] = NoReq]
  /\ UNCHANGED <<db, tokens, strayed, keysMade, authBounds>>

-----------------------------------------------------------------------------
(* UpdateGroup and DeleteGroup hold am.mu throughout. *)

\* The members change in the map, and in the bucket unless its transaction fails.
UpdateGroup(c, g, members) ==
  /\ Request(c) /\ mem[<<"group", g>>] # NoVal
  /\ mem' = [mem EXCEPT ![<<"group", g>>] = [members |-> members]]
  /\ \/ /\ db' = [db EXCEPT ![<<"group", g>>] = [members |-> members]]
        /\ strayed' = IF Contested(c, <<"group", g>>, [members |-> members])
                        THEN strayed \cup {<<"group", g>>} ELSE strayed
        /\ UNCHANGED authFails
     \/ /\ authFails < MaxAuthFails /\ authFails' = authFails + 1
        /\ strayed' = strayed \cup {<<"group", g>>}
        /\ UNCHANGED db
  /\ UNCHANGED <<authreq, authHistory, keysMade, authRestarts>>

\* The group and its permissions leave both.
DeleteGroup(c, g) ==
  /\ Request(c) /\ mem[<<"group", g>>] # NoVal
  /\ LET both == {<<"group", g>>, <<"gperm", g>>} IN
       /\ db' = [e \in Entries |-> IF e \in both THEN NoVal ELSE db[e]]
       /\ mem' = [e \in Entries |-> IF e \in both THEN NoVal ELSE mem[e]]
       /\ strayed' = strayed \cup {e \in both : Contested(c, e, NoVal)}
  /\ UNCHANGED <<authreq, authHistory, keysMade, authFails, authRestarts>>

-----------------------------------------------------------------------------
\* GenerateTenantJWT: a tenant's user is never an administrator.
Claims(u, tenant, admin) == [user |-> u, tenant |-> tenant, admin |-> admin /\ tenant = ""]

\* handleAuthLogin: Authenticate ...
Authenticate(c, u) ==
  /\ Request(c) /\ Enabled(u)
  /\ authreq' = [authreq EXCEPT ![c] = [pc |-> "issue", entry |-> <<"user", u>>,
                                        val |-> mem[<<"user", u>>]]]
  /\ UNCHANGED <<db, mem, authHistory, strayed, keysMade, authFails, authRestarts>>

\* ... then the token.
IssueToken(c) ==
  /\ authreq[c].pc = "issue"
  /\ LET u == authreq[c].entry[2] IN
       tokens' = tokens \cup {Claims(u, authreq[c].val.tenant, IsAdmin(u))}
  /\ authreq' = [authreq EXCEPT ![c] = NoReq]
  /\ UNCHANGED <<db, mem, home, gone, strayed, keysMade, authBounds>>

\* The server starts again: LoadAll.
AuthRestart ==
  /\ authRestarts < MaxAuthRestarts /\ authRestarts' = authRestarts + 1
  /\ mem' = db
  /\ authreq' = [c \in AuthClients |-> NoReq]
  /\ UNCHANGED <<db, authHistory, strayed, keysMade, authReqs, authFails>>

AuthNext ==
  \/ \E c \in AuthClients :
       \/ \E u \in AuthUsers, t \in Tenants : CreateTenantUser(c, u, t)
       \/ \E u \in AuthUsers : DeleteUser(c, u) \/ Authenticate(c, u)
       \/ \E k \in AuthKeys, u \in AuthUsers : CreateAPIKey(c, k, u)
       \/ \E k \in AuthKeys : DeleteAPIKey(c, k)
       \/ \E u \in AuthUsers, grant \in Grants : SetPermission(c, u, grant)
       \/ \E g \in AuthGroups, members \in SUBSET AuthUsers :
            CreateGroup(c, g, members) \/ UpdateGroup(c, g, members)
       \/ \E g \in AuthGroups, grant \in Grants : SetGroupPermission(c, g, grant)
       \/ \E g \in AuthGroups : DeleteGroup(c, g)
       \/ AuthPut(c) \/ AuthPutFails(c) \/ AuthCache(c) \/ IssueToken(c)
  \/ AuthRestart

AuthSpec == AuthInit /\ [][AuthNext]_authVars

-----------------------------------------------------------------------------
\* Mutant: a key stands for its user, wherever the user belongs.
KeyClaimsGlobal(k) ==
  LET u == mem[<<"key", k>>] IN Claims(u, "", IsAdmin(u))

\* HTTPMiddleware and authenticateContext: the claims made for an API key.
KeyClaims(k) ==
  LET u == mem[<<"key", k>>] IN
    Claims(u, IF mem[<<"user", u>>] = NoVal THEN "" ELSE mem[<<"user", u>>].tenant, IsAdmin(u))

\* The claims with which a request gets past the middleware.
Admitted ==
  {cl \in tokens \cup {KeyClaims(k) : k \in {x \in AuthKeys : mem[<<"key", x>>] # NoVal}} :
     Enabled(cl.user)}

\* CheckPermission: the tenant's gate, then administrators, then the user's own and the
\* groups' permissions.
CheckPermission(cl, coll, op) ==
  /\ cl.tenant # "" => IF coll = "*" THEN op = "read" ELSE coll = "inside"
  /\ \/ cl.admin
     \/ op \in Granted(<<"perm", cl.user>>)
     \/ \E g \in AuthGroups : /\ mem[<<"group", g>>] # NoVal
                              /\ cl.user \in mem[<<"group", g>>].members
                              /\ op \in Granted(<<"gperm", g>>)

\* With no request in progress the maps that requests are judged by hold what is stored, so
\* that a restart changes no decision (LoadAll, and every Create, Set and Delete).  Entries on
\* which two requests overlapped, or of which a transaction failed after the map was changed,
\* are excepted.
AuthCachesAgree ==
  (\A c \in AuthClients : authreq[c].pc = "idle") =>
    \A e \in Entries \ strayed : mem[e] = db[e]

\* Once DeleteUser has answered, neither a token issued before, nor an API key, nor one made
\* for the user afterwards admits anyone in the user's name, before a restart or after it
\* (DeleteUser, HTTPMiddleware), and the name cannot be registered again.
DeletedIsOut ==
  \A u \in gone : <<"user", u>> \notin strayed =>
    /\ \A cl \in Admitted : cl.user # u
    /\ mem[<<"user", u>>] # NoVal

\* tenant.go: "A user assigned to tenant "acme" can only touch collections named
\* "acme/<something>"".  Whatever permissions the user and the user's groups are given, on
\* the wildcard too, no token and no API key gets a tenant's user to a collection outside
\* the namespace, to anything but listing on the wildcard, or to an administrator's flag
\* (GenerateTenantJWT, HTTPMiddleware, CheckPermission).
TenantConfined ==
  \A cl \in Admitted : (home[cl.user] # "" /\ <<"user", cl.user>> \notin strayed) =>
    /\ ~cl.admin
    /\ \A op \in Ops : /\ ~CheckPermission(cl, "outside", op)
                       /\ op # "read" => ~CheckPermission(cl, "*", op)

\* A group that does not exist has no permissions, in the bucket or in the map (DeleteGroup,
\* SetGroupPermission): a group created later under the name starts with none.
GroupsClean ==
  \A g \in AuthGroups :
    (mem[<<"group", g>>] = NoVal /\ {<<"group", g>>, <<"gperm", g>>} \cap strayed = {}) =>
      mem[<<"gperm", g>>] = NoVal /\ db[<<"gperm", g>>] = NoVal

\* What is decided follows from what is stored (CheckPermission, HTTPMiddleware, LoadAll): maps
\* and buckets agree, deleted users and groups are without effect, tenants stay in their
\* namespace.
AccessSound == AuthCachesAgree /\ DeletedIsOut /\ TenantConfined /\ GroupsClean
=============================================================================
