-------------------------------- MODULE Access --------------------------------
(***************************************************************************)
(* Who may do what: accounts, sessions, API tokens and the login throttle  *)
(* (iam/app, iam/adapters, platform/authn, platform/authz,                 *)
(* platform/httpx/authmw.go).                                              *)
(*                                                                         *)
(* A call is served in the statements the code makes, so calls interleave  *)
(* between them, and any statement may fail, which ends the call.          *)
(* Postgres and Redis are external: a statement is atomic.  A password is  *)
(* only right or wrong; hashes, cookies, names, audit rows and the expiry  *)
(* of refresh tokens (a refusal, as CallFails) are left out.  Signatures   *)
(* hold: nobody presents a token that was not issued.                      *)
(***************************************************************************)
EXTENDS Naturals, FiniteSets

CONSTANTS
  Users, Admin,        \* account ids; the one Bootstrap creates
  Roles, AdminRole,    \* iam.roles
  Permissions,         \* the permissions of each role ("*" spelled out)
  UsersWrite,          \* the permission that manages accounts
  Threshold,           \* failures that lock an account
  CallSlots,           \* calls being served
  RefreshIds, TokenIds, \* from 1
  MaxCalls             \* bound on calls

Perms == UNION {Permissions[x] : x \in Roles}

ASSUME AccessAssumption ==
  /\ Admin \in Users /\ AdminRole \in Roles /\ Threshold \in Nat \ {0}
  /\ MaxCalls \in Nat /\ DOMAIN Permissions = Roles
  /\ UsersWrite \in Permissions[AdminRole] /\ RefreshIds \subseteq Nat \ {0}
  /\ IsFiniteSet(CallSlots)

VARIABLES
  accounts,   \* iam.users and iam.user_roles: id -> [active, roles], partial
  refresh,    \* iam.refresh_tokens: id -> [user, family, rotated, revoked], partial
  tokens,     \* iam.api_tokens: id -> [user, scopes, usable], partial
  jwts,       \* access tokens in circulation: [user, roles]
  failures,   \* lockout:<user> in Redis
  redisUp,    \* whether Redis answers
  calls,      \* the calls being served
  begun,      \* calls begun
  wrong,      \* history: wrong answers per account since its counter was last cleared
  lost,       \* history: wrong answers that were never counted
  was         \* history: what each call's user has been since the call began

accessVars == <<accounts, refresh, tokens, jwts, failures, redisUp, calls, begun, wrong, lost, was>>

NoCall == [pc |-> "none"]

\* A table with one more row.
Adding(rows, x, row) == [y \in DOMAIN rows \cup {x} |-> IF y = x THEN row ELSE rows[y]]
Granted(roles) == UNION {Permissions[x] : x \in roles}

\* Before Bootstrap; or with accounts, and the administrator signed in.
AccessInit ==
  /\ \/ accounts = <<>> /\ jwts = {}
     \/ /\ accounts \in [Users -> [active : {TRUE}, roles : SUBSET Roles \ {{}}]]
        /\ accounts[Admin].roles = {AdminRole}
        /\ jwts = {[user |-> Admin, roles |-> {AdminRole}]}
  /\ refresh = <<>> /\ tokens = <<>>
  /\ failures = [u \in Users |-> 0] /\ wrong = [u \in Users |-> 0]
  /\ redisUp = TRUE /\ lost = 0
  /\ calls = [c \in CallSlots |-> NoCall] /\ begun = 0 /\ was = [c \in CallSlots |-> {}]

-----------------------------------------------------------------------------
(* Calls.                                                                  *)

Counted == begun < MaxCalls /\ begun' = begun + 1
Open(c, call) == calls[c] = NoCall /\ Counted /\ calls' = [calls EXCEPT ![c] = call]
Step(c, from, call) == calls[c].pc = from /\ calls' = [calls EXCEPT ![c] = call] /\ UNCHANGED begun
Close(c, from) == Step(c, from, NoCall)

throttle == <<failures, redisUp, wrong, lost>>

\* A statement that fails, or a caller that hangs up, ends the call.
CallFails(c) ==
  /\ calls[c].pc \notin {"none", "failure", "perm", "served"} /\ Close(c, calls[c].pc)
  /\ UNCHANGED <<accounts, refresh, tokens, jwts, throttle>>

-----------------------------------------------------------------------------
(* AuthService.Login.                                                      *)

StartLogin(c, u) ==
  /\ Open(c, [pc |-> "locked", user |-> u])
  /\ UNCHANGED <<accounts, refresh, tokens, jwts, throttle>>

\* Variant: an account locks one failure late.
LockedLate(u) == failures[u] > Threshold

LockedOut(u) == failures[u] >= Threshold

\* Without Redis, and while the account is locked, nobody signs in.
CheckLocked(c) ==
  /\ LET u == calls[c].user
     IN Step(c, "locked", IF redisUp /\ ~LockedOut(u) THEN [pc |-> "verify", user |-> u] ELSE NoCall)
  /\ UNCHANGED <<accounts, refresh, tokens, jwts, throttle>>

CanLogin(u) == u \in DOMAIN accounts /\ accounts[u].active

VerifyPassword(c, right) ==
  LET u == calls[c].user
      ok == right /\ CanLogin(u)
  IN /\ Step(c, "verify", [pc |-> IF ok THEN "reset" ELSE "failure", user |-> u])
     /\ wrong' = [wrong EXCEPT ![u] = IF ok THEN @ ELSE @ + 1]
     /\ UNCHANGED <<accounts, refresh, tokens, jwts, failures, redisUp, lost>>

CountFailure(u) == failures' = [failures EXCEPT ![u] = @ + 1]

\* A failure that cannot be recorded, because Redis does not answer or the
\* caller has hung up, is only logged.
RecordFailure(c, recorded) ==
  /\ Close(c, "failure") /\ (recorded => redisUp)
  /\ IF recorded THEN CountFailure(calls[c].user) /\ UNCHANGED lost ELSE lost' = lost + 1 /\ UNCHANGED failures
  /\ UNCHANGED <<accounts, refresh, tokens, jwts, redisUp, wrong>>

Cleared(u) == failures' = [failures EXCEPT ![u] = 0] /\ wrong' = [wrong EXCEPT ![u] = 0]

\* Reset: its error is ignored.
ResetFailures(c) ==
  /\ Step(c, "reset", [pc |-> "roles", user |-> calls[c].user, family |-> 0])
  /\ IF redisUp THEN Cleared(calls[c].user) ELSE UNCHANGED <<failures, wrong>>
  /\ UNCHANGED <<accounts, refresh, tokens, jwts, redisUp, lost>>

\* The key expires when no failure has been recorded for a window.
WindowPasses(u) ==
  /\ failures[u] > 0 /\ Cleared(u)
  /\ UNCHANGED <<accounts, refresh, tokens, jwts, redisUp, lost, calls, begun>>

\* Redis goes away, or comes back.
RedisSwitches ==
  /\ redisUp' = ~redisUp
  /\ UNCHANGED <<accounts, refresh, tokens, jwts, failures, wrong, lost, calls, begun>>

-----------------------------------------------------------------------------
(* AuthService.Refresh and the end both share.                             *)

Compromised(t) == refresh[t].rotated \/ refresh[t].revoked

\* A token that was rotated or revoked takes its family with it.
GetByHash(c, t) ==
  /\ t \in DOMAIN refresh
  /\ Open(c, [pc |-> IF Compromised(t) THEN "reuse" ELSE "user",
              user |-> refresh[t].user, tok |-> t, family |-> refresh[t].family])
  /\ UNCHANGED <<accounts, refresh, tokens, jwts, throttle>>

Revoked(these) ==
  refresh' = [t \in DOMAIN refresh |-> IF t \in these THEN [refresh[t] EXCEPT !.revoked = TRUE] ELSE refresh[t]]

RevokeFamily(c) ==
  /\ Close(c, "reuse") /\ Revoked({t \in DOMAIN refresh : refresh[t].family = calls[c].family})
  /\ UNCHANGED <<accounts, tokens, jwts, throttle>>

GetByID(c) ==
  /\ Step(c, "user", IF CanLogin(calls[c].user) THEN [calls[c] EXCEPT !.pc = "roles"] ELSE NoCall)
  /\ UNCHANGED <<accounts, refresh, tokens, jwts, throttle>>

\* RoleNames.
RoleNames(c) ==
  /\ LET call == calls[c]
     IN Step(c, "roles", [pc |-> IF call.family = 0 THEN "insert" ELSE "rotate", user |-> call.user,
                          tok |-> IF call.family = 0 THEN 0 ELSE call.tok, family |-> call.family,
                          roles |-> accounts[call.user].roles])
  /\ UNCHANGED <<accounts, refresh, tokens, jwts, throttle>>

Rotated(t) == refresh' = [refresh EXCEPT ![t].rotated = TRUE]

\* Rotated by id, whatever has become of the token since it was read.
MarkRotated(c) ==
  /\ Step(c, "rotate", [calls[c] EXCEPT !.pc = "insert"])
  /\ Rotated(calls[c].tok)
  /\ UNCHANGED <<accounts, tokens, jwts, throttle>>

\* A family of its own at login, the family of the token presented after that.
newRefreshToken(user, family, t) ==
  [user |-> user, rotated |-> FALSE, revoked |-> FALSE, family |-> IF family = 0 THEN t ELSE family]

Insert(t, row) == refresh' = Adding(refresh, t, row)
Issue(user, roles) == jwts' = jwts \cup {[user |-> user, roles |-> roles]}

\* The next token of the family, and the access token with the roles read.
InsertRefresh(c, t) ==
  /\ Close(c, "insert") /\ t = Cardinality(DOMAIN refresh) + 1
  /\ Insert(t, newRefreshToken(calls[c].user, calls[c].family, t)) /\ Issue(calls[c].user, calls[c].roles)
  /\ UNCHANGED <<accounts, tokens, throttle>>

Logout(t) ==
  /\ t \in DOMAIN refresh /\ Counted /\ Revoked({t})
  /\ UNCHANGED <<accounts, tokens, jwts, throttle, calls>>

AccessExpires(j) == jwts' = jwts \ {j} /\ UNCHANGED <<accounts, refresh, tokens, throttle, calls, begun>>

-----------------------------------------------------------------------------
(* UserService; the caller holds users:write, by a session or by an API    *)
(* token (which changes nothing here: the token's checks are below).       *)

Manages(j) == UsersWrite \in Granted(j.roles)

RolesAsked == SUBSET Roles \ {{}}
InsertUser(u, roles) == accounts' = Adding(accounts, u, [active |-> TRUE, roles |-> roles])
GrantRoles(u, roles) == accounts' = [accounts EXCEPT ![u].roles = roles]
SetUserStatus(u, active) == accounts' = [accounts EXCEPT ![u].active = active]

Bootstrap ==
  /\ accounts = <<>> /\ InsertUser(Admin, {AdminRole})
  /\ UNCHANGED <<refresh, tokens, jwts, throttle, calls, begun>>

CreateUser(j, u, roles) ==
  /\ Manages(j) /\ u \in Users \ DOMAIN accounts /\ Counted
  /\ InsertUser(u, roles)
  /\ UNCHANGED <<refresh, tokens, jwts, throttle, calls>>

SetRoles(j, u, roles) ==
  /\ Manages(j) /\ u \in DOMAIN accounts /\ Counted
  /\ GrantRoles(u, roles)
  /\ UNCHANGED <<refresh, tokens, jwts, throttle, calls>>

\* The status first, the sessions in a statement of their own; not one's own.
Deactivate(c, j, u) ==
  /\ Manages(j) /\ u \in DOMAIN accounts /\ u # j.user
  /\ SetUserStatus(u, FALSE)
  /\ Open(c, [pc |-> "revoke", user |-> u])
  /\ UNCHANGED <<refresh, tokens, jwts, throttle>>

\* ResetPassword sets the hash, then ends the sessions.
ResetPassword(c, j, u) ==
  /\ Manages(j) /\ u \in DOMAIN accounts
  /\ Open(c, [pc |-> "revoke", user |-> u])
  /\ UNCHANGED <<accounts, refresh, tokens, jwts, throttle>>

RevokeAllForUser(c) ==
  /\ Close(c, "revoke") /\ Revoked({t \in DOMAIN refresh : refresh[t].user = calls[c].user})
  /\ UNCHANGED <<accounts, tokens, jwts, throttle>>

Activate(j, u) ==
  /\ Manages(j) /\ u \in DOMAIN accounts /\ Counted
  /\ SetUserStatus(u, TRUE)
  /\ UNCHANGED <<refresh, tokens, jwts, throttle, calls>>

-----------------------------------------------------------------------------
(* API tokens; minting and revoking need a session.                        *)

InsertToken(t, user, scopes) == tokens' = Adding(tokens, t, [user |-> user, scopes |-> scopes, usable |-> TRUE])
RevokeToken(t) == tokens' = [tokens EXCEPT ![t].usable = FALSE]

\* Each scope is one the caller's session grants.
CreateToken(j, t, scopes) ==
  /\ t \in TokenIds \ DOMAIN tokens /\ scopes # {} /\ scopes \subseteq Granted(j.roles) /\ Counted
  /\ InsertToken(t, j.user, scopes)
  /\ UNCHANGED <<accounts, refresh, jwts, throttle, calls>>

\* Revoked by its owner, or past expires_at.
TokenEnds(t) ==
  /\ t \in DOMAIN tokens /\ tokens[t].usable /\ Counted
  /\ RevokeToken(t)
  /\ UNCHANGED <<accounts, refresh, jwts, throttle, calls>>

\* The owner as the account is now, in the statement that reads the token.
TokenOwner(t) == accounts[tokens[t].user]

\* Verify.
Lookup(c, t, perm) ==
  /\ t \in DOMAIN tokens /\ tokens[t].usable /\ TokenOwner(t).active
  /\ Open(c, [pc |-> "perm", user |-> tokens[t].user, roles |-> TokenOwner(t).roles,
              scopes |-> tokens[t].scopes, perm |-> perm])
  /\ UNCHANGED <<accounts, refresh, tokens, jwts, throttle>>

\* Claims.Allows and Checker.Has.
AllowedByScope(call) == call.perm \in call.scopes
Allowed(call) == call.perm \in Granted(call.roles) /\ AllowedByScope(call)

RequirePerm(c) ==
  /\ Step(c, "perm", IF Allowed(calls[c]) THEN [calls[c] EXCEPT !.pc = "served"] ELSE NoCall)
  /\ UNCHANGED <<accounts, refresh, tokens, jwts, throttle>>

Serve(c) == Close(c, "served") /\ UNCHANGED <<accounts, refresh, tokens, jwts, throttle>>

-----------------------------------------------------------------------------

CallStep(c) ==
  \/ CallFails(c) \/ CheckLocked(c) \/ \E right \in BOOLEAN : VerifyPassword(c, right)
  \/ \E recorded \in BOOLEAN : RecordFailure(c, recorded)
  \/ ResetFailures(c) \/ RevokeFamily(c) \/ GetByID(c) \/ RoleNames(c)
  \/ MarkRotated(c) \/ \E t \in RefreshIds : InsertRefresh(c, t)
  \/ RevokeAllForUser(c) \/ RequirePerm(c) \/ Serve(c)

StartCall(c) ==
  \/ \E u \in Users : StartLogin(c, u)
  \/ \E t \in RefreshIds : GetByHash(c, t)
  \/ \E j \in jwts, u \in Users : Deactivate(c, j, u) \/ ResetPassword(c, j, u)
  \/ \E t \in TokenIds, perm \in Perms : Lookup(c, t, perm)

ShortCall ==
  \/ Bootstrap
  \/ \E t \in RefreshIds : Logout(t)
  \/ \E j \in jwts : \/ AccessExpires(j)
                     \/ \E u \in Users : \/ Activate(j, u)
                                         \/ \E roles \in RolesAsked : CreateUser(j, u, roles) \/ SetRoles(j, u, roles)
                     \/ \E t \in TokenIds, scopes \in SUBSET Perms : CreateToken(j, t, scopes)
  \/ \E t \in TokenIds : TokenEnds(t)
  \/ \E u \in Users : WindowPasses(u)
  \/ RedisSwitches

\* What each call's user has been, before it and since.
Observe ==
  was' = [c \in CallSlots |->
            IF calls'[c] = NoCall THEN {}
            ELSE LET u == calls'[c].user
                     now == (IF u \in DOMAIN accounts THEN {accounts[u]} ELSE {})
                            \cup (IF u \in DOMAIN accounts' THEN {accounts'[u]} ELSE {})
                 IN was[c] \cup now]

AccessNext ==
  /\ ShortCall \/ \E c \in CallSlots : StartCall(c) \/ CallStep(c)
  /\ Observe

AccessSpec == AccessInit /\ [][AccessNext]_accessVars

-----------------------------------------------------------------------------
(* Properties.                                                             *)

\* A request with an API token is served only with a permission its scopes
\* name and its owner, active, was granted while the request was served; an
\* access token is issued only to an account that was active and with roles
\* it held while it was being issued: deactivation and demotion take effect
\* with the next request, whatever the tokens were minted with (Lookup,
\* RequirePerm, Login, Refresh).
WithinRights ==
  \A c \in CallSlots :
    /\ calls[c].pc = "served" =>
         /\ calls[c].perm \in calls[c].scopes
         /\ \E a \in was[c] : a.active /\ calls[c].perm \in Granted(a.roles)
    /\ calls[c].pc = "insert" =>
         /\ \E a \in was[c] : a.active
         /\ \E a \in was[c] : a.roles = calls[c].roles

\* Between two resets an account's password is tried wrongly at most
\* Threshold times, but for the calls that were past the lock when it fell
\* and those whose failure could not be recorded (Locked, RecordFailure).
AttemptsBounded ==
  \A u \in Users : wrong[u] < Threshold + Cardinality(CallSlots) + lost
=============================================================================
