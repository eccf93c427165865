----------------------------- MODULE Access_proofs -----------------------------
(***************************************************************************)
(* What is proved of accounts, sessions, API tokens and the login          *)
(* throttle, for any users, roles, permissions and calls served at once.   *)
(***************************************************************************)
EXTENDS Access, FiniteSetTheorems, TLAPS

-----------------------------------------------------------------------------
(* Rights.                                                                 *)

\* Nobody is spoken for who has no account.
Owners ==
  /\ \A j \in jwts : j.user \in DOMAIN accounts
  /\ \A t \in DOMAIN tokens : "user" \in DOMAIN tokens[t] /\ tokens[t].user \in DOMAIN accounts

\* What a call has read of its user, the user has been since the call began.
CallFits(c) ==
  LET q == calls[c]
  IN /\ q.pc = "user" => {"pc", "user", "family"} \subseteq DOMAIN q
     /\ q.pc \in {"reset", "roles", "rotate", "insert"} =>
          q.user \in DOMAIN accounts /\ \E a \in was[c] : a.active
     /\ q.pc \in {"rotate", "insert"} =>
          {"pc", "user", "roles"} \subseteq DOMAIN q /\ \E a \in was[c] : a.roles = q.roles
     /\ q.pc \in {"perm", "served"} =>
          /\ {"pc", "user", "roles", "scopes", "perm"} \subseteq DOMAIN q
          /\ \E a \in was[c] : a.active /\ a.roles = q.roles
     /\ q.pc = "served" => Allowed(q)

RightsInv == DOMAIN calls = CallSlots /\ Owners /\ \A c \in CallSlots : CallFits(c)

\* A call that is not over keeps what it has seen, and sees its user now.
LEMMA SeesMore ==
  ASSUME Observe, NEW c \in CallSlots, calls'[c].pc # "none"
  PROVE  /\ was[c] \subseteq was'[c]
         /\ calls'[c].user \in DOMAIN accounts => accounts[calls'[c].user] \in was'[c]
BY DEF Observe, NoCall

\* A call that rests while accounts are added or changed.
LEMMA RestingFits ==
  ASSUME Observe, NEW c \in CallSlots, CallFits(c), calls'[c] = calls[c], DOMAIN accounts \subseteq DOMAIN accounts'
  PROVE  CallFits(c)'
<1>1. CASE calls[c].pc = "none" BY <1>1 DEF CallFits
<1>2. CASE calls[c].pc # "none"
  <2>1. was[c] \subseteq was'[c] BY <1>2, SeesMore
  <2> QED BY <2>1 DEF CallFits, Allowed, AllowedByScope
<1> QED BY <1>1, <1>2

\* One call moved; the others rest.
LEMMA OneCallMoves ==
  ASSUME RightsInv, Observe, NEW c \in CallSlots, NEW q, calls' = [calls EXCEPT ![c] = q],
         DOMAIN accounts \subseteq DOMAIN accounts', Owners', CallFits(c)'
  PROVE  RightsInv'
<1>1. DOMAIN calls' = CallSlots /\ \A d \in CallSlots : d # c => calls'[d] = calls[d] BY DEF RightsInv
<1>2. \A d \in CallSlots : CallFits(d)' BY <1>1, RestingFits DEF RightsInv
<1> QED BY <1>1, <1>2 DEF RightsInv

\* One call ended, or came to a point where it relies on nothing yet.
LEMMA NothingRead ==
  ASSUME NEW c \in CallSlots, calls'[c].pc \in {"none", "locked", "verify", "failure", "reuse", "revoke"}
  PROVE  CallFits(c)'
BY DEF CallFits

LEMMA OwnersStay ==
  ASSUME Owners, UNCHANGED <<jwts, tokens>>, DOMAIN accounts \subseteq DOMAIN accounts'
  PROVE  Owners'
BY DEF Owners

\* Calls that begin.
LEMMA StartKeepsRights ==
  ASSUME RightsInv, Observe, NEW c \in CallSlots, StartCall(c)
  PROVE  RightsInv'
<1>1. UNCHANGED <<jwts, tokens>> /\ DOMAIN accounts' = DOMAIN accounts
  BY DEF StartCall, StartLogin, GetByHash, Deactivate, ResetPassword, Lookup, SetUserStatus
<1>2. Owners' BY <1>1, OwnersStay DEF RightsInv
<1>3. ASSUME NEW q, calls' = [calls EXCEPT ![c] = q],
             q.pc \in {"locked", "reuse", "revoke"} \/ (q.pc = "user" /\ {"pc", "user", "family"} \subseteq DOMAIN q)
      PROVE  RightsInv'
  <2>1. calls'[c] = q BY <1>3 DEF RightsInv
  <2>2. CallFits(c)' BY <1>3, <2>1 DEF CallFits
  <2> QED BY <1>1, <1>2, <1>3, <2>2, OneCallMoves
<1>4. ASSUME NEW u \in Users, StartLogin(c, u) PROVE RightsInv'
  <2>1. PICK q : q = [pc |-> "locked", user |-> u] OBVIOUS
  <2> QED BY <1>3, <1>4, <2>1 DEF StartLogin, Open
<1>5. ASSUME NEW t \in RefreshIds, GetByHash(c, t) PROVE RightsInv'
  <2>1. PICK q : q = [pc |-> IF Compromised(t) THEN "reuse" ELSE "user",
                      user |-> refresh[t].user, tok |-> t, family |-> refresh[t].family]
    OBVIOUS
  <2>2. calls' = [calls EXCEPT ![c] = q] BY <1>5, <2>1 DEF GetByHash, Open
  <2>3. q.pc \in {"reuse", "user"} /\ {"pc", "user", "family"} \subseteq DOMAIN q BY <2>1
  <2> QED BY <1>3, <2>2, <2>3
<1>6. ASSUME NEW j \in jwts, NEW u \in Users, Deactivate(c, j, u) \/ ResetPassword(c, j, u) PROVE RightsInv'
  <2>1. PICK q : q = [pc |-> "revoke", user |-> u] OBVIOUS
  <2> QED BY <1>3, <1>6, <2>1 DEF Deactivate, ResetPassword, Open
<1>7. ASSUME NEW t \in TokenIds, NEW perm \in Perms, Lookup(c, t, perm) PROVE RightsInv'
  <2>1. PICK u : u = tokens[t].user OBVIOUS
  <2>2. PICK q : q = [pc |-> "perm", user |-> u, roles |-> accounts[u].roles, scopes |-> tokens[t].scopes, perm |-> perm]
    OBVIOUS
  <2>3. calls' = [calls EXCEPT ![c] = q] /\ t \in DOMAIN tokens /\ accounts[u].active
    BY <1>7, <2>1, <2>2 DEF Lookup, Open, TokenOwner
  <2>4. calls'[c] = q /\ u \in DOMAIN accounts BY <2>1, <2>3 DEF RightsInv, Owners
  <2>5. /\ q.pc = "perm" /\ q.user = u /\ q.roles = accounts[u].roles
        /\ {"pc", "user", "roles", "scopes", "perm"} \subseteq DOMAIN q
    BY <2>2
  <2>6. accounts[u] \in was'[c] BY <2>4, <2>5, SeesMore
  <2>7. CallFits(c)' BY <2>3, <2>4, <2>5, <2>6 DEF CallFits
  <2> QED BY <1>1, <1>2, <2>3, <2>7, OneCallMoves
<1> QED BY <1>4, <1>5, <1>6, <1>7 DEF StartCall

\* Calls that go on: each reads of its user what the account is by then.
LEMMA StepKeepsRights ==
  ASSUME RightsInv, Observe, NEW c \in CallSlots, CallStep(c)
  PROVE  RightsInv'
<1>0. DOMAIN calls = CallSlots /\ CallFits(c) /\ Owners BY DEF RightsInv
<1>1. accounts' = accounts /\ tokens' = tokens
  BY DEF CallStep, CallFails, CheckLocked, VerifyPassword, RecordFailure, ResetFailures, RevokeFamily, GetByID,
         RoleNames, MarkRotated, InsertRefresh, RevokeAllForUser, RequirePerm, Serve
<1>2. ASSUME NEW q, calls' = [calls EXCEPT ![c] = q], jwts' = jwts, CallFits(c)' PROVE RightsInv'
  <2>1. Owners' BY <1>0, <1>1, <1>2, OwnersStay
  <2> QED BY <1>1, <1>2, <2>1, OneCallMoves
<1>3. ASSUME NEW q, calls' = [calls EXCEPT ![c] = q], jwts' = jwts,
             q.pc \in {"none", "verify", "failure"}
      PROVE  RightsInv'
  <2>1. calls'[c] = q BY <1>0, <1>3
  <2>2. CallFits(c)' BY <1>3, <2>1, NothingRead
  <2> QED BY <1>2, <1>3, <2>2
<1>4. NoCall.pc = "none" BY DEF NoCall
<1>5. CASE CallFails(c) \/ RevokeFamily(c) \/ RevokeAllForUser(c) \/ Serve(c)
           \/ \E recorded \in BOOLEAN : RecordFailure(c, recorded)
  <2>1. calls' = [calls EXCEPT ![c] = NoCall] /\ jwts' = jwts
    BY <1>5 DEF CallFails, RevokeFamily, RevokeAllForUser, Serve, RecordFailure, Close, Step
  <2> QED BY <1>3, <1>4, <2>1
<1>6. CASE CheckLocked(c)
  <2>1. PICK q : q = [pc |-> "verify", user |-> calls[c].user] OBVIOUS
  <2>2. (calls' = [calls EXCEPT ![c] = NoCall] \/ calls' = [calls EXCEPT ![c] = q]) /\ jwts' = jwts
    BY <1>6, <2>1 DEF CheckLocked, Step
  <2>3. q.pc = "verify" BY <2>1
  <2> QED BY <1>3, <1>4, <2>2, <2>3
<1>7. ASSUME NEW right \in BOOLEAN, VerifyPassword(c, right) PROVE RightsInv'
  <2>1. PICK u : u = calls[c].user OBVIOUS
  <2>2. PICK q : q = [pc |-> IF right /\ CanLogin(u) THEN "reset" ELSE "failure", user |-> u] OBVIOUS
  <2>3. calls' = [calls EXCEPT ![c] = q] /\ jwts' = jwts BY <1>7, <2>1, <2>2 DEF VerifyPassword, Step
  <2>4. calls'[c] = q BY <1>0, <2>3
  <2>5. CASE right /\ CanLogin(u)
    <3>1. q.pc = "reset" /\ q.user = u /\ u \in DOMAIN accounts /\ accounts[u].active BY <2>2, <2>5 DEF CanLogin
    <3>2. accounts[u] \in was'[c] BY <2>4, <3>1, SeesMore
    <3>3. CallFits(c)' BY <1>1, <2>4, <3>1, <3>2 DEF CallFits
    <3> QED BY <1>2, <2>3, <3>3
  <2>6. CASE ~(right /\ CanLogin(u))
    <3>1. q.pc = "failure" BY <2>2, <2>6
    <3> QED BY <1>3, <2>3, <3>1
  <2> QED BY <2>5, <2>6
<1>8. CASE ResetFailures(c)
  <2>1. PICK u : u = calls[c].user OBVIOUS
  <2>2. PICK q : q = [pc |-> "roles", user |-> u, family |-> 0] OBVIOUS
  <2>3. calls' = [calls EXCEPT ![c] = q] /\ jwts' = jwts /\ calls[c].pc = "reset"
    BY <1>8, <2>1, <2>2 DEF ResetFailures, Step
  <2>4. calls'[c] = q /\ q.pc = "roles" /\ q.user = u BY <1>0, <2>2, <2>3
  <2>5. was[c] \subseteq was'[c] BY <2>4, SeesMore
  <2>6. CallFits(c)' BY <1>0, <1>1, <2>1, <2>3, <2>4, <2>5 DEF CallFits
  <2> QED BY <1>2, <2>3, <2>6
<1>9. CASE GetByID(c)
  <2>1. CASE ~CanLogin(calls[c].user)
    <3>1. calls' = [calls EXCEPT ![c] = NoCall] /\ jwts' = jwts BY <1>9, <2>1 DEF GetByID, Step
    <3> QED BY <1>3, <1>4, <3>1
  <2>2. CASE CanLogin(calls[c].user)
    <3>1. PICK u : u = calls[c].user OBVIOUS
    <3>2. PICK q : q = [calls[c] EXCEPT !.pc = "roles"] OBVIOUS
    <3>3. calls' = [calls EXCEPT ![c] = q] /\ jwts' = jwts /\ calls[c].pc = "user"
      BY <1>9, <2>2, <3>2 DEF GetByID, Step
    <3>4. {"pc", "user", "family"} \subseteq DOMAIN calls[c] BY <1>0, <3>3 DEF CallFits
    <3>5. calls'[c] = q /\ q.pc = "roles" /\ q.user = u BY <1>0, <3>1, <3>2, <3>3, <3>4
    <3>6. u \in DOMAIN accounts /\ accounts[u].active BY <2>2, <3>1 DEF CanLogin
    <3>7. accounts[u] \in was'[c] BY <3>5, <3>6, SeesMore
    <3>8. CallFits(c)' BY <1>1, <3>5, <3>6, <3>7 DEF CallFits
    <3> QED BY <1>2, <3>3, <3>8
  <2> QED BY <2>1, <2>2
<1>10. CASE RoleNames(c)
  <2>1. PICK u : u = calls[c].user OBVIOUS
  <2>2. PICK tok : tok = IF calls[c].family = 0 THEN 0 ELSE calls[c].tok OBVIOUS
  <2>3. PICK pc : pc = IF calls[c].family = 0 THEN "insert" ELSE "rotate" OBVIOUS
  <2>4. PICK q : q = [pc |-> pc, user |-> u, tok |-> tok, family |-> calls[c].family, roles |-> accounts[u].roles] OBVIOUS
  <2>5. calls' = [calls EXCEPT ![c] = q] /\ jwts' = jwts /\ calls[c].pc = "roles"
    BY <1>10, <2>1, <2>2, <2>3, <2>4 DEF RoleNames, Step
  <2>6. /\ calls'[c] = q /\ q.pc \in {"insert", "rotate"} /\ q.user = u /\ q.roles = accounts[u].roles
        /\ {"pc", "user", "roles"} \subseteq DOMAIN q
    BY <1>0, <2>3, <2>4, <2>5
  <2>7. u \in DOMAIN accounts /\ \E a \in was[c] : a.active BY <1>0, <2>1, <2>5 DEF CallFits
  <2>8. was[c] \subseteq was'[c] /\ accounts[u] \in was'[c] BY <2>6, <2>7, SeesMore
  <2>9. CallFits(c)' BY <1>1, <2>6, <2>7, <2>8 DEF CallFits
  <2> QED BY <1>2, <2>5, <2>9
<1>11. CASE MarkRotated(c)
  <2>1. PICK q : q = [calls[c] EXCEPT !.pc = "insert"] OBVIOUS
  <2>2. calls' = [calls EXCEPT ![c] = q] /\ jwts' = jwts /\ calls[c].pc = "rotate"
    BY <1>11, <2>1 DEF MarkRotated, Step
  <2>3. {"pc", "user", "roles"} \subseteq DOMAIN calls[c] BY <1>0, <2>2 DEF CallFits
  <2>4. /\ calls'[c] = q /\ q.pc = "insert" /\ q.user = calls[c].user /\ q.roles = calls[c].roles
        /\ {"pc", "user", "roles"} \subseteq DOMAIN q
    BY <1>0, <2>1, <2>2, <2>3
  <2>5. was[c] \subseteq was'[c] BY <2>4, SeesMore
  <2>6. CallFits(c)' BY <1>0, <1>1, <2>2, <2>4, <2>5 DEF CallFits
  <2> QED BY <1>2, <2>2, <2>6
<1>12. ASSUME NEW t \in RefreshIds, InsertRefresh(c, t) PROVE RightsInv'
  <2>1. PICK j : j = [user |-> calls[c].user, roles |-> calls[c].roles] OBVIOUS
  <2>2. calls' = [calls EXCEPT ![c] = NoCall] /\ jwts' = jwts \cup {j} /\ calls[c].pc = "insert"
    BY <1>12, <2>1 DEF InsertRefresh, Close, Step, Issue
  <2>3. calls'[c] = NoCall BY <1>0, <2>2
  <2>4. CallFits(c)' BY <1>4, <2>3, NothingRead
  <2>5. j.user \in DOMAIN accounts BY <1>0, <2>1, <2>2 DEF CallFits
  <2>6. Owners' BY <1>0, <1>1, <2>2, <2>5 DEF Owners
  <2> QED BY <1>1, <2>2, <2>4, <2>6, OneCallMoves
<1>13. CASE RequirePerm(c)
  <2>1. CASE ~Allowed(calls[c])
    <3>1. calls' = [calls EXCEPT ![c] = NoCall] /\ jwts' = jwts BY <1>13, <2>1 DEF RequirePerm, Step
    <3> QED BY <1>3, <1>4, <3>1
  <2>2. CASE Allowed(calls[c])
    <3>1. PICK q : q = [calls[c] EXCEPT !.pc = "served"] OBVIOUS
    <3>2. calls' = [calls EXCEPT ![c] = q] /\ jwts' = jwts /\ calls[c].pc = "perm"
      BY <1>13, <2>2, <3>1 DEF RequirePerm, Step
    <3>3. {"pc", "user", "roles", "scopes", "perm"} \subseteq DOMAIN calls[c] BY <1>0, <3>2 DEF CallFits
    <3>4. /\ calls'[c] = q /\ q.pc = "served" /\ q.roles = calls[c].roles
          /\ q.scopes = calls[c].scopes /\ q.perm = calls[c].perm
          /\ {"pc", "user", "roles", "scopes", "perm"} \subseteq DOMAIN q
      BY <1>0, <3>1, <3>2, <3>3
    <3>5. was[c] \subseteq was'[c] BY <3>4, SeesMore
    <3>6. Allowed(q) BY <2>2, <3>4 DEF Allowed, AllowedByScope
    <3>7. CallFits(c)' BY <1>0, <3>2, <3>4, <3>5, <3>6 DEF CallFits
    <3> QED BY <1>2, <3>2, <3>7
  <2> QED BY <2>1, <2>2
<1> QED BY <1>5, <1>6, <1>7, <1>8, <1>9, <1>10, <1>11, <1>12, <1>13 DEF CallStep

LEMMA ShortKeepsRights ==
  ASSUME RightsInv, Observe, ShortCall
  PROVE  RightsInv'
<1>0. DOMAIN calls = CallSlots /\ (\A c \in CallSlots : CallFits(c)) /\ Owners BY DEF RightsInv
<1>1. calls' = calls
  BY DEF ShortCall, Bootstrap, Logout, AccessExpires, Activate, CreateUser, SetRoles, CreateToken, TokenEnds,
         WindowPasses, RedisSwitches
<1>2. DOMAIN accounts \subseteq DOMAIN accounts'
  BY DEF ShortCall, Bootstrap, Logout, AccessExpires, Activate, CreateUser, SetRoles, CreateToken, TokenEnds,
         WindowPasses, RedisSwitches, InsertUser, Adding, GrantRoles, SetUserStatus
<1>3. \A c \in CallSlots : CallFits(c)' BY <1>0, <1>1, <1>2, RestingFits
<1>4. Owners'
  <2>1. CASE UNCHANGED <<jwts, tokens>> BY <1>0, <1>2, <2>1, OwnersStay
  <2>2. ASSUME NEW j \in jwts, AccessExpires(j) PROVE Owners'
    BY <1>0, <2>2 DEF AccessExpires, Owners
  <2>3. ASSUME NEW j \in jwts, NEW t \in TokenIds, NEW scopes \in SUBSET Perms, CreateToken(j, t, scopes) PROVE Owners'
    <3>1. PICK row : row = [user |-> j.user, scopes |-> scopes, usable |-> TRUE] OBVIOUS
    <3>2. /\ tokens' = [y \in DOMAIN tokens \cup {t} |-> IF y = t THEN row ELSE tokens[y]] /\ jwts' = jwts
          /\ accounts' = accounts
      BY <2>3, <3>1 DEF CreateToken, InsertToken, Adding
    <3>3. "user" \in DOMAIN row /\ row.user \in DOMAIN accounts BY <1>0, <3>1 DEF Owners
    <3> QED BY <1>0, <3>2, <3>3 DEF Owners
  <2>4. ASSUME NEW t \in TokenIds, TokenEnds(t) PROVE Owners'
    <3>1. PICK row : row = [tokens[t] EXCEPT !.usable = FALSE] OBVIOUS
    <3>2. tokens' = [tokens EXCEPT ![t] = row] /\ jwts' = jwts /\ accounts' = accounts /\ t \in DOMAIN tokens
      BY <2>4, <3>1 DEF TokenEnds, RevokeToken
    <3>3. "user" \in DOMAIN row /\ row.user = tokens[t].user BY <1>0, <3>1, <3>2 DEF Owners
    <3> QED BY <1>0, <3>2, <3>3 DEF Owners
  <2> QED BY <2>1, <2>2, <2>3, <2>4
       DEF ShortCall, Bootstrap, Logout, Activate, CreateUser, SetRoles, WindowPasses, RedisSwitches
<1> QED BY <1>0, <1>1, <1>3, <1>4 DEF RightsInv

\* A request with an API token is served only with a permission its scopes
\* name and its owner, active, was granted while the request was served; an
\* access token is issued only to an account that was active, with roles it
\* held while it was being issued (Lookup, RequirePerm, Login, Refresh):
\* whatever deactivations, demotions, rotations and revocations fall between
\* the statements of any number of calls.
THEOREM RightsHold == AccessSpec => []WithinRights
<1>1. AccessInit => RightsInv
  <2>1. SUFFICES ASSUME AccessInit PROVE RightsInv OBVIOUS
  <2>2. DOMAIN calls = CallSlots /\ (\A c \in CallSlots : CallFits(c)) BY <2>1 DEF AccessInit, CallFits, NoCall
  <2>3. DOMAIN tokens = {} BY <2>1 DEF AccessInit
  <2>4. \A j \in jwts : j.user \in DOMAIN accounts
    <3>1. CASE jwts = {} BY <3>1
    <3>2. CASE accounts \in [Users -> [active : {TRUE}, roles : SUBSET Roles \ {{}}]]
               /\ jwts = {[user |-> Admin, roles |-> {AdminRole}]}
      <4>1. DOMAIN accounts = Users /\ Admin \in Users BY <3>2, AccessAssumption
      <4>2. \A j \in jwts : j.user = Admin BY <3>2
      <4> QED BY <4>1, <4>2
    <3> QED BY <2>1, <3>1, <3>2 DEF AccessInit
  <2> QED BY <2>2, <2>3, <2>4 DEF RightsInv, Owners
<1>2. RightsInv /\ [AccessNext]_accessVars => RightsInv'
  <2>1. CASE UNCHANGED accessVars
    BY <2>1 DEF accessVars, RightsInv, Owners, CallFits, Allowed, AllowedByScope
  <2>2. CASE AccessNext BY <2>2, StartKeepsRights, StepKeepsRights, ShortKeepsRights DEF AccessNext
  <2> QED BY <2>1, <2>2
<1>3. RightsInv => WithinRights
  BY DEF RightsInv, CallFits, WithinRights, Allowed, AllowedByScope
<1> QED BY <1>1, <1>2, <1>3, PTL DEF AccessSpec

-----------------------------------------------------------------------------
(* The throttle.                                                           *)

\* Calls that know of a wrong answer not recorded yet; and with them those
\* that are past the lock.
Failing(u) == {c \in CallSlots : calls[c].pc = "failure" /\ calls[c].user = u}
Trying(u) == {c \in CallSlots : calls[c].pc \in {"verify", "failure"} /\ calls[c].user = u}

ThrottleTypeOK ==
  /\ DOMAIN calls = CallSlots
  /\ failures \in [Users -> Nat] /\ wrong \in [Users -> Nat] /\ lost \in Nat
  /\ \A c \in CallSlots : calls[c].pc \in {"locked", "verify", "failure", "reset"} => calls[c].user \in Users

\* Every wrong answer is counted, about to be, or lost; and what is counted
\* and what may still come stay below the threshold and the calls served.
ThrottleInv ==
  /\ ThrottleTypeOK
  /\ \A u \in Users :
       /\ wrong[u] <= failures[u] + Cardinality(Failing(u)) + lost
       /\ failures[u] + Cardinality(Trying(u)) < Threshold + Cardinality(CallSlots)

LEMMA FewCalls ==
  ASSUME NEW S \in SUBSET CallSlots
  PROVE  IsFiniteSet(S) /\ Cardinality(S) \in Nat /\ Cardinality(S) <= Cardinality(CallSlots)
BY AccessAssumption, FS_Subset, FS_CardinalityType

LEMMA SlotsCounted == Cardinality(CallSlots) \in Nat /\ Threshold \in Nat \ {0}
BY AccessAssumption, FS_CardinalityType

\* Nobody gave a wrong answer, and nobody passed the lock.
LEMMA NobodyTries ==
  ASSUME ThrottleInv, ThrottleTypeOK', lost' = lost,
         \A u \in Users : /\ Failing(u)' = Failing(u) /\ Trying(u)' \subseteq Trying(u)
                          /\ \/ failures'[u] = failures[u] /\ wrong'[u] = wrong[u]
                             \/ failures'[u] = 0 /\ wrong'[u] = 0
  PROVE  ThrottleInv'
<1>1. SUFFICES ASSUME NEW u \in Users
               PROVE  /\ wrong'[u] <= failures'[u] + Cardinality(Failing(u)') + lost'
                      /\ failures'[u] + Cardinality(Trying(u)') < Threshold + Cardinality(CallSlots)
  BY DEF ThrottleInv
<1>2. Failing(u) \in SUBSET CallSlots /\ Trying(u) \in SUBSET CallSlots BY DEF Failing, Trying
<1>3. PICK f \in Nat : f = Cardinality(Failing(u)) BY <1>2, FewCalls
<1>4. PICK t \in Nat : t = Cardinality(Trying(u)) BY <1>2, FewCalls
<1>5. PICK s \in Nat : s = Cardinality(Trying(u)') /\ s <= t
  <2>1. IsFiniteSet(Trying(u)) BY <1>2, FewCalls
  <2>2. Cardinality(Trying(u)') \in Nat /\ Cardinality(Trying(u)') <= Cardinality(Trying(u))
    BY <2>1, FS_Subset, FS_CardinalityType
  <2> QED BY <1>4, <2>2
<1>6. /\ failures[u] \in Nat /\ wrong[u] \in Nat /\ lost \in Nat
      /\ wrong[u] <= failures[u] + f + lost
      /\ failures[u] + t < Threshold + Cardinality(CallSlots)
  BY <1>3, <1>4 DEF ThrottleInv, ThrottleTypeOK
<1> QED BY <1>3, <1>5, <1>6, SlotsCounted

\* A call that is not at the throttle comes, goes or moves on.
LEMMA CallElsewhere ==
  ASSUME ThrottleInv, NEW c \in CallSlots, NEW q, calls' = [calls EXCEPT ![c] = q],
         calls[c].pc # "failure", q.pc \notin {"verify", "failure"},
         q.pc \in {"locked", "reset"} => q.user \in Users,
         lost' = lost, failures' \in [Users -> Nat], wrong' \in [Users -> Nat],
         \A u \in Users : \/ failures'[u] = failures[u] /\ wrong'[u] = wrong[u]
                          \/ failures'[u] = 0 /\ wrong'[u] = 0
  PROVE  ThrottleInv'
<1>1. DOMAIN calls' = CallSlots /\ calls'[c] = q /\ \A d \in CallSlots : d # c => calls'[d] = calls[d]
  BY DEF ThrottleInv, ThrottleTypeOK
<1>2. ThrottleTypeOK' BY <1>1 DEF ThrottleInv, ThrottleTypeOK
<1>3. \A u \in Users : Failing(u)' = Failing(u) /\ Trying(u)' \subseteq Trying(u) BY <1>1 DEF Failing, Trying
<1> QED BY <1>2, <1>3, NobodyTries

\* The lock is not down: the call is one of at most all calls that try.
LEMMA PassingTheLock ==
  ASSUME ThrottleInv, NEW c \in CallSlots, CheckLocked(c)
  PROVE  ThrottleInv'
<1>1. PICK u : u = calls[c].user OBVIOUS
<1>2. UNCHANGED <<failures, wrong, lost>> /\ calls[c].pc = "locked" /\ u \in Users
  BY <1>1 DEF CheckLocked, Step, throttle, ThrottleInv, ThrottleTypeOK
<1>3. failures \in [Users -> Nat] /\ wrong \in [Users -> Nat] BY DEF ThrottleInv, ThrottleTypeOK
<1>4. CASE calls' = [calls EXCEPT ![c] = NoCall]
  <2>1. NoCall.pc = "none" BY DEF NoCall
  <2> QED BY <1>2, <1>3, <1>4, <2>1, CallElsewhere
<1>5. CASE calls' = [calls EXCEPT ![c] = [pc |-> "verify", user |-> u]] /\ ~LockedOut(u)
  <2>1. PICK q : q = [pc |-> "verify", user |-> u] OBVIOUS
  <2>2. q.pc = "verify" /\ q.user = u BY <2>1
  <2>3. DOMAIN calls' = CallSlots /\ calls'[c] = q /\ \A d \in CallSlots : d # c => calls'[d] = calls[d]
    BY <1>5, <2>1 DEF ThrottleInv, ThrottleTypeOK
  <2>4. ThrottleTypeOK' BY <1>2, <2>2, <2>3 DEF ThrottleInv, ThrottleTypeOK
  <2>5. \A w \in Users : Failing(w)' = Failing(w) /\ (w # u => Trying(w)' = Trying(w))
    BY <1>2, <2>2, <2>3 DEF Failing, Trying
  <2>6. Trying(u)' \in SUBSET CallSlots BY DEF Trying
  <2>7. PICK t \in Nat : t = Cardinality(Trying(u)') /\ t <= Cardinality(CallSlots) BY <2>6, FewCalls
  <2>8. failures[u] \in Nat /\ failures[u] < Threshold BY <1>2, <1>3, <1>5, SlotsCounted DEF LockedOut
  <2>9. failures'[u] + Cardinality(Trying(u)') < Threshold + Cardinality(CallSlots)
    BY <1>2, <2>7, <2>8, SlotsCounted
  <2>10. \A w \in Users : /\ wrong'[w] <= failures'[w] + Cardinality(Failing(w)') + lost'
                          /\ failures'[w] + Cardinality(Trying(w)') < Threshold + Cardinality(CallSlots)
    BY <1>2, <2>5, <2>9 DEF ThrottleInv
  <2> QED BY <2>4, <2>10 DEF ThrottleInv
<1> QED BY <1>1, <1>4, <1>5 DEF CheckLocked, Step

\* A wrong answer, about to be counted.
LEMMA AnsweringWrong ==
  ASSUME ThrottleInv, NEW c \in CallSlots, NEW right \in BOOLEAN, VerifyPassword(c, right)
  PROVE  ThrottleInv'
<1>1. PICK u : u = calls[c].user OBVIOUS
<1>2. UNCHANGED <<failures, lost>> /\ calls[c].pc = "verify" /\ u \in Users
  BY <1>1 DEF VerifyPassword, Step, ThrottleInv, ThrottleTypeOK
<1>3. failures \in [Users -> Nat] /\ wrong \in [Users -> Nat] /\ lost \in Nat BY DEF ThrottleInv, ThrottleTypeOK
<1>4. CASE calls' = [calls EXCEPT ![c] = [pc |-> "reset", user |-> u]] /\ wrong' = [wrong EXCEPT ![u] = @]
  <2>1. PICK q : q = [pc |-> "reset", user |-> u] OBVIOUS
  <2>2. q.pc = "reset" /\ q.user = u /\ wrong' = wrong BY <1>3, <1>4, <2>1
  <2> QED BY <1>2, <1>3, <1>4, <2>1, <2>2, CallElsewhere
<1>5. CASE calls' = [calls EXCEPT ![c] = [pc |-> "failure", user |-> u]] /\ wrong' = [wrong EXCEPT ![u] = @ + 1]
  <2>1. PICK q : q = [pc |-> "failure", user |-> u] OBVIOUS
  <2>2. q.pc = "failure" /\ q.user = u BY <2>1
  <2>3. DOMAIN calls' = CallSlots /\ calls'[c] = q /\ \A d \in CallSlots : d # c => calls'[d] = calls[d]
    BY <1>5, <2>1 DEF ThrottleInv, ThrottleTypeOK
  <2>4. ThrottleTypeOK' BY <1>2, <1>3, <1>5, <2>2, <2>3 DEF ThrottleInv, ThrottleTypeOK
  <2>5. \A w \in Users : Trying(w)' = Trying(w) /\ (w # u => Failing(w)' = Failing(w))
    BY <1>1, <1>2, <2>2, <2>3 DEF Failing, Trying
  <2>6. Failing(u)' = Failing(u) \cup {c} /\ c \notin Failing(u) /\ Failing(u) \in SUBSET CallSlots
    BY <1>2, <2>2, <2>3 DEF Failing
  <2>7. PICK f \in Nat : f = Cardinality(Failing(u)) BY <2>6, FewCalls
  <2>8. Cardinality(Failing(u)') = f + 1 BY <2>6, <2>7, FewCalls, FS_AddElement
  <2>9. wrong[u] <= failures[u] + f + lost /\ wrong'[u] = wrong[u] + 1 /\ wrong[u] \in Nat /\ failures[u] \in Nat
    BY <1>2, <1>3, <1>5, <2>7 DEF ThrottleInv
  <2>10. wrong'[u] <= failures'[u] + Cardinality(Failing(u)') + lost' BY <1>2, <1>3, <2>8, <2>9
  <2>11. \A w \in Users : w # u => wrong'[w] = wrong[w] BY <1>3, <1>5
  <2>12. \A w \in Users : /\ wrong'[w] <= failures'[w] + Cardinality(Failing(w)') + lost'
                          /\ failures'[w] + Cardinality(Trying(w)') < Threshold + Cardinality(CallSlots)
    BY <1>2, <2>5, <2>10, <2>11 DEF ThrottleInv
  <2> QED BY <2>4, <2>12 DEF ThrottleInv
<1> QED BY <1>1, <1>4, <1>5 DEF VerifyPassword, Step

\* It is counted, or lost.
LEMMA CountingWrong ==
  ASSUME ThrottleInv, NEW c \in CallSlots, NEW recorded \in BOOLEAN, RecordFailure(c, recorded)
  PROVE  ThrottleInv'
<1>1. PICK u : u = calls[c].user OBVIOUS
<1>2. wrong' = wrong /\ calls[c].pc = "failure" /\ u \in Users /\ calls' = [calls EXCEPT ![c] = NoCall]
  BY <1>1 DEF RecordFailure, Close, Step, ThrottleInv, ThrottleTypeOK
<1>3. failures \in [Users -> Nat] /\ wrong \in [Users -> Nat] /\ lost \in Nat BY DEF ThrottleInv, ThrottleTypeOK
<1>4. \/ failures' = [failures EXCEPT ![u] = @ + 1] /\ lost' = lost
      \/ failures' = failures /\ lost' = lost + 1
  BY <1>1 DEF RecordFailure, CountFailure
<1>5. DOMAIN calls' = CallSlots /\ calls'[c] = NoCall /\ NoCall.pc = "none"
      /\ \A d \in CallSlots : d # c => calls'[d] = calls[d]
  BY <1>2 DEF ThrottleInv, ThrottleTypeOK, NoCall
<1>6. ThrottleTypeOK' BY <1>2, <1>3, <1>4, <1>5 DEF ThrottleInv, ThrottleTypeOK
<1>7. \A w \in Users : w # u => Trying(w)' = Trying(w) /\ Failing(w)' = Failing(w)
  BY <1>1, <1>5 DEF Failing, Trying
<1>8. /\ Failing(u)' = Failing(u) \ {c} /\ c \in Failing(u) /\ Failing(u) \in SUBSET CallSlots
      /\ Trying(u)' = Trying(u) \ {c} /\ c \in Trying(u) /\ Trying(u) \in SUBSET CallSlots
  BY <1>1, <1>2, <1>5 DEF Failing, Trying
<1>9. PICK f \in Nat : f = Cardinality(Failing(u)) BY <1>8, FewCalls
<1>10. PICK t \in Nat : t = Cardinality(Trying(u)) BY <1>8, FewCalls
<1>11. Cardinality(Failing(u)') = f - 1 /\ Cardinality(Trying(u)') = t - 1
  <2>1. IsFiniteSet(Failing(u)) /\ IsFiniteSet(Trying(u)) BY <1>8, FewCalls
  <2>2. Cardinality(Failing(u) \ {c}) = f - 1 BY <1>8, <1>9, <2>1, FS_RemoveElement
  <2>3. Cardinality(Trying(u) \ {c}) = t - 1 BY <1>8, <1>10, <2>1, FS_RemoveElement
  <2> QED BY <1>8, <2>2, <2>3
<1>12. /\ wrong[u] <= failures[u] + f + lost /\ failures[u] + t < Threshold + Cardinality(CallSlots)
       /\ wrong[u] \in Nat /\ failures[u] \in Nat
  BY <1>2, <1>3, <1>9, <1>10 DEF ThrottleInv
<1>13. \/ failures'[u] = failures[u] + 1 /\ lost' = lost
       \/ failures'[u] = failures[u] /\ lost' = lost + 1
  BY <1>2, <1>3, <1>4
<1>14. /\ wrong'[u] <= failures'[u] + Cardinality(Failing(u)') + lost'
       /\ failures'[u] + Cardinality(Trying(u)') < Threshold + Cardinality(CallSlots)
  BY <1>2, <1>3, <1>11, <1>12, <1>13, SlotsCounted
<1>15. ASSUME NEW w \in Users, w # u
       PROVE  /\ wrong'[w] <= failures'[w] + Cardinality(Failing(w)') + lost'
              /\ failures'[w] + Cardinality(Trying(w)') < Threshold + Cardinality(CallSlots)
  <2>1. Failing(w) \in SUBSET CallSlots BY DEF Failing
  <2>2. PICK n \in Nat : n = Cardinality(Failing(w)) BY <2>1, FewCalls
  <2>3. failures'[w] = failures[w] /\ failures[w] \in Nat /\ wrong[w] \in Nat BY <1>3, <1>4, <1>15
  <2>4. wrong[w] <= failures[w] + n + lost BY <2>2 DEF ThrottleInv
  <2>5. wrong[w] <= failures[w] + n + lost' BY <1>3, <1>4, <2>3, <2>4
  <2> QED BY <1>2, <1>7, <1>15, <2>2, <2>3, <2>5 DEF ThrottleInv
<1>16. \A w \in Users : /\ wrong'[w] <= failures'[w] + Cardinality(Failing(w)') + lost'
                        /\ failures'[w] + Cardinality(Trying(w)') < Threshold + Cardinality(CallSlots)
  BY <1>14, <1>15
<1> QED BY <1>6, <1>16 DEF ThrottleInv

LEMMA ThrottleStep ==
  ASSUME ThrottleInv, NEW c \in CallSlots, CallStep(c)
  PROVE  ThrottleInv'
<1>0. /\ failures \in [Users -> Nat] /\ wrong \in [Users -> Nat] /\ DOMAIN calls = CallSlots
      /\ calls[c].pc = "reset" => calls[c].user \in Users
  BY DEF ThrottleInv, ThrottleTypeOK
<1>1. ASSUME NEW q, calls' = [calls EXCEPT ![c] = q], calls[c].pc # "failure",
             q.pc \notin {"locked", "verify", "failure", "reset"}, UNCHANGED throttle
      PROVE  ThrottleInv'
  BY <1>0, <1>1, CallElsewhere DEF throttle
<1>2. NoCall.pc = "none" BY DEF NoCall
<1>3. CASE CallFails(c) \/ RevokeFamily(c) \/ RevokeAllForUser(c) \/ Serve(c)
  <2>1. calls' = [calls EXCEPT ![c] = NoCall] /\ UNCHANGED throttle /\ calls[c].pc # "failure"
    BY <1>3 DEF CallFails, RevokeFamily, RevokeAllForUser, Serve, Close, Step
  <2> QED BY <1>1, <1>2, <2>1
<1>4. ASSUME NEW t \in RefreshIds, InsertRefresh(c, t) PROVE ThrottleInv'
  <2>1. calls' = [calls EXCEPT ![c] = NoCall] /\ UNCHANGED throttle /\ calls[c].pc # "failure"
    BY <1>4 DEF InsertRefresh, Close, Step
  <2> QED BY <1>1, <1>2, <2>1
<1>5. CASE ResetFailures(c)
  <2>1. PICK q : q = [pc |-> "roles", user |-> calls[c].user, family |-> 0] OBVIOUS
  <2>2. PICK u \in Users : u = calls[c].user BY <1>0, <1>5 DEF ResetFailures, Step
  <2>3. /\ calls' = [calls EXCEPT ![c] = q] /\ q.pc = "roles" /\ calls[c].pc # "failure" /\ lost' = lost
        /\ \/ failures' = failures /\ wrong' = wrong
           \/ failures' = [failures EXCEPT ![u] = 0] /\ wrong' = [wrong EXCEPT ![u] = 0]
    BY <1>5, <2>1, <2>2 DEF ResetFailures, Step, Cleared
  <2>4. /\ failures' \in [Users -> Nat] /\ wrong' \in [Users -> Nat]
        /\ \A w \in Users : \/ failures'[w] = failures[w] /\ wrong'[w] = wrong[w]
                            \/ failures'[w] = 0 /\ wrong'[w] = 0
    BY <1>0, <2>3
  <2> QED BY <2>3, <2>4, CallElsewhere
<1>6. CASE GetByID(c)
  <2>1. PICK q : q = [calls[c] EXCEPT !.pc = "roles"] OBVIOUS
  <2>2. /\ calls[c].pc = "user" /\ UNCHANGED throttle
        /\ calls' = [calls EXCEPT ![c] = NoCall] \/ calls' = [calls EXCEPT ![c] = q]
    BY <1>6, <2>1 DEF GetByID, Step
  <2>3. q.pc \in {"roles", "user"}
    <3>1. CASE "pc" \in DOMAIN calls[c] BY <2>1, <3>1
    <3>2. CASE "pc" \notin DOMAIN calls[c] BY <2>1, <2>2, <3>2
    <3> QED BY <3>1, <3>2
  <2> QED BY <1>1, <1>2, <2>2, <2>3
<1>7. CASE RoleNames(c)
  <2>1. PICK pc : pc = IF calls[c].family = 0 THEN "insert" ELSE "rotate" OBVIOUS
  <2>2. PICK tok : tok = IF calls[c].family = 0 THEN 0 ELSE calls[c].tok OBVIOUS
  <2>3. PICK q : q = [pc |-> pc, user |-> calls[c].user, tok |-> tok, family |-> calls[c].family,
                      roles |-> accounts[calls[c].user].roles]
    OBVIOUS
  <2>4. calls' = [calls EXCEPT ![c] = q] /\ UNCHANGED throttle /\ calls[c].pc # "failure"
    BY <1>7, <2>1, <2>2, <2>3 DEF RoleNames, Step
  <2>5. q.pc \in {"insert", "rotate"} BY <2>1, <2>3
  <2> QED BY <1>1, <2>4, <2>5
<1>8. CASE MarkRotated(c)
  <2>1. PICK q : q = [calls[c] EXCEPT !.pc = "insert"] OBVIOUS
  <2>2. calls[c].pc = "rotate" /\ UNCHANGED throttle /\ calls' = [calls EXCEPT ![c] = q]
    BY <1>8, <2>1 DEF MarkRotated, Step
  <2>3. q.pc \in {"insert", "rotate"}
    <3>1. CASE "pc" \in DOMAIN calls[c] BY <2>1, <3>1
    <3>2. CASE "pc" \notin DOMAIN calls[c] BY <2>1, <2>2, <3>2
    <3> QED BY <3>1, <3>2
  <2> QED BY <1>1, <2>2, <2>3
<1>9. CASE RequirePerm(c)
  <2>1. PICK q : q = [calls[c] EXCEPT !.pc = "served"] OBVIOUS
  <2>2. /\ calls[c].pc = "perm" /\ UNCHANGED throttle
        /\ calls' = [calls EXCEPT ![c] = NoCall] \/ calls' = [calls EXCEPT ![c] = q]
    BY <1>9, <2>1 DEF RequirePerm, Step
  <2>3. q.pc \in {"served", "perm"}
    <3>1. CASE "pc" \in DOMAIN calls[c] BY <2>1, <3>1
    <3>2. CASE "pc" \notin DOMAIN calls[c] BY <2>1, <2>2, <3>2
    <3> QED BY <3>1, <3>2
  <2> QED BY <1>1, <1>2, <2>2, <2>3
<1> QED BY <1>3, <1>4, <1>5, <1>6, <1>7, <1>8, <1>9, PassingTheLock, AnsweringWrong, CountingWrong DEF CallStep

LEMMA ThrottleStart ==
  ASSUME ThrottleInv, NEW c \in CallSlots, StartCall(c)
  PROVE  ThrottleInv'
<1>1. \E q : /\ calls' = [calls EXCEPT ![c] = q] /\ q.pc \notin {"verify", "failure", "reset"}
             /\ q.pc = "locked" => q.user \in Users
  <2>1. ASSUME NEW u \in Users, StartLogin(c, u)
        PROVE  \E q : calls' = [calls EXCEPT ![c] = q] /\ q.pc = "locked" /\ q.user \in Users
    <3>1. PICK q : q = [pc |-> "locked", user |-> u] OBVIOUS
    <3>2. calls' = [calls EXCEPT ![c] = q] BY <2>1, <3>1 DEF StartLogin, Open
    <3>3. q.pc = "locked" /\ q.user \in Users BY <3>1
    <3> QED BY <3>2, <3>3
  <2>2. ASSUME NEW t \in RefreshIds, GetByHash(c, t)
        PROVE  \E q : calls' = [calls EXCEPT ![c] = q] /\ q.pc \in {"reuse", "user"}
    <3>1. PICK q : q = [pc |-> IF Compromised(t) THEN "reuse" ELSE "user",
                        user |-> refresh[t].user, tok |-> t, family |-> refresh[t].family]
      OBVIOUS
    <3>2. calls' = [calls EXCEPT ![c] = q] BY <2>2, <3>1 DEF GetByHash, Open
    <3>3. q.pc \in {"reuse", "user"} BY <3>1
    <3> QED BY <3>2, <3>3
  <2>3. ASSUME NEW j \in jwts, NEW u \in Users, Deactivate(c, j, u) \/ ResetPassword(c, j, u)
        PROVE  \E q : calls' = [calls EXCEPT ![c] = q] /\ q.pc = "revoke"
    <3>1. PICK q : q = [pc |-> "revoke", user |-> u] OBVIOUS
    <3>2. calls' = [calls EXCEPT ![c] = q] BY <2>3, <3>1 DEF Deactivate, ResetPassword, Open
    <3>3. q.pc = "revoke" BY <3>1
    <3> QED BY <3>2, <3>3
  <2>4. ASSUME NEW t \in TokenIds, NEW perm \in Perms, Lookup(c, t, perm)
        PROVE  \E q : calls' = [calls EXCEPT ![c] = q] /\ q.pc = "perm"
    <3>1. PICK q : q = [pc |-> "perm", user |-> tokens[t].user, roles |-> TokenOwner(t).roles,
                        scopes |-> tokens[t].scopes, perm |-> perm]
      OBVIOUS
    <3>2. calls' = [calls EXCEPT ![c] = q] BY <2>4, <3>1 DEF Lookup, Open
    <3>3. q.pc = "perm" BY <3>1
    <3> QED BY <3>2, <3>3
  <2>5. CASE \E u \in Users : StartLogin(c, u) BY <2>1, <2>5
  <2>6. CASE \E t \in RefreshIds : GetByHash(c, t)
    <3>1. PICK q : calls' = [calls EXCEPT ![c] = q] /\ q.pc \in {"reuse", "user"} BY <2>2, <2>6
    <3> QED BY <3>1
  <2>7. CASE \E j \in jwts, u \in Users : Deactivate(c, j, u) \/ ResetPassword(c, j, u) BY <2>3, <2>7
  <2>8. CASE \E t \in TokenIds, perm \in Perms : Lookup(c, t, perm) BY <2>4, <2>8
  <2> QED BY <2>5, <2>6, <2>7, <2>8 DEF StartCall
<1>2. calls[c].pc # "failure" /\ UNCHANGED throttle
  <2>1. calls[c] = NoCall /\ UNCHANGED throttle
    BY DEF StartCall, StartLogin, GetByHash, Deactivate, ResetPassword, Lookup, Open
  <2> QED BY <2>1 DEF NoCall
<1>3. failures \in [Users -> Nat] /\ wrong \in [Users -> Nat] BY DEF ThrottleInv, ThrottleTypeOK
<1> QED BY <1>1, <1>2, <1>3, CallElsewhere DEF throttle

LEMMA ThrottleShort ==
  ASSUME ThrottleInv, ShortCall \/ UNCHANGED accessVars
  PROVE  ThrottleInv'
<1>0. failures \in [Users -> Nat] /\ wrong \in [Users -> Nat] BY DEF ThrottleInv, ThrottleTypeOK
<1>1. calls' = calls /\ lost' = lost
  BY DEF ShortCall, Bootstrap, Logout, AccessExpires, Activate, CreateUser, SetRoles, CreateToken, TokenEnds,
         WindowPasses, RedisSwitches, throttle, accessVars
<1>2. \/ failures' = failures /\ wrong' = wrong
      \/ \E u \in Users : failures' = [failures EXCEPT ![u] = 0] /\ wrong' = [wrong EXCEPT ![u] = 0]
  BY DEF ShortCall, Bootstrap, Logout, AccessExpires, Activate, CreateUser, SetRoles, CreateToken, TokenEnds,
         WindowPasses, RedisSwitches, throttle, accessVars, Cleared
<1>3. /\ failures' \in [Users -> Nat] /\ wrong' \in [Users -> Nat]
      /\ \A w \in Users : \/ failures'[w] = failures[w] /\ wrong'[w] = wrong[w]
                          \/ failures'[w] = 0 /\ wrong'[w] = 0
  BY <1>0, <1>2
<1>4. \A u \in Users : Failing(u)' = Failing(u) /\ Trying(u)' = Trying(u) BY <1>1 DEF Failing, Trying
<1>5. ThrottleTypeOK' BY <1>1, <1>3 DEF ThrottleInv, ThrottleTypeOK
<1> QED BY <1>1, <1>3, <1>4, <1>5, NobodyTries

\* Between two resets an account's password is tried wrongly fewer than
\* Threshold times, but for the calls that were past the lock when it fell
\* and those whose failure could not be recorded (Locked, RecordFailure),
\* whatever else is served and however Redis comes and goes.
THEOREM GuessesBounded == AccessSpec => []AttemptsBounded
<1>1. AccessInit => ThrottleInv
  <2>1. SUFFICES ASSUME AccessInit PROVE ThrottleInv OBVIOUS
  <2>2. ThrottleTypeOK BY <2>1 DEF AccessInit, ThrottleTypeOK, NoCall
  <2>3. \A u \in Users : Failing(u) = {} /\ Trying(u) = {} BY <2>1 DEF AccessInit, Failing, Trying, NoCall
  <2>4. \A u \in Users : failures[u] = 0 /\ wrong[u] = 0 /\ lost = 0 BY <2>1 DEF AccessInit
  <2>5. Cardinality({}) = 0 BY FS_EmptySet
  <2> QED BY <2>2, <2>3, <2>4, <2>5, SlotsCounted DEF ThrottleInv
<1>2. ThrottleInv /\ [AccessNext]_accessVars => ThrottleInv'
  BY ThrottleStep, ThrottleStart, ThrottleShort DEF AccessNext
<1>3. ThrottleInv => AttemptsBounded
  <2>1. SUFFICES ASSUME ThrottleInv, NEW u \in Users
                 PROVE  wrong[u] < Threshold + Cardinality(CallSlots) + lost
    BY DEF AttemptsBounded
  <2>2. Failing(u) \in SUBSET CallSlots /\ Trying(u) \in SUBSET CallSlots /\ Failing(u) \in SUBSET Trying(u)
    BY DEF Failing, Trying
  <2>3. PICK t \in Nat : t = Cardinality(Trying(u)) BY <2>2, FewCalls
  <2>4. PICK f \in Nat : f = Cardinality(Failing(u)) /\ f <= t
    BY <2>2, <2>3, FewCalls, FS_Subset
  <2>5. wrong[u] \in Nat /\ failures[u] \in Nat /\ lost \in Nat BY <2>1 DEF ThrottleInv, ThrottleTypeOK
  <2>6. wrong[u] <= failures[u] + f + lost /\ failures[u] + t < Threshold + Cardinality(CallSlots)
    BY <2>1, <2>3, <2>4 DEF ThrottleInv
  <2> QED BY <2>4, <2>5, <2>6, SlotsCounted
<1> QED BY <1>1, <1>2, <1>3, PTL DEF AccessSpec
=============================================================================
