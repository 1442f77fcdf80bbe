------------------------------- MODULE Accounts -------------------------------
(***************************************************************************)
(* Sign-up, sign-in and invites: rpc/auth.py, rpc/admin.py, rpc/user.py,   *)
(* services/{auth,users,invites}.  A request runs in a PostgreSQL          *)
(* transaction at READ COMMITTED: an uncommitted INSERT of an e-mail makes *)
(* another INSERT of it wait, SELECT ... FOR UPDATE makes another one of   *)
(* the same row wait, and a plain SELECT sees what is committed.  The      *)
(* failed-login counter of one client address lives in Redis and is        *)
(* changed by separate INCR and EXPIRE commands.                           *)
(***************************************************************************)
EXTENDS Naturals, FiniteSets

CONSTANTS
    Requests,      \* requests that can be in progress at once
    Emails,        \* e-mail addresses
    AdminEmail,    \* settings.ADMIN_EMAIL
    Tokens,        \* invite tokens that can be created
    Nobody,
    MaxAttempts,   \* throttle._MAX_ATTEMPTS
    MaxStarts,     \* bound: requests in all
    MaxRedisErrors \* bound: Redis commands that fail

ASSUME AccountsAssumption ==
    /\ AdminEmail \in Emails /\ Nobody \notin Requests \cup Tokens
    /\ MaxAttempts \in Nat \ {0, 1} /\ MaxStarts \in Nat /\ MaxRedisErrors \in Nat

VARIABLES
    account,    \* committed users rows, by e-mail
    invite,     \* committed invites rows
    redeemed,   \* how often each invite let somebody in
    fresh,      \* e-mail -> transaction whose INSERT is not committed
    rowLock,    \* invite -> transaction holding the row FOR UPDATE
    step,       \* what each request does next
    req,        \* its parameters and what it has read
    attempts,   \* auth:bf:{ip}
    attemptsTtl,        \* whether that key has a time to live
    starts,
    redisErrors

accountVars ==
    <<account, invite, redeemed, fresh, rowLock, step, req, attempts, attemptsTtl, starts, redisErrors>>

Kinds == {"login", "register", "create", "rename"}
Account == [exists : BOOLEAN, password : Requests \cup {Nobody}, role : {"USER", "ADMIN"}]
NoAccount == [exists |-> FALSE, password |-> Nobody, role |-> "USER"]
Request == [kind : Kinds \cup {"revoke"}, email : Emails, token : Tokens \cup {Nobody}, known : Account]
Idle == [kind |-> "login", email |-> AdminEmail, token |-> Nobody, known |-> NoAccount]

AccountsTypeOK ==
    /\ account \in [Emails -> Account]
    /\ invite \in [Tokens -> {"absent", "active", "expired", "used", "revoked"}]
    /\ redeemed \in [Tokens -> Nat]
    /\ fresh \in [Emails -> Requests \cup {Nobody}]
    /\ rowLock \in [Tokens -> Requests \cup {Nobody}]
    /\ step \in [Requests -> {"idle", "passed", "creating", "redeem", "commit", "clear",
                              "failing", "expiring", "merge", "delete"}]
    /\ req \in [Requests -> Request]
    /\ attempts \in Nat /\ attemptsTtl \in BOOLEAN /\ (attempts = 0 => ~attemptsTtl)
    /\ starts \in 0..MaxStarts /\ redisErrors \in 0..MaxRedisErrors

AccountsInit ==
    /\ account = [e \in Emails |-> NoAccount]
    /\ invite = [t \in Tokens |-> "absent"]
    /\ redeemed = [t \in Tokens |-> 0]
    /\ fresh = [e \in Emails |-> Nobody]
    /\ rowLock = [t \in Tokens |-> Nobody]
    /\ step = [r \in Requests |-> "idle"]
    /\ req = [r \in Requests |-> Idle]
    /\ attempts = 0 /\ attemptsTtl = FALSE
    /\ starts = 0 /\ redisErrors = 0

tableVars == <<account, invite, redeemed>>
lockVars  == <<fresh, rowLock>>
redisVars == <<attempts, attemptsTtl>>

RedisError == redisErrors < MaxRedisErrors /\ redisErrors' = redisErrors + 1

Goto(r, s) == step' = [step EXCEPT ![r] = s]

\* the transaction of r ends
Release(r) ==
    /\ fresh' = [e \in Emails |-> IF fresh[e] = r THEN Nobody ELSE fresh[e]]
    /\ rowLock' = [t \in Tokens |-> IF rowLock[t] = r THEN Nobody ELSE rowLock[t]]

-----------------------------------------------------------------------------
(* services/auth/throttle.py *)

\* throttle.check passes: fewer failures than allowed, or Redis is down
Unblocked == \/ attempts < MaxAttempts /\ UNCHANGED redisErrors
             \/ RedisError

\* register_failure, first command
CountFailure(r) ==
    /\ step[r] = "failing"
    /\ \/ /\ attempts' = attempts + 1
          /\ Goto(r, IF attempts' = 1 \/ attempts' >= MaxAttempts THEN "expiring" ELSE "idle")
          /\ UNCHANGED <<attemptsTtl, redisErrors>>
       \/ RedisError /\ Goto(r, "idle") /\ UNCHANGED redisVars
    /\ UNCHANGED <<tableVars, lockVars, req, starts>>

\* register_failure, second command, unless Redis fails or the request is
\* cancelled before it; EXPIRE of a missing key does nothing
TimeFailure(r) ==
    /\ step[r] = "expiring" /\ Goto(r, "idle")
    /\ \/ attemptsTtl' = (attempts # 0) /\ UNCHANGED redisErrors
       \/ RedisError /\ UNCHANGED attemptsTtl
    /\ UNCHANGED <<tableVars, lockVars, req, attempts, starts>>

\* throttle.clear, then the JWT cookie is set
ClearFailures(r) ==
    /\ step[r] = "clear" /\ Goto(r, "idle")
    /\ \/ attempts' = 0 /\ attemptsTtl' = FALSE /\ UNCHANGED redisErrors
       \/ RedisError /\ UNCHANGED redisVars
    /\ UNCHANGED <<tableVars, lockVars, req, starts>>

\* the window or the lockout passes
WindowPasses ==
    /\ attemptsTtl
    /\ attempts' = 0 /\ attemptsTtl' = FALSE
    /\ UNCHANGED <<tableVars, lockVars, step, req, starts, redisErrors>>

-----------------------------------------------------------------------------
(* Login, Register, CreateUser, UpdateMe *)

\* require_user and require_admin: UpdateMe comes with the cookie of a known
\* account, CreateUser with the admin's; Login and Register need none
Authenticated(k, e) ==
    /\ k = "create" => account[AdminEmail].role = "ADMIN"
    /\ k = "rename" => account[e].exists

\* a request arrives; Login and Register look at the throttle first
Arrive(r) ==
    /\ step[r] = "idle" /\ starts < MaxStarts /\ starts' = starts + 1
    /\ \E k \in Kinds, e \in Emails, t \in Tokens \cup {Nobody} :
          /\ k = "register" => (e = AdminEmail \/ t # Nobody)
          /\ k # "register" => t = Nobody
          /\ Authenticated(k, e)
          /\ IF k \in {"login", "register"} THEN Unblocked ELSE UNCHANGED redisErrors
          /\ req' = [req EXCEPT ![r] = [kind |-> k, email |-> e, token |-> t,
                                        known |-> account[e]]]
          /\ Goto(r, IF k = "rename" THEN "merge" ELSE "passed")
    /\ UNCHANGED <<tableVars, lockVars, redisVars>>

HasPassword(e) == account[e].exists /\ account[e].password # Nobody

\* Login: an unknown e-mail and a wrong password count as failures
LoginChecked(r) ==
    /\ step[r] = "passed" /\ req[r].kind = "login"
    /\ \/ HasPassword(req[r].email) /\ Goto(r, "clear")
       \/ Goto(r, "failing")
    /\ UNCHANGED <<tableVars, lockVars, req, redisVars, starts, redisErrors>>

\* Register and CreateUser: a registered e-mail is refused, and Register
\* counts that as a failure
Lookup(r) ==
    /\ step[r] = "passed" /\ req[r].kind \in {"register", "create"}
    /\ req' = [req EXCEPT ![r].known = account[req[r].email]]
    /\ Goto(r, IF ~HasPassword(req[r].email) THEN "creating"
               ELSE IF req[r].kind = "register" THEN "failing" ELSE "idle")
    /\ UNCHANGED <<tableVars, lockVars, redisVars, starts, redisErrors>>

\* admin_bypass
Bypass(r) == req[r].kind = "create" \/ req[r].email = AdminEmail

\* get_or_create_by_email: INSERT ... ON CONFLICT DO NOTHING waits for an
\* uncommitted INSERT of the same e-mail, then takes the row it finds
GetOrCreate(r) ==
    /\ step[r] = "creating"
    /\ LET e == req[r].email
       IN /\ req[r].known.exists \/ fresh[e] = Nobody
          /\ fresh' = IF account[e].exists THEN fresh ELSE [fresh EXCEPT ![e] = r]
    /\ Goto(r, IF Bypass(r) THEN "commit" ELSE "redeem")
    /\ UNCHANGED <<tableVars, rowLock, req, redisVars, starts, redisErrors>>

\* mutant: the SELECT without FOR UPDATE
Redeem_unlocked(r) ==
    /\ step[r] = "redeem"
    /\ IF invite[req[r].token] = "active"
         THEN Goto(r, "commit") /\ UNCHANGED lockVars
         ELSE Goto(r, "idle") /\ Release(r)
    /\ UNCHANGED <<tableVars, req, redisVars, starts, redisErrors>>

\* InviteService.redeem: lock the row, then not found, used and expired roll
\* the transaction back
Redeem(r) ==
    /\ step[r] = "redeem"
    /\ rowLock[req[r].token] = Nobody
    /\ IF invite[req[r].token] = "active"
         THEN Goto(r, "commit") /\ rowLock' = [rowLock EXCEPT ![req[r].token] = r]
              /\ UNCHANGED fresh
         ELSE Goto(r, "idle") /\ Release(r)
    /\ UNCHANGED <<tableVars, req, redisVars, starts, redisErrors>>

\* what both commits leave in the users table; an account created meanwhile
\* by a concurrent request is overwritten
StoreAccount(r, role) ==
    account' = [account EXCEPT ![req[r].email] =
                  [exists |-> TRUE, password |-> r, role |-> role]]

\* Register: role, display name, password hash, the invite's used_at; commit
CommitAccount(r) ==
    /\ step[r] = "commit" /\ req[r].kind = "register"
    /\ StoreAccount(r, IF Bypass(r) THEN "ADMIN" ELSE "USER")
    /\ IF Bypass(r) THEN UNCHANGED <<invite, redeemed>>
         ELSE /\ invite' = [invite EXCEPT ![req[r].token] = "used"]
              /\ redeemed' = [redeemed EXCEPT ![req[r].token] = @ + 1]
    /\ Release(r) /\ Goto(r, "clear")
    /\ UNCHANGED <<req, redisVars, starts, redisErrors>>

\* CreateUser: the role the admin chose, no invite; commit
CommitCreated(r) ==
    /\ step[r] = "commit" /\ req[r].kind = "create"
    /\ \E role \in {"USER", "ADMIN"} : StoreAccount(r, role)
    /\ Release(r) /\ Goto(r, "idle")
    /\ UNCHANGED <<invite, redeemed, req, redisVars, starts, redisErrors>>

\* the client hangs up inside the transaction, which is rolled back
HangUp(r) ==
    /\ step[r] \in {"creating", "redeem", "commit"}
    /\ Goto(r, "idle") /\ Release(r)
    /\ UNCHANGED <<tableVars, req, redisVars, starts, redisErrors>>

\* UpdateMe: db.merge writes back every column require_user had read
MergeUser(r) ==
    /\ step[r] = "merge" /\ Goto(r, "idle")
    /\ account' = [account EXCEPT ![req[r].email] = req[r].known]
    /\ UNCHANGED <<invite, redeemed, lockVars, req, redisVars, starts, redisErrors>>

\* _sync_admin_account at the start of a worker
SyncAdminAccount ==
    /\ starts < MaxStarts /\ starts' = starts + 1
    /\ fresh[AdminEmail] = Nobody
    /\ \E r \in Requests :
          account' = [account EXCEPT ![AdminEmail] =
                        [exists |-> TRUE, password |-> r, role |-> "ADMIN"]]
    /\ UNCHANGED <<invite, redeemed, lockVars, step, req, redisVars, redisErrors>>

-----------------------------------------------------------------------------
(* Invites *)

CreateInvite(t) ==
    /\ invite[t] = "absent" /\ account[AdminEmail].role = "ADMIN"
    /\ invite' = [invite EXCEPT ![t] = "active"]
    /\ UNCHANGED <<account, redeemed, lockVars, step, req, redisVars, starts, redisErrors>>

ExpireInvite(t) ==
    /\ invite[t] = "active" /\ rowLock[t] = Nobody
    /\ invite' = [invite EXCEPT ![t] = "expired"]
    /\ UNCHANGED <<account, redeemed, lockVars, step, req, redisVars, starts, redisErrors>>

\* InviteService.revoke reads the row without a lock and refuses a used one
RevokeRead(r, t) ==
    /\ step[r] = "idle" /\ starts < MaxStarts /\ starts' = starts + 1
    /\ account[AdminEmail].role = "ADMIN"
    /\ invite[t] \in {"active", "expired"}
    /\ req' = [req EXCEPT ![r] = [@ EXCEPT !.kind = "revoke", !.token = t]]
    /\ Goto(r, "delete")
    /\ UNCHANGED <<tableVars, lockVars, redisVars, redisErrors>>

\* the DELETE by primary key waits for the row lock; the row may be used by now
RevokeDelete(r) ==
    /\ step[r] = "delete" /\ rowLock[req[r].token] = Nobody
    /\ invite' = [invite EXCEPT ![req[r].token] = "revoked"]
    /\ Goto(r, "idle")
    /\ UNCHANGED <<account, redeemed, lockVars, req, redisVars, starts, redisErrors>>

AccountsNext ==
    \/ \E r \in Requests :
          \/ Arrive(r) \/ LoginChecked(r) \/ Lookup(r) \/ GetOrCreate(r) \/ Redeem(r)
          \/ CommitAccount(r) \/ CommitCreated(r) \/ HangUp(r) \/ MergeUser(r) \/ RevokeDelete(r)
          \/ CountFailure(r) \/ TimeFailure(r) \/ ClearFailures(r)
          \/ \E t \in Tokens : RevokeRead(r, t)
    \/ \E t \in Tokens : CreateInvite(t) \/ ExpireInvite(t)
    \/ WindowPasses \/ SyncAdminAccount

AccountsSpec == AccountsInit /\ [][AccountsNext]_accountVars

-----------------------------------------------------------------------------
(* Properties *)

\* An invite lets at most one registration commit, whatever concurrent
\* registrations, hang-ups and revocations do with it (InviteService.redeem).
InviteRedeemedOnce == \A t \in Tokens : redeemed[t] <= 1

\* An address that is locked out will be let in again: once no register_failure
\* is between its two commands, a counter at the limit has a time to live,
\* although one Redis command may have failed (throttle.register_failure).
LockoutIsTimed ==
    attempts >= MaxAttempts /\ (\A r \in Requests : step[r] # "expiring") => attemptsTtl

\* What sign-up and log-in promise under concurrent requests.
SignInIsSafe == InviteRedeemedOnce /\ LockoutIsTimed

\* InviteService.revoke: "Used - left as audit-trail".  A revocation that read
\* the row before the redeeming commit deletes it all the same.
UsedInviteStays == \A t \in Tokens : redeemed[t] > 0 => invite[t] = "used"

=============================================================================
