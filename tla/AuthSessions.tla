---------------------------- MODULE AuthSessions ----------------------------
(***************************************************************************)
(* The auth service (services/auth/handlers.go): the users and the         *)
(* user_sessions rows in MySQL, the session:<token> copies of the rows in  *)
(* Redis, and the HTTP handlers that change both, one goroutine each.      *)
(*                                                                         *)
(* One step is one SQL statement or one Redis command.  There is no        *)
(* transaction over both stores: between two commands of a handler another *)
(* one runs, a command may fail, the process may crash, and time passes.   *)
(*                                                                         *)
(* Abstracted: passwords and names (a login that fails its checks changes  *)
(* nothing), the contents of a copy (those of its row), and the difference *)
(* between a token's expiry in the row, in the copy and its Redis TTL.     *)
(***************************************************************************)
EXTENDS Integers, FiniteSets

CONSTANTS
  Users, Tokens,
  Handlers,        \* request goroutines that may be active at once
  NoUser, NoToken,
  MaxFaults,       \* bound: commands that may fail in a behaviour
  MaxCrashes       \* bound: crashes of the service in a behaviour

ASSUME NullsAreNew == NoUser \notin Users /\ NoToken \notin Tokens
ASSUME BoundsAreNats == MaxFaults \in Nat /\ MaxCrashes \in Nat

VARIABLES
  \* MySQL
  registered, banned,    \* users
  row,                   \* user_sessions: "absent", "active" or "revoked"
  owner,                 \* user_sessions.user_id
  expired,               \* the tokens whose expires_at has passed
  \* Redis and the clients
  cached,                \* the tokens with a key session:<token>
  held,                  \* the tokens clients were answered with
  \* the service's goroutines
  request,
  faults, crashes,
  tangled   \* (history) users for whom a request that ends sessions has met
            \* another request, a failed command or a crash

sessions == <<row, owner, expired>>
budget == <<faults, crashes>>
vars == <<registered, banned, sessions, cached, held, request, budget, tangled>>

Steps == {"idle", "listTokens", "dropCopies", "createSession", "cacheSession",
          "revokeToken", "readSession", "repopulate"}
Kinds == {"none", "login", "logout", "ban", "validate"}
Request == [at : Steps, kind : Kinds, user : Users \cup {NoUser},
            token : Tokens \cup {NoToken}, batch : SUBSET Tokens]
Idle == [at |-> "idle", kind |-> "none", user |-> NoUser, token |-> NoToken, batch |-> {}]

TypeOK ==
  /\ registered \in SUBSET Users
  /\ banned \in SUBSET Users
  /\ row \in [Tokens -> {"absent", "active", "revoked"}]
  /\ owner \in [Tokens -> Users \cup {NoUser}]
  /\ expired \in SUBSET Tokens
  /\ cached \in SUBSET Tokens
  /\ held \in SUBSET Tokens
  /\ request \in [Handlers -> Request]
  /\ faults \in 0..MaxFaults
  /\ crashes \in 0..MaxCrashes
  /\ tangled \in SUBSET Users

Init ==
  /\ registered = {}
  /\ banned = {}
  /\ row = [t \in Tokens |-> "absent"]
  /\ owner = [t \in Tokens |-> NoUser]
  /\ expired = {}
  /\ cached = {}
  /\ held = {}
  /\ request = [h \in Handlers |-> Idle]
  /\ faults = 0
  /\ crashes = 0
  /\ tangled = {}

\* The rows of u that ValidateSession and GetActiveTokensByUser find.
Active(t) == row[t] = "active" /\ t \notin expired
TokensOf(u) == {t \in Tokens : owner[t] = u}
\* What handleValidate answers "valid" to without asking MySQL.
Accepted(t) == t \in cached /\ t \notin expired

At(h, step) == request[h].at = step
Goto(h, step) == request' = [request EXCEPT ![h].at = step]
Move(h, step, t, tokens) ==
  request' = [request EXCEPT
    ![h] = [at |-> step, kind |-> @.kind, user |-> @.user, token |-> t, batch |-> tokens]]
Return(h) == request' = [request EXCEPT ![h] = Idle]
Begin(h, kind, step, u, t) ==
  request' = [request EXCEPT
    ![h] = [at |-> step, kind |-> kind, user |-> u, token |-> t, batch |-> {}]]

Works == UNCHANGED budget
Fails == faults < MaxFaults /\ faults' = faults + 1 /\ UNCHANGED crashes
\* The history of overlapping requests: validations alone do not tangle.
Meets(kind, u) ==
  \E h \in Handlers : /\ request[h].user = u
                      /\ kind # "validate" \/ request[h].kind # "validate"
Tangle(U) == tangled' = tangled \cup U
TangleIfMet(kind, u) == Tangle(IF Meets(kind, u) THEN {u} ELSE {})

----------------------------------------------------------------------------
(* Accounts.                                                               *)

\* handleRegister: users.username is UNIQUE.
Register(u) ==
  /\ u \notin registered
  /\ registered' = registered \cup {u}
  /\ UNCHANGED <<banned, sessions, cached, held, request, budget, tangled>>

\* handleUnbanUser.
Unban(u) ==
  /\ u \in banned
  /\ banned' = banned \ {u}
  /\ UNCHANGED <<registered, sessions, cached, held, request, budget, tangled>>

\* handleBanUser up to BanUser, which changes nothing when it fails.
Ban(h, u) ==
  /\ At(h, "idle")
  /\ u \in registered
  /\ banned' = banned \cup {u}
  /\ Begin(h, "ban", "listTokens", u, NoToken)
  /\ TangleIfMet("ban", u)
  /\ UNCHANGED <<registered, sessions, cached, held, budget>>

\* Deviation: is_banned is not looked at.
LoginUnchecked(h, u) ==
  /\ At(h, "idle")
  /\ u \in registered
  /\ Begin(h, "login", "listTokens", u, NoToken)
  /\ TangleIfMet("login", u)
  /\ UNCHANGED <<registered, banned, sessions, cached, held, budget>>

\* handleLogin up to GetUserByUsernameAuth; the row it read decides.
Login(h, u) ==
  /\ At(h, "idle")
  /\ u \in registered
  /\ u \notin banned
  /\ Begin(h, "login", "listTokens", u, NoToken)
  /\ TangleIfMet("login", u)
  /\ UNCHANGED <<registered, banned, sessions, cached, held, budget>>

----------------------------------------------------------------------------
(* invalidateUserSessions, called by handleLogin and handleBanUser, which  *)
(* only log its error.                                                     *)

AfterInvalidation(h) ==
  IF request[h].kind = "login" THEN Goto(h, "createSession") ELSE Return(h)

ListTokens(h) ==
  /\ At(h, "listTokens")
  /\ \/ /\ Works
        /\ Move(h, "dropCopies", NoToken, {t \in TokensOf(request[h].user) : Active(t)})
        /\ UNCHANGED tangled
     \/ /\ Fails
        /\ AfterInvalidation(h)
        /\ Tangle({request[h].user})
  /\ UNCHANGED <<registered, banned, sessions, cached, held>>

\* The error of a DEL is ignored.
DropCopy(h, t) ==
  /\ At(h, "dropCopies")
  /\ t \in request[h].batch
  /\ Move(h, "dropCopies", NoToken, request[h].batch \ {t})
  /\ \/ Works /\ cached' = cached \ {t} /\ UNCHANGED tangled
     \/ Fails /\ Tangle({request[h].user}) /\ UNCHANGED cached
  /\ UNCHANGED <<registered, banned, sessions, held>>

\* Deviation: a login relies on the copies being gone and leaves the rows.
RevokeAllOfBans(h) ==
  /\ At(h, "dropCopies")
  /\ request[h].batch = {}
  /\ AfterInvalidation(h)
  /\ Works
  /\ row' = [t \in Tokens |->
       IF owner[t] = request[h].user /\ row[t] = "active" /\ request[h].kind = "ban"
       THEN "revoked" ELSE row[t]]
  /\ UNCHANGED <<registered, banned, owner, expired, cached, held, tangled>>

RevokeAll(h) ==
  /\ At(h, "dropCopies")
  /\ request[h].batch = {}
  /\ AfterInvalidation(h)
  /\ \/ /\ Works
        /\ row' = [t \in Tokens |->
             IF owner[t] = request[h].user /\ row[t] = "active" THEN "revoked" ELSE row[t]]
        /\ UNCHANGED tangled
     \/ Fails /\ Tangle({request[h].user}) /\ UNCHANGED row
  /\ UNCHANGED <<registered, banned, owner, expired, cached, held>>

----------------------------------------------------------------------------
(* The rest of handleLogin.                                                *)

\* generateToken draws a new token; Tokens bounds how often it succeeds.
NoTokenLeft == \A t \in Tokens : row[t] # "absent"

\* Deviation: the error of the INSERT is only logged.
CreateSessionUnchecked(h) ==
  /\ At(h, "createSession")
  /\ \E t \in Tokens :
       /\ row[t] = "absent"
       /\ Move(h, "cacheSession", t, {})
       /\ \/ /\ Works
             /\ row' = [row EXCEPT ![t] = "active"]
             /\ owner' = [owner EXCEPT ![t] = request[h].user]
          \/ Fails /\ UNCHANGED <<row, owner>>
  /\ UNCHANGED <<registered, banned, expired, cached, held, tangled>>

CreateSession(h) ==
  /\ At(h, "createSession")
  /\ \/ /\ Works
        /\ \E t \in Tokens :
             /\ row[t] = "absent"
             /\ row' = [row EXCEPT ![t] = "active"]
             /\ owner' = [owner EXCEPT ![t] = request[h].user]
             /\ Move(h, "cacheSession", t, {})
     \/ Return(h) /\ UNCHANGED <<row, owner>> /\ (Fails \/ (NoTokenLeft /\ Works))
  /\ UNCHANGED <<registered, banned, expired, cached, held, tangled>>

\* Redis SET; the client is answered with the token either way.
CacheSession(h) ==
  /\ At(h, "cacheSession")
  /\ \/ Works /\ cached' = cached \cup {request[h].token}
     \/ Fails /\ UNCHANGED cached
  /\ held' = held \cup {request[h].token}
  /\ Return(h)
  /\ UNCHANGED <<registered, banned, sessions, tangled>>

----------------------------------------------------------------------------
(* handleLogout.                                                           *)

\* Deviation: the Redis copy is left to its TTL.
LogoutKeepingCopy(h, t) ==
  /\ At(h, "idle")
  /\ t \in held
  /\ Begin(h, "logout", "revokeToken", owner[t], t)
  /\ Works
  /\ TangleIfMet("logout", owner[t])
  /\ UNCHANGED <<registered, banned, sessions, cached, held>>

\* Redis DEL, its error ignored.
Logout(h, t) ==
  /\ At(h, "idle")
  /\ t \in held
  /\ Begin(h, "logout", "revokeToken", owner[t], t)
  /\ \/ Works /\ cached' = cached \ {t} /\ TangleIfMet("logout", owner[t])
     \/ Fails /\ Tangle({owner[t]}) /\ UNCHANGED cached
  /\ UNCHANGED <<registered, banned, sessions, held>>

\* When RevokeSessionByToken fails the session goes on.
RevokeToken(h) ==
  /\ At(h, "revokeToken")
  /\ LET t == request[h].token IN
     \/ Works /\ row' = [row EXCEPT ![t] = IF @ = "active" THEN "revoked" ELSE @]
     \/ Fails /\ UNCHANGED row
  /\ Return(h)
  /\ UNCHANGED <<registered, banned, owner, expired, cached, held, tangled>>

----------------------------------------------------------------------------
(* handleValidate; handleMe and handleGetMyMMR stop after the Redis GET.   *)

\* A GET that hits is answered at once and changes nothing.
Validate(h, t) ==
  /\ At(h, "idle")
  /\ t \in held
  /\ \/ ~Accepted(t) /\ Works
     \/ Accepted(t) /\ Fails
  /\ Begin(h, "validate", "readSession", owner[t], t)
  /\ TangleIfMet("validate", owner[t])
  /\ UNCHANGED <<registered, banned, sessions, cached, held>>

\* Deviation: ValidateSession without the condition on revoked_at.
ReadSessionOfRevoked(h) ==
  /\ At(h, "readSession")
  /\ Works
  /\ IF request[h].token \notin expired /\ request[h].user \notin banned
     THEN Goto(h, "repopulate") ELSE Return(h)
  /\ UNCHANGED <<registered, banned, sessions, cached, held, tangled>>

\* ValidateSession joins the user: no session, or a banned user, ends it.
ReadSession(h) ==
  /\ At(h, "readSession")
  /\ \/ /\ Works
        /\ IF Active(request[h].token) /\ request[h].user \notin banned
           THEN Goto(h, "repopulate") ELSE Return(h)
     \/ Fails /\ Return(h)
  /\ UNCHANGED <<registered, banned, sessions, cached, held, tangled>>

\* Redis SET with the time left as its TTL, if any is left.
Repopulate(h) ==
  /\ At(h, "repopulate")
  /\ \/ /\ Works
        /\ cached' = IF request[h].token \in expired THEN cached
                     ELSE cached \cup {request[h].token}
     \/ Fails /\ UNCHANGED cached
  /\ Return(h)
  /\ UNCHANGED <<registered, banned, sessions, held, tangled>>

----------------------------------------------------------------------------
(* Time and crashes.                                                       *)

\* sessionTTL after the login.
Expire(t) ==
  /\ row[t] # "absent"
  /\ t \notin expired
  /\ expired' = expired \cup {t}
  /\ UNCHANGED <<registered, banned, row, owner, cached, held, request, budget, tangled>>

\* Redis drops a key at the end of its TTL.
Evict(t) ==
  /\ t \in cached \cap expired
  /\ cached' = cached \ {t}
  /\ UNCHANGED <<registered, banned, sessions, held, request, budget, tangled>>

\* The requests are gone; a ban that had begun is not resumed.
Crash ==
  /\ crashes < MaxCrashes
  /\ crashes' = crashes + 1
  /\ request' = [h \in Handlers |-> Idle]
  /\ Tangle({u \in Users : \E h \in Handlers : request[h].kind = "ban" /\ request[h].user = u})
  /\ UNCHANGED <<registered, banned, sessions, cached, held, faults>>

HandlerStep(h) ==
  \/ ListTokens(h) \/ RevokeAll(h) \/ CreateSession(h) \/ CacheSession(h)
  \/ RevokeToken(h) \/ ReadSession(h) \/ Repopulate(h)
  \/ \E t \in Tokens : DropCopy(h, t)

Next ==
  \/ \E u \in Users : Register(u) \/ Unban(u)
  \/ \E h \in Handlers, u \in Users : Ban(h, u) \/ Login(h, u)
  \/ \E h \in Handlers, t \in Tokens : Logout(h, t) \/ Validate(h, t)
  \/ \E h \in Handlers : HandlerStep(h)
  \/ \E t \in Tokens : Expire(t) \/ Evict(t)
  \/ Crash

Spec == Init /\ [][Next]_vars
----------------------------------------------------------------------------
(* Properties.                                                             *)

InFlight(u) == \E h \in Handlers : request[h].user = u
BanInFlight(u) == \E h \in Handlers : request[h].kind = "ban" /\ request[h].user = u

\* "single session per user": the logins of an untangled user never leave two
\* sessions that have not been revoked, whatever the copies in Redis, failed
\* inserts and crashes between the statements of handleLogin.
OneSessionEach ==
  \A t1, t2 \in Tokens :
    /\ row[t1] = "active" /\ row[t2] = "active"
    /\ owner[t1] = owner[t2] /\ owner[t1] \notin tangled
    => t1 = t2

\* Two stores: what handleValidate accepts without asking MySQL is a session
\* MySQL would accept too, unless the owner's requests got tangled.
CopiesAreCurrent ==
  \A t \in Tokens : Accepted(t) => Active(t) \/ owner[t] \in tangled

\* "bans a user and revokes all their sessions": when the ban of an untangled
\* user is over, neither store accepts a token of theirs.
BannedAreOut ==
  \A u \in banned \ tangled :
    ~BanInFlight(u) => \A t \in TokensOf(u) : row[t] # "active" /\ ~Accepted(t)

\* Tangled or not: once no store accepts a token any more, and no request is
\* about to write the copy of a row it saw active, the token is refused for
\* good: by no order of logins, unbans, validations and failures it comes back.
Dead(t) ==
  /\ row[t] # "absent" /\ ~Active(t) /\ t \notin cached
  /\ \A h \in Handlers :
       request[h].token = t => request[h].at \notin {"repopulate", "cacheSession"}

NoRevival == [][\A t \in Tokens : Dead(t) => Dead(t)']_vars
----------------------------------------------------------------------------
(* The invariant behind them: what holds at each step of a request.        *)

\* A request's user and token fit its step.
RequestsFit ==
  \A h \in Handlers :
    LET r == request[h] IN
    /\ r.at = "idle" => r = Idle
    /\ r.at \in {"listTokens", "dropCopies"} =>
         r.kind \in {"login", "ban"} /\ r.user \in Users /\ r.token = NoToken
    /\ r.at = "createSession" => r.kind = "login" /\ r.user \in Users /\ r.token = NoToken
    /\ r.at \in {"cacheSession", "revokeToken", "readSession", "repopulate"} =>
         r.token \in Tokens /\ r.user \in Users /\ r.user = owner[r.token]
    /\ r.at = "cacheSession" => r.kind = "login"
    /\ r.at = "revokeToken" => r.kind = "logout"
    /\ r.at \in {"readSession", "repopulate"} => r.kind = "validate"

\* Copies, expiries and answers are about tokens that have a row.
RowsComeFirst ==
  /\ \A t \in Tokens : row[t] = "absent" <=> owner[t] = NoUser
  /\ \A t \in cached \cup expired \cup held : row[t] # "absent"

\* Only validations of an untangled user overlap.
UntangledAreAlone ==
  \A g, h \in Handlers :
    /\ g # h
    /\ request[g].user = request[h].user
    /\ request[g].user \in Users \ tangled
    => request[g].kind = "validate" /\ request[h].kind = "validate"

\* What a request of an untangled user may rely on at its step.
StepsAreSafe ==
  \A h \in Handlers :
    LET r == request[h] IN
    r.user \in Users \ tangled =>
      /\ r.at = "dropCopies" => \A t \in TokensOf(r.user) : Accepted(t) => t \in r.batch
      /\ r.at = "createSession" =>
           \A t \in TokensOf(r.user) : row[t] # "active" /\ ~Accepted(t)
      /\ r.at \in {"cacheSession", "repopulate"} => row[r.token] = "active"
      /\ r.at = "revokeToken" => ~Accepted(r.token)
      /\ r.kind = "login" => r.user \notin banned

SessionsInv ==
  /\ TypeOK
  /\ RequestsFit
  /\ RowsComeFirst
  /\ UntangledAreAlone
  /\ StepsAreSafe
  /\ OneSessionEach
  /\ CopiesAreCurrent
  /\ BannedAreOut
=============================================================================
