------------------------------ MODULE Sessions ------------------------------
(***************************************************************************)
(* The login sessions of one account: AuthService (login, Google login,    *)
(* consent, refresh, logout, change of password), PinService (lock, unlock,*)
(* wrong PINs, forgotten PIN), the administrator's AdminService, and the   *)
(* web client's session-refresh.ts, which all tabs of a browser use.       *)
(*                                                                         *)
(* The tabs of one browser share its cookies; the account's other devices  *)
(* reach this browser through OtherDevice only.  A request takes the       *)
(* cookies when it is sent, the handler's statements are steps of their    *)
(* own, and the answer sets the cookies.  The browser has Web Locks; in    *)
(* one that has none session-refresh.ts refreshes without a lock.  Expiry  *)
(* of a refresh token after seven days is left out.                        *)
(***************************************************************************)
EXTENDS Integers, FiniteSets

CONSTANTS
  Tabs,
  Duties,         \* what each tab asks for, of Requests
  MaxTokens,      \* bound on refresh tokens
  MaxPinAttempts, \* MAX_PIN_ATTEMPTS
  MaxAsked,       \* bound on requests and on what the clock and the administrator do
  MaxFaults,      \* bound on answers that are lost and statements that fail
  None

Tokens == 1..MaxTokens
Methods == {"PASSWORD", "GOOGLE"}
Requests ==
  {"login", "consent", "refresh", "logout", "password", "lock", "forget", "right", "wrong", "setPin"}

ASSUME SessionsAssumption ==
  /\ MaxTokens \in Nat /\ MaxPinAttempts \in Nat \ {0} /\ MaxAsked \in Nat /\ MaxFaults \in Nat
  /\ Duties \in [Tabs -> SUBSET Requests]
  /\ None \notin Tokens /\ None \notin Tabs

VARIABLES
  account, \* Staff: isActive, mustChangePassword, pinHash, pinFailedCount
  token,   \* RefreshToken rows; login is the row the session began with
  cookie,  \* the browser's cookies: the refresh token and the access token's payload
  holder,  \* the tab whose refresh has the Web Lock
  req,     \* the request of each tab
  refused, \* the token for which a tab was last told that its session is over
  over,    \* logins that were ended on purpose
  faults, asked

vars == <<account, token, cookie, holder, req, refused, over, faults, asked>>

NoToken == [state |-> "none", locked |-> FALSE, consented |-> FALSE, method |-> "PASSWORD", login |-> None]
Idle == [pc |-> "idle", token |-> None, new |-> None, copy |-> NoToken, must |-> FALSE, counted |-> FALSE]
Payload == [consented : BOOLEAN, mustChange : BOOLEAN]

\* A refresh holds the Web Lock from its POST to its answer.
Exclusive == {"sent", "rotate", "revoke", "create", "refreshed"}
OtherSteps ==
  {"login", "issue", "loggedIn", "consent", "consented", "logout", "password", "forget", "forgotten", "lock",
   "wrong", "lockout", "uncount", "right", "setPin", "unlock", "clear"}

Live(k) == token[k].state = "live"

TypeOK ==
  /\ account \in [active : BOOLEAN, mustChange : BOOLEAN, pin : BOOLEAN, failed : Nat]
  /\ token \in [Tokens -> [state : {"none", "live", "revoked"}, locked : BOOLEAN, consented : BOOLEAN,
                           method : Methods, login : Tokens \cup {None}]]
  /\ \A k \in Tokens : token[k].state # "none" <=> token[k].login # None
  /\ cookie \in [refresh : Tokens \cup {None}, access : Payload \cup {None}]
  /\ holder \in Tabs \cup {None}
  /\ \A t \in Tabs :
       /\ req[t].pc \in {"idle", "queued"} \cup Exclusive \cup OtherSteps
       /\ req[t].token \in Tokens \cup {None} /\ req[t].new \in Tokens \cup {None}
       /\ req[t].pc \in Exclusive <=> holder = t
  /\ refused \in [Tabs -> Tokens \cup {None}]
  /\ over \subseteq Tokens
  /\ faults \in 0..MaxFaults /\ asked \in 0..MaxAsked

Init ==
  /\ account \in [active : {TRUE}, mustChange : BOOLEAN, pin : BOOLEAN, failed : {0}]
  /\ token = [k \in Tokens |-> NoToken]
  /\ cookie = [refresh |-> None, access |-> None]
  /\ holder = None
  /\ req = [t \in Tabs |-> Idle]
  /\ refused = [t \in Tabs |-> None]
  /\ over = {}
  /\ faults = 0 /\ asked = 0

-----------------------------------------------------------------------------
(* Shared steps of the handlers                                            *)

Another == asked < MaxAsked /\ asked' = asked + 1
Goes(t, pc) == req' = [req EXCEPT ![t].pc = pc]
Ends(t) == req' = [req EXCEPT ![t] = Idle]

\* Bound: every request that will create a token finds a row.
Room ==
  Cardinality({k \in Tokens : token[k].state = "none"}) >
  Cardinality({t \in Tabs : req[t].pc \in {"queued", "sent", "rotate", "create", "login", "issue"}})

\* A tab sends a request other than a refresh.
Sends(t, pc) ==
  /\ Another
  /\ req[t].pc = "idle"
  /\ req' = [req EXCEPT ![t] = [Idle EXCEPT !.pc = pc, !.token = cookie.refresh]]
  /\ UNCHANGED <<account, token, cookie, holder, refused, over, faults>>

\* updateMany where revokedAt is null: with lockedAt when the PIN is at stake.
RevokeAll(locking) ==
  /\ token' = [k \in Tokens |-> IF Live(k) THEN [token[k] EXCEPT !.state = "revoked", !.locked = @ \/ locking]
                                           ELSE token[k]]
  /\ over' = over \cup {token[k].login : k \in {i \in Tokens : Live(i)}}

\* issueRefreshToken
Issues(k, row) ==
  /\ \A i \in 1..(k - 1) : token[i].state # "none"
  /\ token[k].state = "none"
  /\ token' = [token EXCEPT ![k] = row]

\* toAuthUser
PayloadOf(consented, method, must) == [consented |-> consented, mustChange |-> method = "PASSWORD" /\ must]

\* ConsentGuard lets the request through.
Admitted == cookie.access # None /\ cookie.access.consented /\ ~cookie.access.mustChange

-----------------------------------------------------------------------------
(* Login                                                                   *)

SendsLogin(t) == Room /\ Sends(t, "login")

\* login, googleCallback: the account is read, the PIN's count is reset by a password.
LogsIn(t, method) ==
  /\ req[t].pc = "login"
  /\ IF account.active
       THEN /\ account' = IF method = "PASSWORD" THEN [account EXCEPT !.failed = 0] ELSE account
            /\ req' = [req EXCEPT ![t] = [@ EXCEPT !.pc = "issue", !.must = account.mustChange,
                                                   !.copy = [NoToken EXCEPT !.state = "live", !.method = method]]]
       ELSE Ends(t) /\ UNCHANGED account
  /\ UNCHANGED <<token, cookie, holder, refused, over, faults, asked>>

IssuesLogin(t, k) ==
  /\ req[t].pc = "issue"
  /\ Issues(k, [req[t].copy EXCEPT !.login = k])
  /\ req' = [req EXCEPT ![t] = [@ EXCEPT !.pc = "loggedIn", !.new = k]]
  /\ UNCHANGED <<account, cookie, holder, refused, over, faults, asked>>

LoggedIn(t) ==
  /\ req[t].pc = "loggedIn"
  /\ cookie' = [refresh |-> req[t].new, access |-> PayloadOf(FALSE, req[t].copy.method, req[t].must)]
  /\ Ends(t)
  /\ UNCHANGED <<account, token, holder, refused, over, faults, asked>>

SendsConsent(t) == cookie.access # None /\ Sends(t, "consent")

\* recordConsent: the consent is tied to the session if that is not revoked; the
\* access token is signed in any case.
Consents(t) ==
  LET k == req[t].token IN
  /\ req[t].pc = "consent"
  /\ IF account.active
       THEN /\ token' = IF k # None /\ Live(k) THEN [token EXCEPT ![k].consented = TRUE] ELSE token
            /\ req' = [req EXCEPT ![t] = [@ EXCEPT !.pc = "consented", !.must = account.mustChange,
                                                   !.copy = IF k = None THEN NoToken ELSE token[k]]]
       ELSE Ends(t) /\ UNCHANGED token
  /\ UNCHANGED <<account, cookie, holder, refused, over, faults, asked>>

Consented(t) ==
  /\ req[t].pc = "consented"
  /\ cookie' = [cookie EXCEPT !.access = PayloadOf(TRUE, req[t].copy.method, req[t].must)]
  /\ Ends(t)
  /\ UNCHANGED <<account, token, holder, refused, over, faults, asked>>

-----------------------------------------------------------------------------
(* Refresh                                                                 *)

\* refreshSession: the access token is about to end, or a request was answered 401;
\* a tab's further calls share the one under way.
Wants(t) ==
  /\ Another
  /\ req[t].pc = "idle" /\ Room
  /\ Goes(t, "queued")
  /\ UNCHANGED <<account, token, cookie, holder, refused, over, faults>>

\* Mutant: navigator.locks is not asked.
PostsUnlocked(t) ==
  /\ req[t].pc = "queued"
  /\ holder' = t
  /\ req' = [req EXCEPT ![t] = [Idle EXCEPT !.pc = "sent", !.token = cookie.refresh]]
  /\ UNCHANGED <<account, token, cookie, refused, over, faults, asked>>

\* runExclusive: the POST leaves, with the cookie, once the lock is granted.
Posts(t) ==
  /\ req[t].pc = "queued" /\ holder = None
  /\ holder' = t
  /\ req' = [req EXCEPT ![t] = [Idle EXCEPT !.pc = "sent", !.token = cookie.refresh]]
  /\ UNCHANGED <<account, token, cookie, refused, over, faults, asked>>

Releases(t) == Ends(t) /\ holder' = None

\* refresh: a token that is not revoked, of an account that is not disabled.
Accepts(k) == k # None /\ Live(k) /\ account.active

Refuses(t) ==
  LET k == req[t].token IN
  /\ req[t].pc = "sent"
  /\ ~Accepts(k)
  /\ refused' = [refused EXCEPT ![t] = k]
  /\ over' = IF k # None /\ ~account.active THEN over \cup {token[k].login} ELSE over
  /\ Releases(t)
  /\ UNCHANGED <<account, token, cookie, faults, asked>>

\* refresh: the record is read; the new token will be a copy of it.
Reads(t) ==
  LET k == req[t].token IN
  /\ req[t].pc = "sent" /\ Accepts(k)
  /\ req' = [req EXCEPT ![t] = [@ EXCEPT !.pc = "rotate", !.copy = token[k], !.must = account.mustChange]]
  /\ UNCHANGED <<account, token, cookie, holder, refused, over, faults, asked>>

\* Mutant: the old token stays as it is.
RevokesNothing(t) ==
  /\ req[t].pc \in {"rotate", "revoke"}
  /\ Goes(t, IF req[t].pc = "rotate" THEN "create" ELSE "refreshed")
  /\ UNCHANGED <<account, token, cookie, holder, refused, over, faults, asked>>

\* Promise.all: the two statements run in either order.
Revokes(t) ==
  /\ req[t].pc \in {"rotate", "revoke"}
  /\ token' = [token EXCEPT ![req[t].token].state = "revoked"]
  /\ Goes(t, IF req[t].pc = "rotate" THEN "create" ELSE "refreshed")
  /\ UNCHANGED <<account, cookie, holder, refused, over, faults, asked>>

Creates(t, k) ==
  /\ req[t].pc \in {"rotate", "create"}
  /\ Issues(k, req[t].copy)
  /\ req' = [req EXCEPT ![t] = [@ EXCEPT !.pc = IF req[t].pc = "rotate" THEN "revoke" ELSE "refreshed", !.new = k]]
  /\ UNCHANGED <<account, cookie, holder, refused, over, faults, asked>>

Refreshed(t) ==
  /\ req[t].pc = "refreshed"
  /\ cookie' = [refresh |-> req[t].new, access |-> PayloadOf(req[t].copy.consented, req[t].copy.method, req[t].must)]
  /\ refused' = [refused EXCEPT ![t] = None]
  /\ Releases(t)
  /\ UNCHANGED <<account, token, over, faults, asked>>

\* Mutant: a promise that rejects leaves the lock behind.
FailsLocked(t) ==
  /\ req[t].pc \in Exclusive
  /\ faults < MaxFaults /\ faults' = faults + 1
  /\ Ends(t)
  /\ UNCHANGED <<account, token, cookie, holder, refused, over, asked>>

\* callRefresh: a statement fails or the answer does not arrive; the result is "error".
RefreshFails(t) ==
  /\ req[t].pc \in Exclusive
  /\ faults < MaxFaults /\ faults' = faults + 1
  /\ Releases(t)
  /\ UNCHANGED <<account, token, cookie, refused, over, asked>>

-----------------------------------------------------------------------------
(* Logout and the password                                                 *)

SendsLogout(t) == cookie.access # None /\ Sends(t, "logout")

LogsOut(t) ==
  LET k == req[t].token IN
  /\ req[t].pc = "logout"
  /\ IF k # None /\ Live(k)
       THEN token' = [token EXCEPT ![k].state = "revoked"] /\ over' = over \cup {token[k].login}
       ELSE UNCHANGED <<token, over>>
  /\ Goes(t, "clear")
  /\ UNCHANGED <<account, cookie, holder, refused, faults, asked>>

SendsPassword(t) == cookie.access # None /\ account.active /\ Sends(t, "password")

\* changePassword: the password was compared before, the transaction revokes every session.
ChangesPassword(t) ==
  /\ req[t].pc = "password"
  /\ account' = [account EXCEPT !.mustChange = FALSE]
  /\ RevokeAll(FALSE)
  /\ Goes(t, "clear")
  /\ UNCHANGED <<cookie, holder, refused, faults, asked>>

\* clearCookie
Clears(t) ==
  /\ req[t].pc = "clear"
  /\ cookie' = [refresh |-> None, access |-> None]
  /\ Ends(t)
  /\ UNCHANGED <<account, token, holder, refused, over, faults, asked>>

-----------------------------------------------------------------------------
(* PIN                                                                     *)

SendsLock(t) == Admitted /\ Sends(t, "lock")

Locks(t) ==
  LET k == req[t].token IN
  /\ req[t].pc = "lock"
  /\ token' = IF k # None /\ Live(k) THEN [token EXCEPT ![k].locked = TRUE] ELSE token
  /\ Ends(t)
  /\ UNCHANGED <<account, cookie, holder, refused, over, faults, asked>>

\* verify and setPin read the account and compare the PIN.
Compares(t, pc) ==
  /\ Another
  /\ Admitted /\ req[t].pc = "idle"
  /\ pc \in {"right", "wrong"} => account.pin
  /\ req' = [req EXCEPT ![t] = [Idle EXCEPT !.pc = pc, !.token = cookie.refresh, !.counted = account.failed > 0]]
  /\ UNCHANGED <<account, token, cookie, holder, refused, over, faults>>

\* assertPinMatches: the count is raised in the database.
Counts(t) ==
  /\ req[t].pc = "wrong"
  /\ account' = [account EXCEPT !.failed = @ + 1]
  /\ IF account.failed + 1 >= MaxPinAttempts THEN Goes(t, "lockout") ELSE Ends(t)
  /\ UNCHANGED <<token, cookie, holder, refused, over, faults, asked>>

LocksOut(t) ==
  /\ req[t].pc = "lockout"
  /\ RevokeAll(TRUE)
  /\ Goes(t, "uncount")
  /\ UNCHANGED <<account, cookie, holder, refused, faults, asked>>

Uncounts(t) ==
  /\ req[t].pc = "uncount"
  /\ account' = [account EXCEPT !.failed = 0]
  /\ Ends(t)
  /\ UNCHANGED <<token, cookie, holder, refused, over, faults, asked>>

\* verify: the count is reset if it was above 0 when the account was read.
Verifies(t) ==
  /\ req[t].pc = "right"
  /\ account' = IF req[t].counted THEN [account EXCEPT !.failed = 0] ELSE account
  /\ Goes(t, "unlock")
  /\ UNCHANGED <<token, cookie, holder, refused, over, faults, asked>>

SetsPin(t) ==
  /\ req[t].pc = "setPin"
  /\ account' = [account EXCEPT !.pin = TRUE, !.failed = 0]
  /\ Goes(t, "unlock")
  /\ UNCHANGED <<token, cookie, holder, refused, over, faults, asked>>

\* Mutant: the right PIN unlocks the session whatever became of it.
UnlocksAny(t) ==
  LET k == req[t].token IN
  /\ req[t].pc = "unlock"
  /\ token' = IF k # None THEN [token EXCEPT ![k].locked = FALSE] ELSE token
  /\ Ends(t)
  /\ UNCHANGED <<account, cookie, holder, refused, over, faults, asked>>

\* unlockSession; verify answers 401 when there is no session to unlock, and the
\* tab then asks for a refresh (Wants).
Unlocks(t) ==
  LET k == req[t].token IN
  /\ req[t].pc = "unlock"
  /\ token' = IF k # None /\ Live(k) THEN [token EXCEPT ![k].locked = FALSE] ELSE token
  /\ Ends(t)
  /\ UNCHANGED <<account, cookie, holder, refused, over, faults, asked>>

SendsForget(t) == Admitted /\ Sends(t, "forget")

\* forgetPin: two statements.
Forgets(t) ==
  /\ req[t].pc = "forget"
  /\ RevokeAll(TRUE)
  /\ Goes(t, "forgotten")
  /\ UNCHANGED <<account, cookie, holder, refused, faults, asked>>

Forgotten(t) ==
  /\ req[t].pc = "forgotten"
  /\ account' = [account EXCEPT !.pin = FALSE, !.failed = 0]
  /\ Goes(t, "clear")
  /\ UNCHANGED <<token, cookie, holder, refused, over, faults, asked>>

-----------------------------------------------------------------------------
(* Elsewhere                                                               *)

\* The access token's fifteen minutes are over.
AccessEnds ==
  /\ Another
  /\ cookie' = [cookie EXCEPT !.access = None]
  /\ UNCHANGED <<account, token, holder, req, refused, over, faults>>

\* AdminService.update of isActive: its transaction revokes every session.
SetsActive(active) ==
  /\ Another
  /\ account' = [account EXCEPT !.active = active]
  /\ IF active THEN UNCHANGED <<token, over>> ELSE RevokeAll(FALSE)
  /\ UNCHANGED <<cookie, holder, req, refused, faults>>

\* AdminService.resetPassword
ResetsPassword ==
  /\ Another
  /\ account' = [account EXCEPT !.mustChange = TRUE]
  /\ RevokeAll(FALSE)
  /\ UNCHANGED <<cookie, holder, req, refused, faults>>

\* PinService.resetPin
ResetsPin ==
  /\ Another
  /\ account' = [account EXCEPT !.pin = FALSE, !.failed = 0]
  /\ UNCHANGED <<token, cookie, holder, req, refused, over, faults>>

-----------------------------------------------------------------------------
\* What the server and the network do for a request that is under way.
Handles(t) ==
  \/ \E k \in Tokens : IssuesLogin(t, k) \/ Creates(t, k)
  \/ \E method \in Methods : LogsIn(t, method)
  \/ LoggedIn(t) \/ Consents(t) \/ Consented(t)
  \/ Refuses(t) \/ Reads(t) \/ Revokes(t) \/ Refreshed(t)
  \/ LogsOut(t) \/ ChangesPassword(t) \/ Clears(t)
  \/ Locks(t) \/ Counts(t) \/ LocksOut(t) \/ Uncounts(t) \/ Verifies(t) \/ SetsPin(t) \/ Unlocks(t)
  \/ Forgets(t) \/ Forgotten(t)

Asks(t) ==
  \/ "login" \in Duties[t] /\ SendsLogin(t)
  \/ "consent" \in Duties[t] /\ SendsConsent(t)
  \/ "refresh" \in Duties[t] /\ Wants(t)
  \/ "logout" \in Duties[t] /\ SendsLogout(t)
  \/ "password" \in Duties[t] /\ SendsPassword(t)
  \/ "lock" \in Duties[t] /\ SendsLock(t)
  \/ "forget" \in Duties[t] /\ SendsForget(t)
  \/ \E pc \in {"right", "wrong", "setPin"} \cap Duties[t] : Compares(t, pc)

Next ==
  \/ \E t \in Tabs : Asks(t) \/ Posts(t) \/ Handles(t) \/ RefreshFails(t)
  \/ AccessEnds \/ ResetsPassword \/ ResetsPin
  \/ \E active \in BOOLEAN : SetsActive(active)

\* Node and the browser go on with what is under way; Web Locks are granted in the
\* order they were asked for, so no tab waits for ever while the lock is released.
Spec == Init /\ [][Next]_vars /\ \A t \in Tabs : WF_vars(Handles(t)) /\ SF_vars(Posts(t))

-----------------------------------------------------------------------------
\* session-refresh.ts: as long as every statement succeeds and every answer arrives,
\* however the tabs' refreshes, logins and logouts overlap, a tab is told that its
\* session is over only if somebody ended that login.  In a browser without Web Locks,
\* where runExclusive takes none (line 38), it need not hold.
RefusedOnlyWhenOver ==
  faults = 0 => \A t \in Tabs : refused[t] # None => token[refused[t]].login \in over

\* auth.service.ts refresh: rotation leaves a login one usable token, apart from the
\* moment between its two statements, and again in browsers with Web Locks: the
\* server revokes by id whatever another tab has done to the row.
OneTokenPerLogin ==
  faults = 0 =>
    \A j, k \in Tokens :
      Live(j) /\ Live(k) /\ token[j].login = token[k].login =>
        \/ j = k
        \/ holder # None /\ req[holder].pc = "revoke" /\ {j, k} = {req[holder].token, req[holder].new}

\* pin.service.ts unlockSession: "a right PIN does not revive" a session that wrong PINs
\* or a forgotten PIN ended, whenever the right one was compared.
RevokedStaysLocked ==
  [][\A k \in Tokens : token[k].state = "revoked" /\ token[k].locked => token'[k].locked]_vars

\* session-refresh.ts: a refresh that waits for the other tabs gets an answer, whatever
\* becomes of theirs.
RefreshSettles == \A t \in Tabs : req[t].pc = "queued" ~> req[t].pc = "idle"

-----------------------------------------------------------------------------
\* session-refresh.ts:16, "unauthorized = the session is really over, error = network or
\* server, try again later".
UnauthorizedIsOver == \A t \in Tabs : refused[t] # None => token[refused[t]].login \in over
=============================================================================
