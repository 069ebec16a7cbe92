---------------------------- MODULE SessionsProofs ----------------------------
(***************************************************************************)
(* Proofs about Sessions for every number of tabs, tokens, requests and    *)
(* faults.                                                                 *)
(***************************************************************************)
EXTENDS Sessions, TLAPS

USE SessionsAssumption

-----------------------------------------------------------------------------
(* The inductive invariant.                                                *)

Account == [active : BOOLEAN, mustChange : BOOLEAN, pin : BOOLEAN, failed : Nat]
Row == [state : {"none", "live", "revoked"}, locked : BOOLEAN, consented : BOOLEAN,
        method : Methods, login : Tokens \cup {None}]
Cookie == [refresh : Tokens \cup {None}, access : Payload \cup {None}]
Request ==
  [pc : {"idle", "queued"} \cup Exclusive \cup OtherSteps, token : Tokens \cup {None},
   new : Tokens \cup {None}, copy : Row, must : BOOLEAN, counted : BOOLEAN]

Shape ==
  /\ account \in Account /\ token \in [Tokens -> Row] /\ cookie \in Cookie
  /\ holder \in Tabs \cup {None}
  /\ req \in [Tabs -> Request]
  /\ refused \in [Tabs -> Tokens \cup {None}]
  /\ over \subseteq Tokens
  /\ faults \in 0..MaxFaults /\ asked \in 0..MaxAsked

\* The Web Lock belongs to the refresh that is under way.
Locked == \A t \in Tabs : req[t].pc \in Exclusive <=> holder = t

Created == {k \in Tokens : token[k].state # "none"} \cup {None}

\* Whatever names a token names one that was created.
Known ==
  /\ \A k \in Tokens : (token[k].state # "none" <=> token[k].login # None) /\ token[k].login \in Created
  /\ cookie.refresh \in Created
  /\ \A t \in Tabs : req[t].token \in Created /\ req[t].new \in Created /\ refused[t] \in Created

\* What a rotation works on, and what it has made.
Rotating ==
  \A t \in Tabs :
    LET r == req[t] IN
    /\ r.pc \in {"rotate", "create", "revoke", "refreshed"} =>
         r.token # None /\ r.copy.state = "live" /\ r.copy.login = token[r.token].login
    /\ r.pc \in {"revoke", "refreshed"} => r.new # None /\ r.new # r.token /\ token[r.new].login = r.copy.login
    /\ r.pc = "loggedIn" => r.new # None
    /\ r.pc = "issue" => r.copy.state = "live"

\* The token of a login whose answer has not arrived is used by nobody.
Unused ==
  \A t \in Tabs : req[t].pc = "loggedIn" =>
    /\ cookie.refresh # req[t].new
    /\ \A u \in Tabs \ {t} :
         /\ req[u].pc \in Exclusive => req[t].new \notin {req[u].token, req[u].new}
         /\ req[u].pc = "loggedIn" => req[t].new # req[u].new

\* A refresh that will create a token leaves its login no other one.
Alone ==
  \A t \in Tabs, k \in Tokens :
    Live(k) /\ token[k].login = req[t].copy.login =>
      req[t].pc # "create" /\ (req[t].pc = "rotate" => k = req[t].token)

Good == {k \in Tokens : Live(k) \/ token[k].login \in over} \cup {None}

\* What the browser holds, or is about to hold, is usable unless its login was ended.
Usable ==
  /\ \/ cookie.refresh \in Good
     \/ holder # None /\ req[holder].pc \in {"create", "refreshed"} /\ cookie.refresh = req[holder].token
  /\ \A t \in Tabs :
       /\ req[t].pc = "sent" => req[t].token \in Good
       /\ req[t].pc \in {"revoke", "refreshed", "loggedIn"} => req[t].new \in Good
       /\ refused[t] # None => token[refused[t]].login \in over

Inv ==
  /\ Shape /\ Locked /\ Known /\ Rotating /\ Unused
  /\ faults = 0 => Alone /\ Usable /\ OneTokenPerLogin

-----------------------------------------------------------------------------
(* Steps that rotate nothing.                                              *)

\* The tokens may be revoked, when their logins are over, and locked or unlocked.
Kept ==
  /\ over \subseteq over'
  /\ \A k \in Tokens :
       /\ token'[k].login = token[k].login
       /\ token[k].state = "none" <=> token'[k].state = "none"
       /\ token'[k].state = "live" => token[k].state = "live"
       /\ token[k].state = "live" /\ token'[k].state # "live" => token[k].login \in over'

\* A tab's request that is not a refresh goes on, or starts, or ends.
Plain(t) ==
  /\ req[t].pc \notin Exclusive /\ req'[t].pc \notin Exclusive \cup {"loggedIn"}
  /\ req'[t].pc = "issue" => req'[t].copy.state = "live"
  /\ req'[t].token \in {None, cookie.refresh, req[t].token} /\ req'[t].new \in {None, req[t].new}

LEMMA PlainOK ==
  ASSUME Inv, Shape', Kept, UNCHANGED <<holder, refused, faults>>,
         cookie'.refresh \in {cookie.refresh, None},
         \A t \in Tabs : req'[t] = req[t] \/ Plain(t)
  PROVE  Inv'
<1> USE DEF Inv, Kept
<1>1. /\ cookie.refresh \in Tokens \cup {None}
      /\ \A k \in Tokens : token[k].login \in Tokens \cup {None}
      /\ \A t \in Tabs : /\ req[t].token \in Tokens \cup {None} /\ req[t].new \in Tokens \cup {None}
                        /\ refused[t] \in Tokens \cup {None}
  BY DEF Shape, Row, Cookie, Request
<1>2. Locked' BY DEF Locked, Plain
<1>3. Created' = Created BY DEF Created
<1>7. Known' BY <1>1, <1>3 DEF Known, Plain, Created
<1>4. Rotating' BY <1>1 DEF Rotating, Plain, Exclusive
<1>5. Unused' BY <1>1 DEF Unused, Plain, Rotating
<1>6. ASSUME faults' = 0
      PROVE  Alone' /\ Usable' /\ OneTokenPerLogin'
  <2>1. Alone /\ Usable /\ OneTokenPerLogin BY <1>6
  <2>2. Alone' BY <1>1, <2>1 DEF Alone, Plain, Exclusive, Live
  <2>3. Good \subseteq Good' BY DEF Good, Live
  <2>4. Usable'
    <3>1. \/ cookie'.refresh \in Good'
          \/ holder' # None /\ req'[holder'].pc \in {"create", "refreshed"} /\ cookie'.refresh = req'[holder'].token
      <4>1. None \in Good' BY DEF Good
      <4> QED BY <2>1, <2>3, <4>1 DEF Usable, Plain, Exclusive, Shape
    <3>2. \A t \in Tabs :
            /\ req'[t].pc = "sent" => req'[t].token \in Good'
            /\ req'[t].pc \in {"revoke", "refreshed", "loggedIn"} => req'[t].new \in Good'
      BY <2>1, <2>3 DEF Usable, Plain, Exclusive
    <3>3. \A t \in Tabs : refused'[t] # None => token'[refused'[t]].login \in over'
      BY <1>1, <2>1 DEF Usable
    <3> QED BY <3>1, <3>2, <3>3 DEF Usable
  <2>5. OneTokenPerLogin'
    <3>1. faults = 0 BY <1>6
    <3> SUFFICES ASSUME NEW j \in Tokens, NEW k \in Tokens,
                        token'[j].state = "live", token'[k].state = "live",
                        token'[j].login = token'[k].login, j # k
                 PROVE  holder' # None /\ req'[holder'].pc = "revoke" /\ {j, k} = {req'[holder'].token, req'[holder'].new}
      BY DEF OneTokenPerLogin, Live
    <3>2. holder # None /\ req[holder].pc = "revoke" /\ {j, k} = {req[holder].token, req[holder].new}
      BY <2>1, <3>1 DEF OneTokenPerLogin, Live
    <3> QED BY <3>2 DEF Plain, Exclusive, Shape
  <2> QED BY <2>2, <2>4, <2>5
<1> QED BY <1>2, <1>4, <1>5, <1>6, <1>7

\* What was revoked while it was locked stays locked.
Stays == \A k \in Tokens : token[k].state = "revoked" /\ token[k].locked => token'[k].locked

LEMMA RevokeAllOK ==
  ASSUME Inv, NEW locking \in BOOLEAN, RevokeAll(locking)
  PROVE  token' \in [Tokens -> Row] /\ over' \subseteq Tokens /\ Kept /\ Stays
<1>1. \A k \in Tokens : token[k] \in Row BY DEF Inv, Shape
<1>2. \A k \in Tokens :
        LET revoked == [token[k] EXCEPT !.state = "revoked", !.locked = token[k].locked \/ locking] IN
        /\ revoked \in Row /\ revoked.state = "revoked" /\ revoked.login = token[k].login
        /\ token[k].locked => revoked.locked
  BY <1>1 DEF Row
<1>3. \A k \in Tokens :
        \/ /\ token[k].state = "live" /\ token'[k] \in Row /\ token'[k].state = "revoked"
           /\ token'[k].login = token[k].login /\ (token[k].locked => token'[k].locked)
        \/ token[k].state # "live" /\ token'[k] = token[k]
  BY <1>2 DEF RevokeAll, Live
<1>4. token' \in [Tokens -> Row] BY <1>1, <1>3 DEF RevokeAll
<1>5. over' = over \cup {token[k].login : k \in {i \in Tokens : token[i].state = "live"}} BY DEF RevokeAll, Live
<1>6. \A k \in Tokens : token[k].state = "live" => token[k].login \in Tokens BY <1>1 DEF Inv, Known, Row
<1>7. over' \subseteq Tokens BY <1>5, <1>6 DEF Inv, Shape
<1>8. Kept BY <1>3, <1>5 DEF Kept
<1>9. Stays BY <1>3 DEF Stays
<1> QED BY <1>4, <1>7, <1>8, <1>9

\* Steps about the tokens of a request: a session is revoked, consented to, locked
\* or unlocked.
LEMMA SetsRowOK ==
  ASSUME Inv, NEW k \in Tokens, NEW row \in Row, token' = [token EXCEPT ![k] = row],
         row.login = token[k].login, row.state # "none" <=> token[k].state # "none",
         row.state = "live" => token[k].state = "live",
         token[k].state = "live" /\ row.state # "live" => token[k].login \in over',
         token[k].state = "revoked" /\ token[k].locked => row.locked,
         over \subseteq over'
  PROVE  token' \in [Tokens -> Row] /\ Kept /\ Stays
<1>1. token' \in [Tokens -> Row] /\ token'[k] = row /\ \A i \in Tokens \ {k} : token'[i] = token[i]
  BY DEF Inv, Shape
<1>2. row.state = "none" <=> token[k].state = "none" OBVIOUS
<1>3. Kept BY <1>1, <1>2 DEF Kept
<1>4. Stays BY <1>1 DEF Stays
<1> QED BY <1>1, <1>3, <1>4

LEMMA KeepsTokens ==
  ASSUME UNCHANGED <<token, over>>
  PROVE  Kept /\ Stays
  BY DEF Kept, Stays

\* What a tab's request may become.
Follows(t) ==
  /\ req' \in [Tabs -> Request] /\ Plain(t)
  /\ \A u \in Tabs \ {t} : req'[u] = req[u]

LEMMA BecomesOK ==
  ASSUME Inv, NEW t \in Tabs, NEW r \in Request, req' = [req EXCEPT ![t] = r],
         req[t].pc \notin Exclusive, r.pc \notin Exclusive \cup {"loggedIn"},
         r.pc = "issue" => r.copy.state = "live",
         r.token \in {None, cookie.refresh, req[t].token}, r.new \in {None, req[t].new}
  PROVE  Follows(t)
  BY DEF Inv, Shape, Follows, Plain

LEMMA IdleOK == Idle \in Request /\ Idle.pc = "idle" /\ Idle.token = None /\ Idle.new = None
<1>1. NoToken \in Row BY DEF NoToken, Row, Methods
<1> QED BY <1>1 DEF Idle, Request

LEMMA EndsOK ==
  ASSUME Inv, NEW t \in Tabs, Ends(t), req[t].pc \notin Exclusive
  PROVE  Follows(t)
<1>1. req' = [req EXCEPT ![t] = Idle] BY DEF Ends
<1>2. Idle.pc \notin Exclusive \cup {"loggedIn"} BY IdleOK DEF Exclusive
<1> QED BY <1>1, <1>2, IdleOK, BecomesOK

LEMMA GoesOK ==
  ASSUME Inv, NEW t \in Tabs, NEW pc \in {"idle", "queued"} \cup OtherSteps, Goes(t, pc),
         pc \notin {"loggedIn", "issue"}, req[t].pc \notin Exclusive
  PROVE  Follows(t)
<1> DEFINE r == [req[t] EXCEPT !.pc = pc]
<1>1. r \in Request /\ r.pc = pc /\ r.token = req[t].token /\ r.new = req[t].new
  BY DEF Inv, Shape, Request
<1>2. req' = [req EXCEPT ![t] = r] BY DEF Goes
<1>3. pc \notin Exclusive BY DEF OtherSteps, Exclusive
<1> HIDE DEF r
<1> QED BY <1>1, <1>2, <1>3, BecomesOK

\* A request starts with the browser's refresh cookie.
LEMMA StartsOK ==
  ASSUME Inv, NEW t \in Tabs, NEW r \in Request, req[t].pc = "idle", req' = [req EXCEPT ![t] = r],
         r.pc \in OtherSteps, r.pc \notin {"loggedIn", "issue"}, r.token = cookie.refresh, r.new = None
  PROVE  Follows(t)
<1>1. r.pc \notin Exclusive /\ req[t].pc \notin Exclusive BY DEF OtherSteps, Exclusive
<1> QED BY <1>1, BecomesOK

\* A step of a tab's request, or of nobody's, that rotates nothing.
LEMMA StepsOK ==
  ASSUME Inv, Kept, UNCHANGED <<holder, refused, faults>>,
         req' = req \/ \E t \in Tabs : Follows(t),
         account' \in Account, token' \in [Tokens -> Row], over' \subseteq Tokens,
         cookie' \in Cookie, cookie'.refresh \in {cookie.refresh, None},
         asked' \in 0..MaxAsked
  PROVE  Inv'
<1>1. req' \in [Tabs -> Request] /\ \A u \in Tabs : req'[u] = req[u] \/ Plain(u)
  BY DEF Follows, Inv, Shape
<1>2. Shape' BY <1>1 DEF Inv, Shape
<1> QED BY <1>1, <1>2, PlainOK

\* What a step that leaves a variable alone keeps of its type.
LEMMA TypesOK ==
  ASSUME Inv
  PROVE  /\ account \in Account /\ token \in [Tokens -> Row] /\ over \subseteq Tokens
         /\ cookie \in Cookie /\ asked \in 0..MaxAsked
         /\ Another => asked' \in 0..MaxAsked
         /\ \A t \in Tabs : req[t] \in Request
  BY DEF Inv, Shape, Another

LEMMA SendsOK ==
  ASSUME Inv, NEW t \in Tabs, NEW pc \in OtherSteps, Sends(t, pc), pc \notin {"loggedIn", "issue"}
  PROVE  Inv' /\ Stays
<1> DEFINE r == [Idle EXCEPT !.pc = pc, !.token = cookie.refresh]
<1>1. cookie.refresh \in Tokens \cup {None} BY DEF Inv, Shape, Cookie
<1>2. r \in Request /\ r.pc = pc /\ r.token = cookie.refresh /\ r.new = None
  BY <1>1, IdleOK DEF Request
<1>3. req[t].pc = "idle" /\ req' = [req EXCEPT ![t] = r] BY DEF Sends
<1> HIDE DEF r
<1>4. Follows(t) BY <1>2, <1>3, StartsOK
<1>5. UNCHANGED <<account, token, cookie, holder, refused, over, faults>> /\ asked' \in 0..MaxAsked
  BY TypesOK DEF Sends
<1> QED BY <1>4, <1>5, TypesOK, KeepsTokens, StepsOK

LEMMA ComparesOK ==
  ASSUME Inv, NEW t \in Tabs, NEW pc \in {"right", "wrong", "setPin"}, Compares(t, pc)
  PROVE  Inv' /\ Stays
<1> DEFINE counted == account.failed > 0
           r == [Idle EXCEPT !.pc = pc, !.token = cookie.refresh, !.counted = counted]
<1>1. cookie.refresh \in Tokens \cup {None} /\ counted \in BOOLEAN BY DEF Inv, Shape, Cookie
<1>2. req[t].pc = "idle" /\ req' = [req EXCEPT ![t] = r] BY DEF Compares
<1> HIDE DEF counted
<1>3. r \in Request /\ r.pc = pc /\ r.token = cookie.refresh /\ r.new = None
  BY <1>1, IdleOK DEF Request, OtherSteps
<1> HIDE DEF r
<1>4. Follows(t) BY <1>2, <1>3, StartsOK DEF OtherSteps
<1>5. UNCHANGED <<account, token, cookie, holder, refused, over, faults>> /\ asked' \in 0..MaxAsked
  BY TypesOK DEF Compares
<1> QED BY <1>4, <1>5, TypesOK, KeepsTokens, StepsOK

LEMMA WantsOK ==
  ASSUME Inv, NEW t \in Tabs, Wants(t)
  PROVE  Inv' /\ Stays
<1>1. Follows(t) BY GoesOK DEF Wants, Exclusive
<1>2. UNCHANGED <<account, token, cookie, holder, refused, over, faults>> /\ asked' \in 0..MaxAsked
  BY TypesOK DEF Wants
<1> QED BY <1>1, <1>2, TypesOK, KeepsTokens, StepsOK

LEMMA AsksOK ==
  ASSUME Inv, NEW t \in Tabs, Asks(t)
  PROVE  Inv' /\ Stays
<1>1. {"login", "consent", "logout", "password", "lock", "forget"} \subseteq OtherSteps BY DEF OtherSteps
<1>2. ASSUME NEW pc \in {"login", "consent", "logout", "password", "lock", "forget"}, Sends(t, pc)
      PROVE  Inv' /\ Stays
  BY <1>1, <1>2, SendsOK
<1>3. ASSUME NEW pc \in {"right", "wrong", "setPin"} \cap Duties[t], Compares(t, pc)
      PROVE  Inv' /\ Stays
  BY <1>3, ComparesOK
<1>4. CASE Wants(t) BY <1>4, WantsOK
<1> QED
  BY <1>2, <1>3, <1>4 DEF Asks, SendsLogin, SendsConsent, SendsLogout, SendsPassword, SendsLock, SendsForget

\* What the handlers make of the account.
LEMMA AccountsOK ==
  ASSUME Inv
  PROVE  /\ [account EXCEPT !.failed = 0] \in Account
         /\ [account EXCEPT !.failed = @ + 1] \in Account
         /\ [account EXCEPT !.mustChange = FALSE] \in Account
         /\ [account EXCEPT !.mustChange = TRUE] \in Account
         /\ [account EXCEPT !.pin = TRUE, !.failed = 0] \in Account
         /\ [account EXCEPT !.pin = FALSE, !.failed = 0] \in Account
         /\ \A active \in BOOLEAN : [account EXCEPT !.active = active] \in Account
<1>1. account \in Account BY TypesOK
<1>2. [account EXCEPT !.failed = 0] \in Account BY <1>1 DEF Account
<1>3. [account EXCEPT !.failed = @ + 1] \in Account BY <1>1 DEF Account
<1>4. [account EXCEPT !.mustChange = FALSE] \in Account BY <1>1 DEF Account
<1>5. [account EXCEPT !.mustChange = TRUE] \in Account BY <1>1 DEF Account
<1>6. [account EXCEPT !.pin = TRUE, !.failed = 0] \in Account BY <1>1 DEF Account
<1>7. [account EXCEPT !.pin = FALSE, !.failed = 0] \in Account BY <1>1 DEF Account
<1>8. \A active \in BOOLEAN : [account EXCEPT !.active = active] \in Account BY <1>1 DEF Account
<1> QED BY <1>2, <1>3, <1>4, <1>5, <1>6, <1>7, <1>8

LEMMA PayloadOK ==
  ASSUME Inv, NEW t \in Tabs, NEW consented \in BOOLEAN
  PROVE  PayloadOf(consented, req[t].copy.method, req[t].must) \in Payload
<1>1. req[t].copy.method \in Methods /\ req[t].must \in BOOLEAN BY DEF Inv, Shape, Request, Row
<1> QED BY <1>1 DEF PayloadOf, Payload

\* Handlers that leave the tokens alone.
LEMMA LogsInOK ==
  ASSUME Inv, NEW t \in Tabs, NEW method \in Methods, LogsIn(t, method)
  PROVE  Inv' /\ Stays
<1> DEFINE copy == [NoToken EXCEPT !.state = "live", !.method = method]
           r == [req[t] EXCEPT !.pc = "issue", !.must = account.mustChange, !.copy = copy]
<1>1. copy \in Row /\ copy.state = "live" BY DEF NoToken, Row
<1>2. req[t] \in Request /\ account.mustChange \in BOOLEAN BY TypesOK DEF Account
<1>3. \/ account' \in Account /\ req' = [req EXCEPT ![t] = r]
      \/ account' = account /\ Ends(t)
  BY AccountsOK, TypesOK DEF LogsIn
<1>4. UNCHANGED <<token, cookie, holder, refused, over, faults, asked>> /\ req[t].pc = "login" BY DEF LogsIn
<1> HIDE DEF copy
<1>5. /\ r \in Request /\ r.pc = "issue" /\ r.copy = copy
      /\ r.token = req[t].token /\ r.new = req[t].new
  BY <1>1, <1>2 DEF Request, OtherSteps
<1> HIDE DEF r
<1>6. Follows(t) BY <1>1, <1>3, <1>4, <1>5, BecomesOK, EndsOK DEF Exclusive
<1>7. account' \in Account BY <1>3, TypesOK
<1> QED BY <1>4, <1>6, <1>7, TypesOK, KeepsTokens, StepsOK

LEMMA ConsentedOK ==
  ASSUME Inv, NEW t \in Tabs, Consented(t)
  PROVE  Inv' /\ Stays
<1>1. Follows(t) BY EndsOK DEF Consented, Exclusive
<1>2. cookie' \in Cookie /\ cookie'.refresh = cookie.refresh
  BY PayloadOK, TypesOK DEF Consented, Cookie
<1>3. UNCHANGED <<account, token, holder, refused, over, faults, asked>> BY DEF Consented
<1> QED BY <1>1, <1>2, <1>3, TypesOK, KeepsTokens, StepsOK

LEMMA ClearsOK ==
  ASSUME Inv, NEW t \in Tabs, Clears(t)
  PROVE  Inv' /\ Stays
<1>1. Follows(t) BY EndsOK DEF Clears, Exclusive
<1>2. cookie' \in Cookie /\ cookie'.refresh = None BY DEF Clears, Cookie
<1>3. UNCHANGED <<account, token, holder, refused, over, faults, asked>> BY DEF Clears
<1> QED BY <1>1, <1>2, <1>3, TypesOK, KeepsTokens, StepsOK

\* Handlers whose step is about the account only.
LEMMA AccountStepOK ==
  ASSUME Inv, NEW t \in Tabs,
         \/ Counts(t) \/ Uncounts(t) \/ Verifies(t) \/ SetsPin(t) \/ Forgotten(t)
  PROVE  Inv' /\ Stays
<1>1. \/ req[t].pc \in {"wrong", "uncount", "right", "setPin", "forgotten"} /\ Ends(t)
      \/ req[t].pc \in {"wrong", "uncount", "right", "setPin", "forgotten"} /\ Goes(t, "lockout")
      \/ req[t].pc \in {"wrong", "uncount", "right", "setPin", "forgotten"} /\ Goes(t, "unlock")
      \/ req[t].pc \in {"wrong", "uncount", "right", "setPin", "forgotten"} /\ Goes(t, "clear")
  BY DEF Counts, Uncounts, Verifies, SetsPin, Forgotten
<1>2. Follows(t) BY <1>1, EndsOK, GoesOK DEF Exclusive, OtherSteps
<1>3. account' \in Account BY AccountsOK, TypesOK DEF Counts, Uncounts, Verifies, SetsPin, Forgotten
<1>4. UNCHANGED <<token, cookie, holder, refused, over, faults, asked>>
  BY DEF Counts, Uncounts, Verifies, SetsPin, Forgotten
<1> QED BY <1>2, <1>3, <1>4, TypesOK, KeepsTokens, StepsOK

\* Handlers that change the token of their request, or leave it.
LEMMA TokenStepOK ==
  ASSUME Inv, NEW t \in Tabs, Consents(t) \/ LogsOut(t) \/ Locks(t) \/ Unlocks(t)
  PROVE  token' \in [Tokens -> Row] /\ over' \subseteq Tokens /\ Kept /\ Stays
<1> DEFINE k == req[t].token
<1>1. k \in Tokens \cup {None} BY TypesOK DEF Request
<1>2. \/ UNCHANGED <<token, over>>
      \/ k # None /\ Live(k) /\ over' = over /\ token' = [token EXCEPT ![k].consented = TRUE]
      \/ k # None /\ Live(k) /\ over' = over /\ token' = [token EXCEPT ![k].locked = TRUE]
      \/ k # None /\ Live(k) /\ over' = over /\ token' = [token EXCEPT ![k].locked = FALSE]
      \/ /\ k # None /\ Live(k) /\ over' = over \cup {token[k].login}
         /\ token' = [token EXCEPT ![k].state = "revoked"]
  BY DEF Consents, LogsOut, Locks, Unlocks
<1> HIDE DEF k
<1>3. CASE UNCHANGED <<token, over>> BY <1>3, TypesOK, KeepsTokens
<1>4. CASE k # None /\ Live(k)
  <2>1. k \in Tokens /\ token[k] \in Row /\ token[k].state = "live" BY <1>1, <1>4, TypesOK DEF Live
  <2>2. token[k].login \in Tokens BY <2>1 DEF Inv, Known, Row
  <2>3. PICK row \in Row :
          /\ token' = [token EXCEPT ![k] = row] /\ row.login = token[k].login
          /\ \/ row.state = "live" /\ over' = over
             \/ row.state = "revoked" /\ over' = over \cup {token[k].login}
    <3>1. CASE over' = over /\ token' = [token EXCEPT ![k].consented = TRUE]
      <4>1. [token[k] EXCEPT !.consented = TRUE] \in Row BY <2>1 DEF Row
      <4> QED BY <2>1, <3>1, <4>1 DEF Row
    <3>2. CASE over' = over /\ token' = [token EXCEPT ![k].locked = TRUE]
      <4>1. [token[k] EXCEPT !.locked = TRUE] \in Row BY <2>1 DEF Row
      <4> QED BY <2>1, <3>2, <4>1 DEF Row
    <3>3. CASE over' = over /\ token' = [token EXCEPT ![k].locked = FALSE]
      <4>1. [token[k] EXCEPT !.locked = FALSE] \in Row BY <2>1 DEF Row
      <4> QED BY <2>1, <3>3, <4>1 DEF Row
    <3>4. CASE over' = over \cup {token[k].login} /\ token' = [token EXCEPT ![k].state = "revoked"]
      <4>1. [token[k] EXCEPT !.state = "revoked"] \in Row BY <2>1 DEF Row
      <4> QED BY <2>1, <3>4, <4>1 DEF Row
    <3>5. CASE UNCHANGED <<token, over>>
      <4>1. token' = [token EXCEPT ![k] = token[k]] BY <2>1, <3>5, TypesOK
      <4> QED BY <2>1, <3>5, <4>1
    <3> QED BY <1>2, <3>1, <3>2, <3>3, <3>4, <3>5
  <2>4. over \subseteq over' /\ over' \subseteq Tokens BY <2>2, <2>3, TypesOK
  <2> QED BY <2>1, <2>3, <2>4, SetsRowOK
<1> QED BY <1>2, <1>3, <1>4

LEMMA ConsentsOK ==
  ASSUME Inv, NEW t \in Tabs, Consents(t)
  PROVE  Inv' /\ Stays
<1> DEFINE k == req[t].token
           copy == IF k = None THEN NoToken ELSE token[k]
           r == [req[t] EXCEPT !.pc = "consented", !.must = account.mustChange, !.copy = copy]
<1>1. req[t] \in Request /\ account.mustChange \in BOOLEAN /\ k \in Tokens \cup {None}
  BY TypesOK DEF Account, Request
<1>2. copy \in Row BY <1>1, TypesOK DEF NoToken, Row, Methods
<1>3. req[t].pc = "consent" /\ (req' = [req EXCEPT ![t] = r] \/ Ends(t)) BY DEF Consents
<1> HIDE DEF copy
<1>4. r \in Request /\ r.pc = "consented" /\ r.token = req[t].token /\ r.new = req[t].new
  BY <1>1, <1>2 DEF Request, OtherSteps
<1> HIDE DEF r
<1>5. Follows(t) BY <1>3, <1>4, BecomesOK, EndsOK DEF Exclusive
<1>6. UNCHANGED <<account, cookie, holder, refused, faults, asked>> BY DEF Consents
<1> QED BY <1>5, <1>6, TypesOK, TokenStepOK, StepsOK

LEMMA SessionStepOK ==
  ASSUME Inv, NEW t \in Tabs, LogsOut(t) \/ Locks(t) \/ Unlocks(t)
  PROVE  Inv' /\ Stays
<1>1. req[t].pc \in {"logout", "lock", "unlock"} /\ (Ends(t) \/ Goes(t, "clear"))
  BY DEF LogsOut, Locks, Unlocks
<1>2. Follows(t) BY <1>1, EndsOK, GoesOK DEF Exclusive, OtherSteps
<1>3. UNCHANGED <<account, cookie, holder, refused, faults, asked>> BY DEF LogsOut, Locks, Unlocks
<1> QED BY <1>2, <1>3, TypesOK, TokenStepOK, StepsOK

\* Handlers that revoke every session.
LEMMA RevokingStepOK ==
  ASSUME Inv, NEW t \in Tabs, ChangesPassword(t) \/ LocksOut(t) \/ Forgets(t)
  PROVE  Inv' /\ Stays
<1>1. /\ req[t].pc \in {"password", "lockout", "forget"}
      /\ Goes(t, "clear") \/ Goes(t, "uncount") \/ Goes(t, "forgotten")
  BY DEF ChangesPassword, LocksOut, Forgets
<1>2. Follows(t) BY <1>1, GoesOK DEF Exclusive, OtherSteps
<1>3. account' \in Account BY AccountsOK, TypesOK DEF ChangesPassword, LocksOut, Forgets
<1>4. UNCHANGED <<cookie, holder, refused, faults, asked>> BY DEF ChangesPassword, LocksOut, Forgets
<1>5. RevokeAll(TRUE) \/ RevokeAll(FALSE) BY DEF ChangesPassword, LocksOut, Forgets
<1> QED BY <1>2, <1>3, <1>4, <1>5, TypesOK, RevokeAllOK, StepsOK

\* What the clock and the administrator do.
LEMMA ElsewhereOK ==
  ASSUME Inv, AccessEnds \/ ResetsPassword \/ ResetsPin \/ \E active \in BOOLEAN : SetsActive(active)
  PROVE  Inv' /\ Stays
<1>1. UNCHANGED <<holder, req, refused, faults>> /\ asked' \in 0..MaxAsked
  BY TypesOK DEF AccessEnds, ResetsPassword, ResetsPin, SetsActive
<1>2. account' \in Account
  BY AccountsOK, TypesOK DEF AccessEnds, ResetsPassword, ResetsPin, SetsActive
<1>3. cookie' \in Cookie /\ cookie'.refresh = cookie.refresh
  BY TypesOK DEF AccessEnds, ResetsPassword, ResetsPin, SetsActive, Cookie
<1>4. RevokeAll(FALSE) \/ UNCHANGED <<token, over>>
  BY DEF AccessEnds, ResetsPassword, ResetsPin, SetsActive
<1>5. token' \in [Tokens -> Row] /\ over' \subseteq Tokens /\ Kept /\ Stays
  BY <1>4, RevokeAllOK, KeepsTokens, TypesOK
<1> QED BY <1>1, <1>2, <1>3, <1>5, StepsOK

-----------------------------------------------------------------------------
(* New tokens.                                                             *)

LEMMA NamesOK ==
  ASSUME Inv
  PROVE  /\ cookie.refresh \in Tokens \cup {None}
         /\ \A k \in Tokens : token[k].login \in Tokens \cup {None}
         /\ \A t \in Tabs : /\ req[t].token \in Tokens \cup {None} /\ req[t].new \in Tokens \cup {None}
                           /\ refused[t] \in Tokens \cup {None}
  BY DEF Inv, Shape, Row, Cookie, Request

\* A row that is still free has no name.
LEMMA FreeOK ==
  ASSUME Inv, NEW k \in Tokens, token[k].state = "none"
  PROVE  /\ token[k].login = None /\ cookie.refresh # k
         /\ \A j \in Tokens : token[j].login # k
         /\ \A t \in Tabs : req[t].token # k /\ req[t].new # k /\ refused[t] # k
  BY DEF Inv, Known, Created

LEMMA IssuesLoginOK ==
  ASSUME Inv, NEW t \in Tabs, NEW k \in Tokens, IssuesLogin(t, k)
  PROVE  Inv' /\ Stays
<1> DEFINE row == [req[t].copy EXCEPT !.login = k]
           r == [req[t] EXCEPT !.pc = "loggedIn", !.new = k]
<1>1. req[t].pc = "issue" /\ req[t] \in Request /\ req[t].copy.state = "live"
  BY TypesOK DEF IssuesLogin, Inv, Rotating
<1>2. row \in Row /\ row.state = "live" /\ row.login = k BY <1>1 DEF Request, Row
<1>3. r \in Request /\ r.pc = "loggedIn" /\ r.new = k /\ r.token = req[t].token /\ r.copy = req[t].copy
  BY <1>1 DEF Request, OtherSteps
<1>4. token[k].state = "none" /\ token' = [token EXCEPT ![k] = row] /\ req' = [req EXCEPT ![t] = r]
  BY DEF IssuesLogin, Issues
<1>5. UNCHANGED <<account, cookie, holder, refused, over, faults, asked>> BY DEF IssuesLogin
<1> HIDE DEF row, r
<1>6. token'[k] = row /\ \A j \in Tokens : j # k => token'[j] = token[j] BY <1>4 DEF Inv, Shape
<1>7. req'[t] = r /\ \A u \in Tabs : u # t => req'[u] = req[u] BY <1>4 DEF Inv, Shape
<1>8. Shape' BY <1>2, <1>3, <1>4, <1>5 DEF Inv, Shape
<1>9. Locked' BY <1>1, <1>3, <1>5, <1>7 DEF Inv, Locked, Exclusive
<1>10. Created \subseteq Created' /\ k \in Created' BY <1>2, <1>4, <1>6 DEF Created
<1>11. Known'
  <2>1. \A j \in Tokens : (token'[j].state # "none" <=> token'[j].login # None) /\ token'[j].login \in Created'
    BY <1>2, <1>6, <1>10 DEF Inv, Known
  <2>2. cookie'.refresh \in Created' BY <1>5, <1>10 DEF Inv, Known
  <2>3. \A u \in Tabs : req'[u].token \in Created' /\ req'[u].new \in Created' /\ refused'[u] \in Created'
    BY <1>3, <1>5, <1>7, <1>10 DEF Inv, Known
  <2> QED BY <2>1, <2>2, <2>3 DEF Known
<1>12. Rotating' BY <1>1, <1>3, <1>4, <1>6, <1>7, FreeOK, NamesOK DEF Inv, Rotating
<1>13. Unused' BY <1>1, <1>3, <1>4, <1>5, <1>7, FreeOK DEF Inv, Unused, Exclusive
<1>14. ASSUME faults' = 0
       PROVE  Alone' /\ Usable' /\ OneTokenPerLogin'
  <2>1. faults = 0 /\ Alone /\ Usable /\ OneTokenPerLogin BY <1>5, <1>14 DEF Inv
  <2>2. Alone'
    <3> SUFFICES ASSUME NEW u \in Tabs, NEW j \in Tokens,
                        token'[j].state = "live", token'[j].login = req'[u].copy.login
                 PROVE  req'[u].pc # "create" /\ (req'[u].pc = "rotate" => j = req'[u].token)
      BY DEF Alone, Live
    <3>1. CASE u = t BY <3>1, <1>3, <1>7
    <3>2. CASE u # t /\ j # k BY <3>2, <1>6, <1>7, <2>1 DEF Alone, Live
    <3>3. CASE u # t /\ j = k
      <4>1. req[u].copy.login = k BY <3>3, <1>2, <1>6, <1>7
      <4>2. req[u].pc \notin {"create", "rotate"} BY <4>1, <1>4, FreeOK, NamesOK DEF Inv, Rotating
      <4> QED BY <3>3, <4>2, <1>7
    <3> QED BY <3>1, <3>2, <3>3
  <2>3. Usable'
    <3>1. Good \subseteq Good' /\ k \in Good' BY <1>2, <1>4, <1>5, <1>6 DEF Good, Live
    <3>2. \/ cookie'.refresh \in Good'
          \/ holder' # None /\ req'[holder'].pc \in {"create", "refreshed"} /\ cookie'.refresh = req'[holder'].token
      <4>1. CASE cookie.refresh \in Good BY <4>1, <1>5, <3>1
      <4>2. CASE holder # None /\ req[holder].pc \in {"create", "refreshed"} /\ cookie.refresh = req[holder].token
        BY <4>2, <1>1, <1>5, <1>7 DEF Inv, Shape
      <4> QED BY <4>1, <4>2, <2>1 DEF Usable
    <3>3. \A u \in Tabs :
            /\ req'[u].pc = "sent" => req'[u].token \in Good'
            /\ req'[u].pc \in {"revoke", "refreshed", "loggedIn"} => req'[u].new \in Good'
      BY <1>3, <1>7, <2>1, <3>1 DEF Usable
    <3>4. \A u \in Tabs : refused'[u] # None => token'[refused'[u]].login \in over'
      BY <1>4, <1>5, <1>6, <2>1, FreeOK, NamesOK DEF Usable
    <3> QED BY <3>2, <3>3, <3>4 DEF Usable
  <2>4. OneTokenPerLogin'
    <3> SUFFICES ASSUME NEW i \in Tokens, NEW j \in Tokens,
                        token'[i].state = "live", token'[j].state = "live",
                        token'[i].login = token'[j].login, i # j
                 PROVE  holder' # None /\ req'[holder'].pc = "revoke" /\ {i, j} = {req'[holder'].token, req'[holder'].new}
      BY DEF OneTokenPerLogin, Live
    <3>1. i # k /\ j # k BY <1>2, <1>4, <1>6, FreeOK
    <3>2. holder # None /\ req[holder].pc = "revoke" /\ {i, j} = {req[holder].token, req[holder].new}
      BY <2>1, <3>1, <1>6 DEF OneTokenPerLogin, Live
    <3>3. holder # t BY <3>2, <1>1
    <3> QED BY <3>2, <3>3, <1>5, <1>7 DEF Inv, Shape
  <2> QED BY <2>2, <2>3, <2>4
<1>15. Stays BY <1>4, <1>6 DEF Stays
<1> QED BY <1>8, <1>9, <1>11, <1>12, <1>13, <1>14, <1>15 DEF Inv

\* The answer of a login gives the browser a token that nobody uses.
LEMMA LoggedInOK ==
  ASSUME Inv, NEW t \in Tabs, LoggedIn(t)
  PROVE  Inv' /\ Stays
<1>1. req[t].pc = "loggedIn" /\ req[t].new \in Tokens \cup {None} BY NamesOK DEF LoggedIn
<1>2. cookie' \in Cookie /\ cookie'.refresh = req[t].new
  BY <1>1, PayloadOK DEF LoggedIn, Cookie
<1>3. UNCHANGED <<account, token, holder, refused, over, faults, asked>> BY DEF LoggedIn
<1>4. Follows(t) BY <1>1, EndsOK DEF LoggedIn, Exclusive
<1>5. req'[t] = Idle BY DEF LoggedIn, Ends, Inv, Shape
<1>6. req'[t].pc = "idle" /\ req'[t].token = None /\ req'[t].new = None BY <1>5, IdleOK
<1>7. \A u \in Tabs : u # t => req'[u] = req[u] BY <1>4 DEF Follows
<1>8. Shape' BY <1>2, <1>3, <1>4 DEF Inv, Shape, Follows
<1>9. Locked' BY <1>1, <1>3, <1>6, <1>7 DEF Inv, Locked, Exclusive
<1>10. Created' = Created /\ None \in Created BY <1>3 DEF Created
<1>11. Known' BY <1>2, <1>3, <1>6, <1>7, <1>10 DEF Inv, Known
<1>12. Rotating' BY <1>3, <1>6, <1>7 DEF Inv, Rotating
<1>13. Unused' BY <1>1, <1>2, <1>6, <1>7 DEF Inv, Unused, Exclusive
<1>14. ASSUME faults' = 0
       PROVE  Alone' /\ Usable' /\ OneTokenPerLogin'
  <2>1. faults = 0 /\ Alone /\ Usable /\ OneTokenPerLogin BY <1>3, <1>14 DEF Inv
  <2>2. Alone' BY <1>3, <1>6, <1>7, <2>1 DEF Alone, Live
  <2>3. Good' = Good BY <1>3 DEF Good, Live
  <2>4. Usable'
    <3>1. cookie'.refresh \in Good' BY <1>1, <1>2, <2>1, <2>3 DEF Usable
    <3>2. \A u \in Tabs :
            /\ req'[u].pc = "sent" => req'[u].token \in Good'
            /\ req'[u].pc \in {"revoke", "refreshed", "loggedIn"} => req'[u].new \in Good'
            /\ refused'[u] # None => token'[refused'[u]].login \in over'
      BY <1>3, <1>6, <1>7, <2>1, <2>3 DEF Usable
    <3> QED BY <3>1, <3>2 DEF Usable
  <2>5. holder # None => holder # t BY <1>1 DEF Inv, Locked, Exclusive
  <2>6. OneTokenPerLogin' BY <1>3, <1>7, <2>1, <2>5 DEF OneTokenPerLogin, Live, Inv, Shape
  <2> QED BY <2>2, <2>4, <2>6
<1>15. Stays BY <1>3 DEF Stays
<1> QED BY <1>8, <1>9, <1>11, <1>12, <1>13, <1>14, <1>15 DEF Inv

-----------------------------------------------------------------------------
(* Refresh.                                                                *)

LEMMA PostsOK ==
  ASSUME Inv, NEW t \in Tabs, Posts(t)
  PROVE  Inv' /\ Stays
<1> DEFINE r == [Idle EXCEPT !.pc = "sent", !.token = cookie.refresh]
<1>1. holder = None /\ holder' = t /\ req[t].pc = "queued" /\ req' = [req EXCEPT ![t] = r] BY DEF Posts
<1>2. r \in Request /\ r.pc = "sent" /\ r.token = cookie.refresh /\ r.new = None
  BY IdleOK, NamesOK DEF Request, Exclusive
<1>3. UNCHANGED <<account, token, cookie, refused, over, faults, asked>> BY DEF Posts
<1> HIDE DEF r
<1>4. req'[t] = r /\ \A u \in Tabs : u # t => req'[u] = req[u] BY <1>1 DEF Inv, Shape
<1>5. Shape' BY <1>1, <1>2, <1>3 DEF Inv, Shape
<1>6. Locked' BY <1>1, <1>2, <1>4 DEF Inv, Locked, Exclusive
<1>7. Created' = Created /\ None \in Created BY <1>3 DEF Created
<1>8. Known' BY <1>2, <1>3, <1>4, <1>7 DEF Inv, Known
<1>9. Rotating' BY <1>2, <1>3, <1>4 DEF Inv, Rotating
<1>10. Unused' BY <1>2, <1>3, <1>4 DEF Inv, Unused, Rotating
<1>11. ASSUME faults' = 0
       PROVE  Alone' /\ Usable' /\ OneTokenPerLogin'
  <2>1. faults = 0 /\ Alone /\ Usable /\ OneTokenPerLogin BY <1>3, <1>11 DEF Inv
  <2>2. Alone' BY <1>2, <1>3, <1>4, <2>1 DEF Alone, Live
  <2>3. Good' = Good BY <1>3 DEF Good, Live
  <2>4. cookie.refresh \in Good BY <1>1, <2>1 DEF Usable
  <2>5. Usable'
    <3>1. \A u \in Tabs :
            /\ req'[u].pc = "sent" => req'[u].token \in Good'
            /\ req'[u].pc \in {"revoke", "refreshed", "loggedIn"} => req'[u].new \in Good'
            /\ refused'[u] # None => token'[refused'[u]].login \in over'
      BY <1>2, <1>3, <1>4, <2>1, <2>3, <2>4 DEF Usable
    <3> QED BY <1>3, <2>3, <2>4, <3>1 DEF Usable
  <2>6. OneTokenPerLogin' BY <1>1, <1>3, <2>1 DEF OneTokenPerLogin, Live
  <2> QED BY <2>2, <2>5, <2>6
<1>12. Stays BY <1>3 DEF Stays
<1> QED BY <1>5, <1>6, <1>8, <1>9, <1>10, <1>11, <1>12 DEF Inv

\* The lock is released, and the request is over.
LEMMA ReleasesOK ==
  ASSUME Inv, NEW t \in Tabs, req[t].pc \in Exclusive, Releases(t)
  PROVE  /\ holder = t /\ holder' = None
         /\ req' \in [Tabs -> Request]
         /\ req'[t].pc = "idle" /\ req'[t].token = None /\ req'[t].new = None
         /\ \A u \in Tabs : u # t => req'[u] = req[u] /\ req[u].pc \notin Exclusive
<1>1. holder = t /\ holder' = None BY DEF Inv, Locked, Releases
<1>2. req' = [req EXCEPT ![t] = Idle] BY DEF Releases, Ends
<1>3. req'[t] = Idle /\ \A u \in Tabs : u # t => req'[u] = req[u] BY <1>2 DEF Inv, Shape
<1>4. req' \in [Tabs -> Request] BY <1>2, IdleOK DEF Inv, Shape
<1>5. \A u \in Tabs : u # t => req[u].pc \notin Exclusive BY <1>1 DEF Inv, Locked
<1> QED BY <1>1, <1>3, <1>4, <1>5, IdleOK

LEMMA RefusesOK ==
  ASSUME Inv, NEW t \in Tabs, Refuses(t)
  PROVE  Inv' /\ Stays
<1> DEFINE k == req[t].token
<1>1. req[t].pc = "sent" /\ Releases(t) /\ refused' = [refused EXCEPT ![t] = k] BY DEF Refuses
<1>2. \/ k = None /\ over' = over
      \/ k # None /\ ~Live(k) /\ over' = over
      \/ k # None /\ over' = over \cup {token[k].login}
  BY DEF Refuses, Accepts
<1>3. over' = over \/ (k # None /\ over' = over \cup {token[k].login}) BY <1>2
<1>4. UNCHANGED <<account, token, cookie, faults, asked>> BY DEF Refuses
<1>5. k \in Created /\ k \in Tokens \cup {None} BY NamesOK DEF Inv, Known
<1> HIDE DEF k
<1>6. /\ holder = t /\ holder' = None /\ req' \in [Tabs -> Request]
      /\ req'[t].pc = "idle" /\ req'[t].token = None /\ req'[t].new = None
      /\ \A u \in Tabs : u # t => req'[u] = req[u] /\ req[u].pc \notin Exclusive
  BY <1>1, ReleasesOK DEF Exclusive
<1>7. refused'[t] = k /\ \A u \in Tabs : u # t => refused'[u] = refused[u] BY <1>1 DEF Inv, Shape
<1>8. over \subseteq over' /\ over' \subseteq Tokens
  <2>1. k # None => token[k].login \in Tokens BY <1>5, NamesOK DEF Inv, Known, Created
  <2> QED BY <1>3, <2>1, TypesOK
<1>9. Shape' BY <1>1, <1>4, <1>5, <1>6, <1>8 DEF Inv, Shape
<1>10. Locked' BY <1>6 DEF Locked, Exclusive
<1>11. Created' = Created /\ None \in Created BY <1>4 DEF Created
<1>12. Known' BY <1>4, <1>5, <1>6, <1>7, <1>11 DEF Inv, Known
<1>13. Rotating' BY <1>4, <1>6 DEF Inv, Rotating
<1>14. Unused' BY <1>4, <1>6 DEF Inv, Unused, Exclusive
<1>15. ASSUME faults' = 0
       PROVE  Alone' /\ Usable' /\ OneTokenPerLogin'
  <2>1. faults = 0 /\ Alone /\ Usable /\ OneTokenPerLogin BY <1>4, <1>15 DEF Inv
  <2>2. Alone' BY <1>4, <1>6, <2>1 DEF Alone, Live
  <2>3. Good \subseteq Good' BY <1>4, <1>8 DEF Good, Live
  <2>4. cookie.refresh \in Good /\ k \in Good BY <1>1, <1>6, <2>1 DEF Usable, k
  <2>5. k # None => token[k].login \in over' BY <1>2, <1>8, <2>4 DEF Good
  <2>6. \A u \in Tabs :
          /\ req'[u].pc = "sent" => req'[u].token \in Good'
          /\ req'[u].pc \in {"revoke", "refreshed", "loggedIn"} => req'[u].new \in Good'
    BY <1>6, <2>1, <2>3 DEF Usable
  <2>7. \A u \in Tabs : refused'[u] # None => token'[refused'[u]].login \in over'
    BY <1>4, <1>7, <1>8, <2>1, <2>5 DEF Usable
  <2>8. Usable' BY <1>4, <2>3, <2>4, <2>6, <2>7 DEF Usable
  <2>9. OneTokenPerLogin' BY <1>1, <1>4, <1>6, <2>1 DEF OneTokenPerLogin, Live
  <2> QED BY <2>2, <2>8, <2>9
<1>16. Stays BY <1>4 DEF Stays
<1> QED BY <1>9, <1>10, <1>12, <1>13, <1>14, <1>15, <1>16 DEF Inv

LEMMA ReadsOK ==
  ASSUME Inv, NEW t \in Tabs, Reads(t)
  PROVE  Inv' /\ Stays
<1> DEFINE k == req[t].token
           r == [req[t] EXCEPT !.pc = "rotate", !.copy = token[k], !.must = account.mustChange]
<1>1. req[t].pc = "sent" /\ k # None /\ Live(k) /\ req' = [req EXCEPT ![t] = r] BY DEF Reads, Accepts
<1>2. UNCHANGED <<account, token, cookie, holder, refused, over, faults, asked>> BY DEF Reads
<1>3. k \in Tokens /\ token[k] \in Row /\ token[k].state = "live" BY <1>1, NamesOK, TypesOK DEF Live
<1>4. req[t] \in Request /\ account.mustChange \in BOOLEAN BY TypesOK DEF Account
<1>5. r \in Request /\ r.pc = "rotate" /\ r.copy = token[k] /\ r.token = k /\ r.new = req[t].new
  BY <1>3, <1>4 DEF Request, Exclusive
<1> HIDE DEF r
<1>6. req'[t] = r /\ \A u \in Tabs : u # t => req'[u] = req[u] BY <1>1 DEF Inv, Shape
<1>7. Shape' BY <1>1, <1>2, <1>5 DEF Inv, Shape
<1>8. holder = t /\ \A u \in Tabs : u # t => req[u].pc \notin Exclusive BY <1>1 DEF Inv, Locked, Exclusive
<1>9. Locked' BY <1>1, <1>2, <1>5, <1>6 DEF Inv, Locked, Exclusive
<1>10. Created' = Created BY <1>2 DEF Created
<1>11. Known' BY <1>2, <1>5, <1>6, <1>10 DEF Inv, Known
<1>12. Rotating' BY <1>1, <1>2, <1>3, <1>5, <1>6 DEF Inv, Rotating
<1>13. Unused' BY <1>1, <1>2, <1>5, <1>6 DEF Inv, Unused, Exclusive
<1>14. ASSUME faults' = 0
       PROVE  Alone' /\ Usable' /\ OneTokenPerLogin'
  <2>1. faults = 0 /\ Alone /\ Usable /\ OneTokenPerLogin BY <1>2, <1>14 DEF Inv
  <2>2. \A j \in Tokens : Live(j) /\ token[j].login = token[k].login => j = k
    BY <1>1, <1>3, <1>8, <2>1 DEF OneTokenPerLogin, Live
  <2>3. Alone' BY <1>2, <1>5, <1>6, <1>8, <2>2 DEF Alone, Live, Exclusive
  <2>4. Good' = Good BY <1>2 DEF Good, Live
  <2>5. cookie.refresh \in Good BY <1>1, <1>8, <2>1 DEF Usable
  <2>6. \A u \in Tabs :
          /\ req'[u].pc = "sent" => req'[u].token \in Good'
          /\ req'[u].pc \in {"revoke", "refreshed", "loggedIn"} => req'[u].new \in Good'
          /\ refused'[u] # None => token'[refused'[u]].login \in over'
    BY <1>2, <1>5, <1>6, <2>1, <2>4 DEF Usable
  <2>7. Usable' BY <1>2, <2>4, <2>5, <2>6 DEF Usable
  <2>8. OneTokenPerLogin' BY <1>1, <1>2, <1>8, <2>1 DEF OneTokenPerLogin, Live
  <2> QED BY <2>3, <2>7, <2>8
<1>15. Stays BY <1>2 DEF Stays
<1> QED BY <1>7, <1>9, <1>11, <1>12, <1>13, <1>14, <1>15 DEF Inv

LEMMA RevokesOK ==
  ASSUME Inv, NEW t \in Tabs, Revokes(t)
  PROVE  Inv' /\ Stays
<1> DEFINE k == req[t].token
           row == [token[k] EXCEPT !.state = "revoked"]
           pc == IF req[t].pc = "rotate" THEN "create" ELSE "refreshed"
           r == [req[t] EXCEPT !.pc = pc]
<1>1. /\ req[t].pc \in {"rotate", "revoke"}
      /\ token' = [token EXCEPT ![k] = row] /\ req' = [req EXCEPT ![t] = r]
  BY DEF Revokes, Goes
<1>2. UNCHANGED <<account, cookie, holder, refused, over, faults, asked>> BY DEF Revokes
<1>3. k # None /\ k \in Tokens /\ token[k] \in Row /\ token[k].state # "none"
  BY <1>1, NamesOK, TypesOK DEF Inv, Rotating, Known, Created
<1>4. row \in Row /\ row.state = "revoked" /\ row.login = token[k].login /\ row.locked = token[k].locked
  BY <1>3 DEF Row
<1>5. \/ req[t].pc = "rotate" /\ pc = "create"
      \/ req[t].pc = "revoke" /\ pc = "refreshed"
  BY <1>1
<1> HIDE DEF row, pc
<1>6. req[t] \in Request BY TypesOK
<1>7. r \in Request /\ r.pc = pc /\ r.token = k /\ r.new = req[t].new /\ r.copy = req[t].copy
  BY <1>5, <1>6 DEF Request, Exclusive
<1> HIDE DEF k, r
<1>8. token'[k] = row /\ \A j \in Tokens : j # k => token'[j] = token[j] BY <1>1, <1>3 DEF Inv, Shape
<1>9. req'[t] = r /\ \A u \in Tabs : u # t => req'[u] = req[u] BY <1>1 DEF Inv, Shape
<1>10. Shape' BY <1>1, <1>2, <1>4, <1>7 DEF Inv, Shape
<1>11. holder = t /\ \A u \in Tabs : u # t => req[u].pc \notin Exclusive BY <1>1 DEF Inv, Locked, Exclusive
<1>12. Locked' BY <1>1, <1>2, <1>5, <1>7, <1>9 DEF Inv, Locked, Exclusive
<1>13. Created' = Created
  <2>1. \A j \in Tokens : token'[j].state = "none" <=> token[j].state = "none" BY <1>3, <1>4, <1>8
  <2> QED BY <2>1 DEF Created
<1>14. \A j \in Tokens : token'[j].login = token[j].login BY <1>4, <1>8
<1>15. Known'
  <2>1. \A j \in Tokens : (token'[j].state # "none" <=> token'[j].login # None) /\ token'[j].login \in Created'
    BY <1>3, <1>4, <1>8, <1>13 DEF Inv, Known
  <2>2. \A u \in Tabs : req'[u].token \in Created' /\ req'[u].new \in Created' /\ refused'[u] \in Created'
    BY <1>2, <1>7, <1>9, <1>13 DEF Inv, Known, k
  <2> QED BY <1>2, <1>13, <2>1, <2>2 DEF Inv, Known
<1>16. Rotating'
  BY <1>1, <1>5, <1>7, <1>9, <1>14, NamesOK DEF Inv, Rotating, k
<1>17. Unused' BY <1>1, <1>2, <1>5, <1>7, <1>9 DEF Inv, Unused, Exclusive, k
<1>18. ASSUME faults' = 0
       PROVE  Alone' /\ Usable' /\ OneTokenPerLogin'
  <2>1. faults = 0 /\ Alone /\ Usable /\ OneTokenPerLogin BY <1>2, <1>18 DEF Inv
  <2>2. \A j \in Tokens : token'[j].state = "live" => j # k /\ token'[j] = token[j] BY <1>4, <1>8
  <2>3. Alone'
    <3> SUFFICES ASSUME NEW u \in Tabs, NEW j \in Tokens,
                        token'[j].state = "live", token'[j].login = req'[u].copy.login
                 PROVE  req'[u].pc # "create" /\ (req'[u].pc = "rotate" => j = req'[u].token)
      BY DEF Alone, Live
    <3>1. CASE u # t BY <3>1, <1>9, <1>11 DEF Exclusive
    <3>2. CASE u = t
      <4>1. req[t].pc = "rotate" => token[j].login # req[t].copy.login
        BY <2>1, <2>2 DEF Alone, Live, k
      <4> QED BY <3>2, <4>1, <1>5, <1>7, <1>9, <2>2
    <3> QED BY <3>1, <3>2
  <2>4. \A j \in Good : j # k => j \in Good' BY <1>2, <1>8 DEF Good, Live
  <2>5. \/ cookie'.refresh \in Good'
        \/ holder' # None /\ req'[holder'].pc \in {"create", "refreshed"} /\ cookie'.refresh = req'[holder'].token
    <3>1. cookie.refresh \in Good BY <1>1, <1>11, <2>1 DEF Usable
    <3>2. holder' = t /\ t # None BY <1>2, <1>11
    <3> QED BY <1>2, <1>5, <1>7, <1>9, <2>4, <3>1, <3>2
  <2>6. \A u \in Tabs :
          /\ req'[u].pc = "sent" => req'[u].token \in Good'
          /\ req'[u].pc \in {"revoke", "refreshed", "loggedIn"} => req'[u].new \in Good'
    <3>1. CASE req[t].pc = "rotate"
      <4>1. \A u \in Tabs : u # t /\ req[u].pc = "loggedIn" => req[u].new # k
        BY <1>1 DEF Inv, Unused, Exclusive, k
      <4> QED BY <3>1, <4>1, <1>5, <1>7, <1>9, <1>11, <2>1, <2>4 DEF Usable, Exclusive
    <3>2. CASE req[t].pc = "revoke"
      <4>1. \A u \in Tabs : u # t /\ req[u].pc = "loggedIn" => req[u].new # k
        BY <1>1 DEF Inv, Unused, Exclusive, k
      <4>2. req[t].new # k BY <3>2 DEF Inv, Rotating, k
      <4> QED BY <3>2, <4>1, <4>2, <1>5, <1>7, <1>9, <1>11, <2>1, <2>4 DEF Usable, Exclusive
    <3> QED BY <3>1, <3>2, <1>1
  <2>7. \A u \in Tabs : refused'[u] # None => token'[refused'[u]].login \in over'
    BY <1>2, <1>14, <2>1, NamesOK DEF Usable
  <2>8. Usable' BY <2>5, <2>6, <2>7 DEF Usable
  <2>9. OneTokenPerLogin'
    <3> SUFFICES ASSUME NEW i \in Tokens, NEW j \in Tokens,
                        token'[i].state = "live", token'[j].state = "live",
                        token'[i].login = token'[j].login
                 PROVE  i = j
      BY DEF OneTokenPerLogin, Live
    <3>1. i = j \/ k \in {i, j} BY <1>11, <1>14, <2>1, <2>2 DEF OneTokenPerLogin, Live, k
    <3> QED BY <2>2, <3>1
  <2> QED BY <2>3, <2>8, <2>9
<1>19. Stays BY <1>4, <1>8 DEF Stays
<1> QED BY <1>10, <1>12, <1>15, <1>16, <1>17, <1>18, <1>19 DEF Inv

LEMMA RefreshFailsOK ==
  ASSUME Inv, NEW t \in Tabs, RefreshFails(t)
  PROVE  Inv' /\ Stays
<1>1. req[t].pc \in Exclusive /\ Releases(t) BY DEF RefreshFails
<1>2. UNCHANGED <<account, token, cookie, refused, over, asked>> BY DEF RefreshFails
<1>3. faults' \in 0..MaxFaults /\ faults' # 0 BY DEF RefreshFails, Inv, Shape
<1>4. /\ holder = t /\ holder' = None /\ req' \in [Tabs -> Request]
      /\ req'[t].pc = "idle" /\ req'[t].token = None /\ req'[t].new = None
      /\ \A u \in Tabs : u # t => req'[u] = req[u] /\ req[u].pc \notin Exclusive
  BY <1>1, ReleasesOK
<1>5. Shape' BY <1>2, <1>3, <1>4 DEF Inv, Shape
<1>6. Locked' BY <1>4 DEF Locked, Exclusive
<1>7. Created' = Created /\ None \in Created BY <1>2 DEF Created
<1>8. Known' BY <1>2, <1>4, <1>7 DEF Inv, Known
<1>9. Rotating' BY <1>2, <1>4 DEF Inv, Rotating
<1>10. Unused' BY <1>2, <1>4 DEF Inv, Unused, Exclusive
<1>11. Stays BY <1>2 DEF Stays
<1> QED BY <1>3, <1>5, <1>6, <1>8, <1>9, <1>10, <1>11 DEF Inv

LEMMA CreatesOK ==
  ASSUME Inv, NEW t \in Tabs, NEW k \in Tokens, Creates(t, k)
  PROVE  Inv' /\ Stays
<1> DEFINE old == req[t].token
           row == req[t].copy
           pc == IF req[t].pc = "rotate" THEN "revoke" ELSE "refreshed"
           r == [req[t] EXCEPT !.pc = pc, !.new = k]
<1>1. /\ req[t].pc \in {"rotate", "create"} /\ token[k].state = "none"
      /\ token' = [token EXCEPT ![k] = row] /\ req' = [req EXCEPT ![t] = r]
  BY DEF Creates, Issues
<1>2. UNCHANGED <<account, cookie, holder, refused, over, faults, asked>> BY DEF Creates
<1>3. /\ old # None /\ old \in Tokens /\ token[old].state # "none" /\ old # k
      /\ row.state = "live" /\ row.login = token[old].login /\ row \in Row
  BY <1>1, NamesOK, TypesOK DEF Inv, Rotating, Known, Created, Request
<1>4. row.login # None /\ row.login \in Created BY <1>3 DEF Inv, Known
<1>5. \/ req[t].pc = "rotate" /\ pc = "revoke"
      \/ req[t].pc = "create" /\ pc = "refreshed"
  BY <1>1
<1>6. req[t] \in Request BY TypesOK
<1> HIDE DEF pc
<1>7. r \in Request /\ r.pc = pc /\ r.token = old /\ r.new = k /\ r.copy = row
  BY <1>5, <1>6 DEF Request, Exclusive
<1> HIDE DEF old, row, r
<1>8. token'[k] = row /\ \A j \in Tokens : j # k => token'[j] = token[j] BY <1>1 DEF Inv, Shape
<1>9. req'[t] = r /\ \A u \in Tabs : u # t => req'[u] = req[u] BY <1>1 DEF Inv, Shape
<1>10. Shape' BY <1>1, <1>2, <1>3, <1>7 DEF Inv, Shape
<1>11. holder = t /\ \A u \in Tabs : u # t => req[u].pc \notin Exclusive BY <1>1 DEF Inv, Locked, Exclusive
<1>12. Locked' BY <1>1, <1>2, <1>5, <1>7, <1>9 DEF Inv, Locked, Exclusive
<1>13. Created \subseteq Created' /\ k \in Created' BY <1>3, <1>8 DEF Created
<1>14. Known'
  <2>1. \A j \in Tokens : (token'[j].state # "none" <=> token'[j].login # None) /\ token'[j].login \in Created'
    BY <1>3, <1>4, <1>8, <1>13 DEF Inv, Known
  <2>2. old \in Created BY DEF Inv, Known, old
  <2>3. \A u \in Tabs : req'[u].token \in Created' /\ req'[u].new \in Created' /\ refused'[u] \in Created'
    BY <1>2, <1>7, <1>9, <1>13, <2>2 DEF Inv, Known
  <2> QED BY <1>2, <1>13, <2>1, <2>3 DEF Inv, Known
<1>15. Rotating'
  <2> SUFFICES ASSUME NEW u \in Tabs
      PROVE /\ req'[u].pc \in {"rotate", "create", "revoke", "refreshed"} =>
                 req'[u].token # None /\ req'[u].copy.state = "live"
                   /\ req'[u].copy.login = token'[req'[u].token].login
            /\ req'[u].pc \in {"revoke", "refreshed"} =>
                 req'[u].new # None /\ req'[u].new # req'[u].token /\ token'[req'[u].new].login = req'[u].copy.login
            /\ req'[u].pc = "loggedIn" => req'[u].new # None
            /\ req'[u].pc = "issue" => req'[u].copy.state = "live"
    BY DEF Rotating
  <2>1. CASE u = t BY <2>1, <1>3, <1>5, <1>7, <1>8, <1>9
  <2>2. CASE u # t
    <3>1. req'[u] = req[u] /\ req[u].pc \notin Exclusive BY <2>2, <1>9, <1>11
    <3> QED BY <3>1 DEF Inv, Rotating, Exclusive
  <2> QED BY <2>1, <2>2
<1>16. Unused' BY <1>1, <1>2, <1>5, <1>7, <1>9, FreeOK DEF Inv, Unused, Exclusive, old
<1>17. ASSUME faults' = 0
       PROVE  Alone' /\ Usable' /\ OneTokenPerLogin'
  <2>1. faults = 0 /\ Alone /\ Usable /\ OneTokenPerLogin BY <1>2, <1>17 DEF Inv
  <2>2. Alone' BY <1>5, <1>7, <1>9, <1>11 DEF Alone, Exclusive
  <2>3. Good \subseteq Good' /\ k \in Good' BY <1>1, <1>2, <1>3, <1>8 DEF Good, Live
  <2>4. \/ cookie'.refresh \in Good'
        \/ holder' # None /\ req'[holder'].pc \in {"create", "refreshed"} /\ cookie'.refresh = req'[holder'].token
    <3>1. CASE cookie.refresh \in Good BY <3>1, <1>2, <2>3
    <3>2. CASE req[t].pc = "create" /\ cookie.refresh = old
      BY <3>2, <1>2, <1>5, <1>7, <1>9, <1>11
    <3> QED BY <1>1, <1>11, <2>1, <3>1, <3>2 DEF Usable, old
  <2>5. \A u \in Tabs :
          /\ req'[u].pc = "sent" => req'[u].token \in Good'
          /\ req'[u].pc \in {"revoke", "refreshed", "loggedIn"} => req'[u].new \in Good'
    BY <1>5, <1>7, <1>9, <2>1, <2>3 DEF Usable
  <2>6. \A u \in Tabs : refused'[u] # None => token'[refused'[u]].login \in over'
    BY <1>1, <1>2, <1>8, <2>1, FreeOK, NamesOK DEF Usable
  <2>7. Usable' BY <2>4, <2>5, <2>6 DEF Usable
  <2>8. OneTokenPerLogin'
    <3> SUFFICES ASSUME NEW i \in Tokens, NEW j \in Tokens,
                        token'[i].state = "live", token'[j].state = "live",
                        token'[i].login = token'[j].login, i # j
                 PROVE  holder' # None /\ req'[holder'].pc = "revoke" /\ {i, j} = {req'[holder'].token, req'[holder'].new}
      BY DEF OneTokenPerLogin, Live
    <3>1. req[t].pc # "revoke" BY <1>1
    <3>2. i = k \/ j = k
      BY <1>8, <1>11, <2>1, <3>1 DEF OneTokenPerLogin, Live
    <3>3. \A n \in Tokens : n # k /\ token'[n].state = "live" /\ token'[n].login = row.login =>
            req[t].pc = "rotate" /\ n = old
      BY <1>1, <1>8, <2>1 DEF Alone, Live, old, row
    <3>4. req[t].pc = "rotate" /\ {i, j} = {old, k} BY <1>8, <3>2, <3>3
    <3>5. holder' = t /\ t # None BY <1>2, <1>11
    <3> QED BY <1>5, <1>7, <1>9, <3>4, <3>5
  <2> QED BY <2>2, <2>7, <2>8
<1>18. Stays BY <1>1, <1>8 DEF Stays
<1> QED BY <1>10, <1>12, <1>14, <1>15, <1>16, <1>17, <1>18 DEF Inv

LEMMA RefreshedOK ==
  ASSUME Inv, NEW t \in Tabs, Refreshed(t)
  PROVE  Inv' /\ Stays
<1> DEFINE k == req[t].new
<1>1. req[t].pc = "refreshed" /\ Releases(t) /\ refused' = [refused EXCEPT ![t] = None] BY DEF Refreshed
<1>2. UNCHANGED <<account, token, over, faults, asked>> BY DEF Refreshed
<1>3. k \in Created /\ k \in Tokens \cup {None} BY NamesOK DEF Inv, Known
<1>4. cookie' \in Cookie /\ cookie'.refresh = k
  <2>1. req[t].copy.consented \in BOOLEAN BY TypesOK DEF Request, Row
  <2> QED BY <1>3, <2>1, PayloadOK DEF Refreshed, Cookie
<1> HIDE DEF k
<1>5. /\ holder = t /\ holder' = None /\ req' \in [Tabs -> Request]
      /\ req'[t].pc = "idle" /\ req'[t].token = None /\ req'[t].new = None
      /\ \A u \in Tabs : u # t => req'[u] = req[u] /\ req[u].pc \notin Exclusive
  BY <1>1, ReleasesOK DEF Exclusive
<1>6. refused'[t] = None /\ \A u \in Tabs : u # t => refused'[u] = refused[u] BY <1>1 DEF Inv, Shape
<1>7. Shape' BY <1>1, <1>2, <1>4, <1>5 DEF Inv, Shape
<1>8. Locked' BY <1>5 DEF Locked, Exclusive
<1>9. Created' = Created /\ None \in Created BY <1>2 DEF Created
<1>10. Known' BY <1>2, <1>3, <1>4, <1>5, <1>6, <1>9 DEF Inv, Known
<1>11. Rotating' BY <1>2, <1>5 DEF Inv, Rotating
<1>12. Unused' BY <1>1, <1>4, <1>5 DEF Inv, Unused, Exclusive, k
<1>13. ASSUME faults' = 0
       PROVE  Alone' /\ Usable' /\ OneTokenPerLogin'
  <2>1. faults = 0 /\ Alone /\ Usable /\ OneTokenPerLogin BY <1>2, <1>13 DEF Inv
  <2>2. Alone' BY <1>2, <1>5, <2>1 DEF Alone, Live
  <2>3. Good' = Good BY <1>2 DEF Good, Live
  <2>4. cookie'.refresh \in Good' BY <1>1, <1>4, <2>1, <2>3 DEF Usable, k
  <2>5. \A u \in Tabs :
          /\ req'[u].pc = "sent" => req'[u].token \in Good'
          /\ req'[u].pc \in {"revoke", "refreshed", "loggedIn"} => req'[u].new \in Good'
          /\ refused'[u] # None => token'[refused'[u]].login \in over'
    BY <1>2, <1>5, <1>6, <2>1, <2>3 DEF Usable
  <2>6. Usable' BY <2>4, <2>5 DEF Usable
  <2>7. OneTokenPerLogin' BY <1>1, <1>2, <1>5, <2>1 DEF OneTokenPerLogin, Live
  <2> QED BY <2>2, <2>6, <2>7
<1>14. Stays BY <1>2 DEF Stays
<1> QED BY <1>7, <1>8, <1>10, <1>11, <1>12, <1>13, <1>14 DEF Inv

-----------------------------------------------------------------------------
(* Every step.                                                             *)

LEMMA InitOK ==
  ASSUME Init
  PROVE  Inv
<1>1. \A t \in Tabs : req[t].pc = "idle" /\ req[t].token = None /\ req[t].new = None
  BY IdleOK DEF Init
<1>2. \A k \in Tokens : token[k].state = "none" /\ token[k].login = None BY DEF Init, NoToken
<1>3. account \in Account
  <2>1. PICK m \in BOOLEAN, p \in BOOLEAN :
          account = [active |-> TRUE, mustChange |-> m, pin |-> p, failed |-> 0]
    BY Zenon DEF Init
  <2> QED BY <2>1 DEF Account
<1>4. token \in [Tokens -> Row]
  <2>1. NoToken \in Row BY DEF NoToken, Row, Methods
  <2> QED BY <2>1 DEF Init
<1>5. cookie \in Cookie /\ cookie.refresh = None BY DEF Init, Cookie
<1>6. req \in [Tabs -> Request] BY IdleOK DEF Init
<1>7. Shape BY <1>3, <1>4, <1>5, <1>6 DEF Init, Shape
<1>8. Locked BY <1>1 DEF Init, Locked, Exclusive
<1>9. Known BY <1>1, <1>2, <1>5 DEF Init, Known, Created
<1>10. Rotating /\ Unused BY <1>1 DEF Rotating, Unused
<1>11. Alone /\ Usable /\ OneTokenPerLogin
  BY <1>1, <1>2, <1>5 DEF Alone, Usable, OneTokenPerLogin, Live, Good, Init
<1> QED BY <1>7, <1>8, <1>9, <1>10, <1>11 DEF Inv

LEMMA HandlesOK ==
  ASSUME Inv, NEW t \in Tabs, Handles(t)
  PROVE  Inv' /\ Stays
<1>1. ASSUME NEW k \in Tokens, IssuesLogin(t, k) \/ Creates(t, k)
      PROVE  Inv' /\ Stays
  BY <1>1, IssuesLoginOK, CreatesOK
<1>2. ASSUME NEW method \in Methods, LogsIn(t, method)
      PROVE  Inv' /\ Stays
  BY <1>2, LogsInOK
<1>3. CASE LoggedIn(t) \/ Consents(t) \/ Consented(t) BY <1>3, LoggedInOK, ConsentsOK, ConsentedOK
<1>4. CASE Refuses(t) \/ Reads(t) \/ Revokes(t) \/ Refreshed(t)
  BY <1>4, RefusesOK, ReadsOK, RevokesOK, RefreshedOK
<1>5. CASE LogsOut(t) \/ Locks(t) \/ Unlocks(t) BY <1>5, SessionStepOK
<1>6. CASE ChangesPassword(t) \/ LocksOut(t) \/ Forgets(t) BY <1>6, RevokingStepOK
<1>7. CASE Counts(t) \/ Uncounts(t) \/ Verifies(t) \/ SetsPin(t) \/ Forgotten(t)
  BY <1>7, AccountStepOK
<1>8. CASE Clears(t) BY <1>8, ClearsOK
<1> QED BY <1>1, <1>2, <1>3, <1>4, <1>5, <1>6, <1>7, <1>8 DEF Handles

LEMMA StepOK ==
  ASSUME Inv, [Next]_vars
  PROVE  Inv' /\ Stays
<1>1. CASE UNCHANGED vars
  <2>1. Kept /\ Stays BY <1>1, KeepsTokens DEF vars
  <2>2. Inv' BY <1>1, <2>1, TypesOK, StepsOK DEF vars
  <2> QED BY <2>1, <2>2
<1>2. ASSUME NEW t \in Tabs, Asks(t) \/ Posts(t) \/ Handles(t) \/ RefreshFails(t)
      PROVE  Inv' /\ Stays
  BY <1>2, AsksOK, PostsOK, HandlesOK, RefreshFailsOK
<1>3. CASE AccessEnds \/ ResetsPassword \/ ResetsPin \/ \E active \in BOOLEAN : SetsActive(active)
  BY <1>3, ElsewhereOK
<1> QED BY <1>1, <1>2, <1>3 DEF Next

LEMMA Invariance == Spec => []Inv
<1>1. Init => Inv BY InitOK
<1>2. Inv /\ [Next]_vars => Inv' BY StepOK
<1> QED BY <1>1, <1>2, PTL DEF Spec

-----------------------------------------------------------------------------
(* The theorems.                                                           *)

\* Accounts, tokens, cookies and requests keep their shape, and the Web Lock has a holder
\* exactly while that tab's refresh is under way.
THEOREM TypeCorrect == Spec => []TypeOK
<1>1. Inv => TypeOK
  <2> SUFFICES ASSUME Inv PROVE TypeOK OBVIOUS
  <2> USE DEF Inv, Shape
  <2>1. \A t \in Tabs : /\ req[t].pc \in {"idle", "queued"} \cup Exclusive \cup OtherSteps
                      /\ req[t].token \in Tokens \cup {None} /\ req[t].new \in Tokens \cup {None}
    BY DEF Request
  <2> QED BY <2>1 DEF Account, Row, Cookie, Locked, Known, TypeOK
<1> QED BY <1>1, Invariance, PTL

\* Without faults a login has one usable token, but for the moment inside a rotation.
THEOREM OneToken == Spec => []OneTokenPerLogin
<1>1. Inv => OneTokenPerLogin BY DEF Inv, OneTokenPerLogin
<1> QED BY <1>1, Invariance, PTL

\* Without faults a tab is told that its session is over only if somebody ended it.
THEOREM RefusedIsOver == Spec => []RefusedOnlyWhenOver
<1>1. Inv => RefusedOnlyWhenOver BY DEF Inv, Usable, RefusedOnlyWhenOver
<1> QED BY <1>1, Invariance, PTL

\* A session that was revoked while locked stays locked.
THEOREM RevokedIsLocked == Spec => RevokedStaysLocked
<1>1. Inv /\ [Next]_vars => [Stays]_vars BY StepOK
<1>2. [Stays]_vars => [\A k \in Tokens : token[k].state = "revoked" /\ token[k].locked => token'[k].locked]_vars
  BY DEF Stays
<1> QED BY <1>1, <1>2, Invariance, PTL DEF Spec, RevokedStaysLocked
=============================================================================
