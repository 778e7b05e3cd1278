------------------------------ MODULE Sessions ------------------------------
(***************************************************************************)
(* Sessions: refresh tokens in the database, the cookie of each browser,   *)
(* and the calls of its tabs to login, refresh and logout                  *)
(* (auth.service.js, auth.controller.js, frontend lib/api.js).             *)
(*                                                                         *)
(* The tabs of a browser share its cookie and know nothing of each other.  *)
(* A call takes several steps in the server and its answer takes time, or  *)
(* is lost; a revocation may fall between any two steps.                   *)
(*                                                                         *)
(* The access token is left out: any request may be answered 401 (isAuth   *)
(* when its quarter of an hour is over, isAdmin when the account is no     *)
(* longer what it tells), and that is what starts a refresh.               *)
(*                                                                         *)
(* A token without a row that nobody holds is issued again: the names are  *)
(* finite, the system goes on for ever.                                    *)
(***************************************************************************)
EXTENDS Users

CONSTANTS
    Browser, Tab,
    BrowserOf,   \* the browser of each tab
    CustomerOf,  \* the user who signs in with each browser
    MaxTokens,   \* bound: refresh tokens in use at once
    NoUser, NoToken

Token == 1..MaxTokens

ASSUME SessionsAssumption ==
    /\ BrowserOf \in [Tab -> Browser] /\ CustomerOf \in [Browser -> User]
    /\ MaxTokens \in Nat /\ NoUser \notin User /\ NoToken \notin Token

VARIABLES
    owner,    \* whose refresh token it is: userId, and the id in the JWT
    row,      \* its row in refresh_tokens, or none
    jar,      \* the refreshToken cookie of each browser
    excused,  \* not in the code: browsers whose cookie need not work any more
    call      \* what each tab has under way

sessionVars == <<owner, row, jar, excused, call>>
allVars     == <<userVars, sessionVars>>

\* Fresh; rotated, in its grace or stale after 30 s; or past its seven days.
HasRow == {"fresh", "grace", "stale", "expired"}

Call == [kind : {"idle", "login", "refresh", "logout"},
         step : {"sent", "found", "checked", "alarm", "barred", "granted", "denied"},
         token : Token \cup {NoToken}, made : Token \cup {NoToken},
         excused : BOOLEAN]

Idle == [kind |-> "idle", step |-> "sent", token |-> NoToken, made |-> NoToken, excused |-> FALSE]

\* The fields keep their types; a browser holds a token of its own customer, and
\* is granted one that was stored.
SessionsTypeOK ==
    /\ UsersTypeOK
    /\ owner \in [Token -> User \cup {NoUser}]
    /\ row \in [Token -> HasRow \cup {"none"}]
    /\ jar \in [Browser -> Token \cup {NoToken}]
    /\ excused \subseteq Browser
    /\ call \in [Tab -> Call]
    /\ \A b \in Browser : jar[b] # NoToken => owner[jar[b]] = CustomerOf[b]
    /\ \A i \in Tab : call[i].step = "granted" => call[i].made # NoToken

SessionsInit ==
    /\ UsersInit
    /\ owner = [t \in Token |-> NoUser] /\ row = [t \in Token |-> "none"]
    /\ jar = [b \in Browser |-> NoToken] /\ excused = {}
    /\ call = [i \in Tab |-> Idle]

Me(i) == CustomerOf[BrowserOf[i]]

-----------------------------------------------------------------------------
(* Tokens.                                                                  *)

Held(t) == \/ \E b \in Browser : jar[b] = t
           \/ \E i \in Tab : t \in {call[i].token, call[i].made}

Unissued == {t \in Token : row[t] = "none" /\ ~Held(t)}

NextToken == CHOOSE t \in Unissued : \A s \in Unissued : t <= s

\* storeRefreshToken, over the rows as the rest of the transaction leaves them.
StoreRefreshToken(u, rows) ==
    /\ Unissued # {}
    /\ row' = [rows EXCEPT ![NextToken] = "fresh"]
    /\ owner' = [owner EXCEPT ![NextToken] = u]

Carries(i, T) == call[i].token \in T

\* The tokens of T lost their rows: who holds one is excused; c is what the
\* calls become otherwise.
Excuse(T, c) ==
    /\ excused' = excused \cup {b \in Browser : jar[b] \in T}
    /\ call' = [i \in Tab |-> [c[i] EXCEPT !.excused = @ \/ Carries(i, T)]]

TokensOf(u) == {t \in Token : owner[t] = u}

\* refreshToken.deleteMany of the user.
Revoke(u, c) ==
    /\ row' = [t \in Token |-> IF owner[t] = u THEN "none" ELSE row[t]]
    /\ Excuse(TokensOf(u), c)

\* 30 seconds since the rotation.  Calls that still carry the token are late,
\* and so is the answer their browser waits for.
GraceEnds(t) ==
    /\ row[t] = "grace"
    /\ row' = [row EXCEPT ![t] = "stale"]
    /\ IF \E i \in Tab : Carries(i, {t}) THEN Excuse({t}, call) ELSE UNCHANGED <<excused, call>>
    /\ UNCHANGED <<userVars, owner, jar>>

\* Seven days since it was issued: the JWT is over, and so is the cookie.  No
\* answer takes that long.
TokenAges(t) ==
    /\ row[t] = "fresh" /\ \A i \in Tab : call[i].made # t
    /\ row' = [row EXCEPT ![t] = "expired"]
    /\ jar' = [b \in Browser |-> IF jar[b] = t THEN NoToken ELSE jar[b]]
    /\ call' = [i \in Tab |-> IF Carries(i, {t}) /\ call[i].kind = "refresh" /\ call[i].step = "sent"
                              THEN [call[i] EXCEPT !.step = "denied"] ELSE call[i]]
    /\ UNCHANGED <<userVars, owner, excused>>

\* The maintenance job: expiresAt is past, which is an hour after a rotation.
PurgeRow(t) ==
    /\ row[t] \in {"stale", "expired"}
    /\ row' = [row EXCEPT ![t] = "none"]
    /\ UNCHANGED <<userVars, owner, jar, excused, call>>

-----------------------------------------------------------------------------
(* Calls: what the tab does and what the server does.                       *)

At(i, kind, s) == call[i].kind = kind /\ call[i].step = s
Becomes(i, c)  == call' = [call EXCEPT ![i] = c]
Reaches(i, s)  == Becomes(i, [call[i] EXCEPT !.step = s])

\* Mutant: the account is not looked at.
LoginCheckAnyone(i) ==
    /\ call[i] = Idle /\ Exists(Me(i))
    /\ Becomes(i, [Idle EXCEPT !.kind = "login", !.step = "checked"])
    /\ UNCHANGED <<userVars, owner, row, jar, excused>>

\* loginUser reads the user and compares the password.
LoginCheck(i) ==
    /\ call[i] = Idle /\ account[Me(i)] = "active"
    /\ Becomes(i, [Idle EXCEPT !.kind = "login", !.step = "checked"])
    /\ UNCHANGED <<userVars, owner, row, jar, excused>>

\* Mutant: loginUser does not give the token back to the controller.
LoginStoreOnly(i) ==
    /\ At(i, "login", "checked") /\ Exists(Me(i))
    /\ StoreRefreshToken(Me(i), row)
    /\ Reaches(i, "granted")
    /\ UNCHANGED <<userVars, jar, excused>>

\* And then stores the token, for a user who is still in the table.
LoginStore(i) ==
    /\ At(i, "login", "checked") /\ Exists(Me(i))
    /\ StoreRefreshToken(Me(i), row)
    /\ Becomes(i, [call[i] EXCEPT !.step = "granted", !.made = NextToken])
    /\ UNCHANGED <<userVars, jar, excused>>

\* request() was answered 401 and its tab is not refreshing already.
StartRefresh(i) ==
    LET b == BrowserOf[i] IN
    /\ call[i] = Idle /\ jar[b] # NoToken
    /\ Becomes(i, [Idle EXCEPT !.kind = "refresh", !.token = jar[b], !.excused = b \in excused])
    /\ UNCHANGED <<userVars, owner, row, jar, excused>>

\* Mutant: no grace for a token that was rotated.
RefreshReadStrict(i) ==
    LET t == call[i].token IN
    /\ At(i, "refresh", "sent")
    /\ Reaches(i, IF row[t] = "fresh" THEN "found" ELSE "alarm")
    /\ UNCHANGED <<userVars, owner, row, jar, excused>>

\* refreshAccessToken verifies the JWT (see TokenAges) and reads the row.
RefreshRead(i) ==
    LET t == call[i].token IN
    /\ At(i, "refresh", "sent")
    /\ Reaches(i, IF row[t] \in {"fresh", "grace"} THEN "found" ELSE "alarm")
    /\ UNCHANGED <<userVars, owner, row, jar, excused>>

\* It reads the user.
RefreshUser(i) ==
    /\ At(i, "refresh", "found")
    /\ Reaches(i, IF account[Me(i)] = "active" THEN "checked" ELSE "barred")
    /\ UNCHANGED <<userVars, owner, row, jar, excused>>

\* A token used again, or a user who may not enter: deleteMany, then 401.
RefreshRevoke(i) ==
    /\ At(i, "refresh", "alarm") \/ At(i, "refresh", "barred")
    /\ Revoke(Me(i), [call EXCEPT ![i].step = "denied"])
    /\ UNCHANGED <<userVars, owner, jar>>

\* Mutant: the rotated row is deleted.
MarkedDeleted(t) == [row EXCEPT ![t] = "none"]

\* The rows after updateMany where replacedAt is null.
Marked(t) == IF row[t] \in {"fresh", "expired"} THEN [row EXCEPT ![t] = "grace"] ELSE row

\* The transaction: the old token is marked, the new one stored.
Rotate(i) ==
    /\ At(i, "refresh", "checked") /\ Exists(Me(i))
    /\ StoreRefreshToken(Me(i), Marked(call[i].token))
    /\ Becomes(i, [call[i] EXCEPT !.step = "granted", !.made = NextToken])
    /\ UNCHANGED <<userVars, jar, excused>>

\* The header's button: logout needs no access token and is never refreshed.
Logout(i) ==
    /\ call[i] = Idle /\ jar[BrowserOf[i]] # NoToken
    /\ Becomes(i, [Idle EXCEPT !.kind = "logout", !.token = jar[BrowserOf[i]]])
    /\ UNCHANGED <<userVars, owner, row, jar, excused>>

\* logoutUser deletes the row of the token it was sent.
LogoutDelete(i) ==
    /\ At(i, "logout", "sent")
    /\ row' = [row EXCEPT ![call[i].token] = "none"]
    /\ Excuse({call[i].token}, [call EXCEPT ![i].step = "denied"])
    /\ UNCHANGED <<userVars, owner, jar>>

-----------------------------------------------------------------------------
(* Answers.                                                                 *)

\* setAuthCookies.
Granted(i) ==
    /\ call[i].step = "granted"
    /\ jar' = [jar EXCEPT ![BrowserOf[i]] = call[i].made]
    /\ excused' = IF row[call[i].made] = "none" THEN excused \cup {BrowserOf[i]}
                                               ELSE excused \ {BrowserOf[i]}
    /\ Becomes(i, Idle)
    /\ UNCHANGED <<userVars, owner, row>>

\* clearAuthCookies: a refusal, or the end of a logout.
Denied(i) ==
    /\ call[i].step = "denied"
    /\ jar' = [jar EXCEPT ![BrowserOf[i]] = NoToken]
    /\ excused' = excused \ {BrowserOf[i]}
    /\ Becomes(i, Idle)
    /\ UNCHANGED <<userVars, owner, row>>

\* The network or the process fails: the cookie stays as it is.
Fails(i) ==
    LET b == BrowserOf[i] IN
    /\ call[i] # Idle
    /\ excused' = IF At(i, "refresh", "granted") /\ jar[b] = call[i].token
                  THEN excused \cup {b} ELSE excused
    /\ Becomes(i, Idle)
    /\ UNCHANGED <<userVars, owner, row, jar>>

-----------------------------------------------------------------------------
(* What is done to users, and its part in refresh_tokens.                   *)

\* Secrets has the steps before this one, the last statement of a transaction.
ResetPassword(u) ==
    /\ Exists(u) /\ Revoke(u, call)
    /\ UNCHANGED <<userVars, owner, jar>>

\* The rows of an erased user go with it.
Revocation(op) ==
    /\ OpRevoke(op) \/ DeleteRevoke(op) \/ EraseWrite(op)
    /\ Revoke(op.user, call)
    /\ UNCHANGED <<owner, jar>>

UsersNext ==
    \/ /\ Ask \/ \E op \in ops : OpWrite(op) \/ DeleteWrite(op) \/ OpStops(op)
       /\ UNCHANGED sessionVars
    \/ \E u \in User : ResetPassword(u)
    \/ \E op \in ops : Revocation(op)

SessionsNext ==
    \/ UsersNext
    \/ \E t \in Token : GraceEnds(t) \/ TokenAges(t) \/ PurgeRow(t)
    \/ \E i \in Tab :
         \/ LoginCheck(i) \/ StartRefresh(i) \/ Logout(i)
         \/ LoginStore(i) \/ RefreshRead(i) \/ RefreshUser(i) \/ RefreshRevoke(i)
         \/ Rotate(i) \/ LogoutDelete(i)
         \/ Granted(i) \/ Denied(i) \/ Fails(i)

SessionsSpec == SessionsInit /\ [][SessionsNext]_allVars

\* Time passes, the maintenance timer fires, and every call ends: fetch fails
\* at last where no answer comes.
SessionsFairness ==
    /\ \A t \in Token : /\ WF_allVars(GraceEnds(t)) /\ WF_allVars(TokenAges(t))
                        /\ WF_allVars(PurgeRow(t))
    /\ \A i \in Tab : WF_allVars(Granted(i) \/ Denied(i) \/ Fails(i))

FairSessionsSpec == SessionsSpec /\ SessionsFairness

-----------------------------------------------------------------------------
(* Properties.                                                              *)

\* What the comments of refreshAccessToken promise: tabs that refresh at almost
\* the same time do not close the session.  The cookie of a browser is a token
\* the server takes, unless an answer to the browser was lost or late, the
\* customer signed out, or the sessions were revoked.
SessionsSurvive ==
    \A b \in Browser : jar[b] # NoToken /\ b \notin excused => row[jar[b]] \in {"fresh", "grace"}

\* A token is taken for a stolen one, and the customer signed out of every
\* device, only after something of that kind.
AlarmsAreEarned == \A i \in Tab : At(i, "refresh", "alarm") => call[i].excused

\* A customer who stays deactivated is in the end without any session, whatever
\* logins and refreshes were under way.
DeactivatedDrain ==
    \A u \in {CustomerOf[b] : b \in Browser} :
        <>[](account[u] = "inactive") => <>[](\A t \in TokensOf(u) : row[t] = "none")

=============================================================================
