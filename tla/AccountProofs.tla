--------------------------- MODULE AccountProofs ---------------------------
(***************************************************************************)
(* Proofs about Sessions and Secrets, which share the table of users, for  *)
(* any users, browsers, tabs, tokens and codes: tabs that refresh at once  *)
(* neither close a session nor look like a thief, and a code that another  *)
(* took the place of resets no password.                                   *)
(*                                                                         *)
(* A session survives because its browser's cookie is at every moment      *)
(* either a live row or about to be replaced; which of the two, and by     *)
(* whose answer, is what SessionsInv adds to the properties.               *)
(***************************************************************************)
EXTENDS Secrets, Sessions, FiniteSetTheorems, TLAPS

-----------------------------------------------------------------------------
(* The users table.                                                         *)

LEMMA UsersInitOK == UsersInit => UsersTypeOK
  BY UsersAssumption DEF UsersInit, UsersTypeOK, Role, AdminRole

LEMMA AskKept ==
    ASSUME UsersTypeOK, Ask
    PROVE  UsersTypeOK'
<1> USE DEF UsersTypeOK, Op
<1>1. ASSUME NEW u \in User, RegisterUser(u) \/ Reactivate(u)
      PROVE  UsersTypeOK'
  BY <1>1 DEF RegisterUser, Reactivate
<1>2. ASSUME NEW u \in User, NEW kind \in Kinds, NEW to \in Grants \cup {"CUSTOMER"},
             BeginOp(kind, u, to)
      PROVE  UsersTypeOK'
  <2>1. to \in Role
    BY UsersAssumption DEF Role
  <2>2. [kind |-> kind, user |-> u, to |-> to, step |-> "checked"] \in Op
    BY <2>1
  <2> QED
    BY <1>2, <2>2 DEF BeginOp
<1> QED
  BY <1>1, <1>2 DEF Ask

LEMMA OpKept ==
    ASSUME UsersTypeOK, NEW op \in ops,
           \/ OpWrite(op) \/ OpRevoke(op) \/ DeleteRevoke(op)
           \/ DeleteWrite(op) \/ EraseWrite(op) \/ OpStops(op)
    PROVE  UsersTypeOK'
<1>1. op \in Op
  BY DEF UsersTypeOK
<1>2. [op EXCEPT !.step = "half"] \in Op
  BY <1>1 DEF Op
<1>3. ops' \subseteq Op
  BY <1>2 DEF UsersTypeOK, HalfDone, Done, OpWrite, OpRevoke, DeleteRevoke, DeleteWrite,
              EraseWrite, OpStops
<1>4. op.user \in User /\ op.to \in Role
  BY <1>1 DEF Op
<1> QED
  BY <1>3, <1>4 DEF UsersTypeOK, OpWrite, OpRevoke, DeleteRevoke, DeleteWrite,
                    EraseWrite, OpStops

-----------------------------------------------------------------------------
(* Refresh tokens.                                                          *)

\* A set of tokens that has a member has a least one.
LEMMA Least ==
    ASSUME NEW N \in Nat, NEW S, S \subseteq 1..N, S # {}
    PROVE  \E t \in S : \A s \in S : t <= s
<1> DEFINE W == 1..N
           R == StrictSubsetOrdering(W)
           T == {1..m : m \in S}
<1>1. IsWellFoundedOn(R, SUBSET W)
  <2>1. IsFiniteSet(W)
    BY FS_Interval
  <2> QED
    BY <2>1, FS_StrictSubsetOrderingWellFounded, FS_FiniteSubsetsOfFinite
<1>2. T \subseteq SUBSET W /\ T # {}
  <2>1. \A m \in S : 1..m \subseteq 1..N
    OBVIOUS
  <2>2. PICK m \in S : TRUE
    OBVIOUS
  <2>3. 1..m \in T
    BY <2>2
  <2> QED
    BY <2>1, <2>3
<1> HIDE DEF R, T, W
<1>3. PICK x \in T : \A y \in T : <<y, x>> \notin R
  BY <1>1, <1>2, WFMin
<1>4. PICK t \in S : x = 1..t
  BY DEF T
<1>5. ASSUME NEW s \in S, s < t PROVE FALSE
  <2>1. 1..s \in T /\ 1..s \subseteq 1..t
    BY <1>5 DEF T
  <2>2. 1..s # 1..t
    BY <1>5
  <2>3. <<1..s, x>> \in R
    BY <2>1, <2>2, <1>2, <1>4 DEF R, StrictSubsetOrdering
  <2> QED
    BY <1>3, <2>1, <2>3
<1> QED
  BY <1>5

\* The token that is stored next is in nobody's hands.
LEMMA NextTokenIsFree ==
    ASSUME Unissued # {}
    PROVE  NextToken \in Token /\ row[NextToken] = "none" /\ ~Held(NextToken)
<1>1. Unissued \subseteq Token
  BY DEF Unissued
<1>2. \E t \in Unissued : \A s \in Unissued : t <= s
  BY <1>1, Least, SessionsAssumption DEF Token
<1>3. NextToken \in Unissued
  BY <1>2 DEF NextToken
<1> QED
  BY <1>3 DEF Unissued

-----------------------------------------------------------------------------
(* Sessions: the inductive invariant.                                       *)

\* An answer brings a token that nobody else has heard of.
AnswersAreNew ==
    \A i \in Tab :
        /\ call[i].made # NoToken <=> call[i].step = "granted"
        /\ call[i].step = "granted" =>
             /\ row[call[i].made] \in {"fresh", "none"}
             /\ owner[call[i].made] = Me(i)
             /\ \A b \in Browser : jar[b] # call[i].made
             /\ \A j \in Tab : /\ call[j].token # call[i].made
                               /\ j # i => call[j].made # call[i].made

\* A cookie is in one browser, and is sent by its tabs only.
OneBrowser ==
    /\ \A b, d \in Browser : jar[b] = jar[d] /\ jar[b] # NoToken => b = d
    /\ \A b \in Browser, i \in Tab : call[i].token = jar[b] /\ jar[b] # NoToken => BrowserOf[i] = b
    /\ \A i \in Tab : call[i].kind \in {"refresh", "logout"} => call[i].token # NoToken

\* Within its grace, the cookie of a browser is there because the answer that
\* replaces it is on its way.
RotationIsAnswered ==
    \A b \in Browser : jar[b] # NoToken /\ b \notin excused /\ row[jar[b]] = "grace" =>
        \E i \in Tab : BrowserOf[i] = b /\ At(i, "refresh", "granted") /\ call[i].token = jar[b]

\* A refresh that was not overtaken finds its row.
SentInTime ==
    \A i \in Tab : At(i, "refresh", "sent") /\ ~call[i].excused => row[call[i].token] \in {"fresh", "grace"}

SessionsInv ==
    /\ SessionsTypeOK
    /\ AnswersAreNew
    /\ OneBrowser
    /\ RotationIsAnswered
    /\ SentInTime
    /\ SessionsSurvive
    /\ AlarmsAreEarned

USE SessionsAssumption

LEMMA SessionsInvInit == SessionsInit => SessionsInv
<1> SUFFICES ASSUME SessionsInit PROVE SessionsInv
  OBVIOUS
<1>1. UsersTypeOK
  BY UsersInitOK DEF SessionsInit
<1>2. Idle \in Call
  BY DEF Idle, Call
<1> QED
  BY <1>1, <1>2 DEF SessionsInit, SessionsInv, SessionsTypeOK, AnswersAreNew, OneBrowser,
     RotationIsAnswered, SentInTime, SessionsSurvive, AlarmsAreEarned, At, Idle

-----------------------------------------------------------------------------
(* Sessions: steps of the same shape.                                       *)

\* One call goes on, the others stay.
LEMMA CallBecomes ==
    ASSUME call \in [Tab -> Call], NEW i \in Tab, NEW c \in Call, Becomes(i, c)
    PROVE  /\ call' \in [Tab -> Call] /\ call'[i] = c
           /\ \A j \in Tab : j # i => call'[j] = call[j]
  BY DEF Becomes

\* A call that reaches another step.
LEMMA CallReaches ==
    ASSUME call \in [Tab -> Call], NEW i \in Tab,
           NEW s \in {"sent", "found", "checked", "alarm", "barred", "granted", "denied"}
    PROVE  LET c == [call[i] EXCEPT !.step = s] IN
           /\ c \in Call /\ c.kind = call[i].kind /\ c.step = s /\ c.token = call[i].token
           /\ c.made = call[i].made /\ c.excused = call[i].excused
  BY DEF Call

\* A call whose answer brings a token.
LEMMA CallGranted ==
    ASSUME call \in [Tab -> Call], NEW i \in Tab, NEW t \in Token
    PROVE  LET c == [call[i] EXCEPT !.step = "granted", !.made = t] IN
           /\ c \in Call /\ c.kind = call[i].kind /\ c.step = "granted" /\ c.token = call[i].token
           /\ c.made = t /\ c.excused = call[i].excused
  BY DEF Call

\* A step of one call that is not answered yet, and of nothing else.
LEMMA OneCallMoves ==
    ASSUME SessionsInv, NEW i \in Tab, NEW c \in Call, Becomes(i, c),
           UNCHANGED <<userVars, owner, row, jar, excused>>,
           call[i].step # "granted", c.step # "granted", c.made = NoToken,
           c.token # NoToken => c.token \in {call[i].token, jar[BrowserOf[i]]},
           c.kind \in {"refresh", "logout"} => c.token # NoToken,
           c.kind = "refresh" /\ c.step = "sent" /\ ~c.excused => row[c.token] \in {"fresh", "grace"},
           c.kind = "refresh" /\ c.step = "alarm" => c.excused
    PROVE  SessionsInv'
<1>1. /\ call' \in [Tab -> Call] /\ call'[i] = c
      /\ \A j \in Tab : j # i => call'[j] = call[j]
  BY CallBecomes DEF SessionsInv, SessionsTypeOK
<1>2. UNCHANGED <<account, role, ops, owner, row, jar, excused>>
  BY DEF userVars
<1>3. SessionsTypeOK'
  BY <1>1, <1>2 DEF SessionsInv, SessionsTypeOK, UsersTypeOK
<1>4. AnswersAreNew'
  BY <1>1, <1>2 DEF SessionsInv, SessionsTypeOK, AnswersAreNew, Me
<1>5. OneBrowser'
  BY <1>1, <1>2 DEF SessionsInv, OneBrowser
<1>6. RotationIsAnswered'
  BY <1>1, <1>2 DEF SessionsInv, RotationIsAnswered, At
<1>7. SentInTime'
  BY <1>1, <1>2 DEF SessionsInv, SentInTime, At
<1>8. SessionsSurvive' /\ AlarmsAreEarned'
  BY <1>1, <1>2 DEF SessionsInv, SessionsSurvive, AlarmsAreEarned, At
<1> QED
  BY <1>3, <1>4, <1>5, <1>6, <1>7, <1>8 DEF SessionsInv

\* A token is stored for a call that was checked; of the other rows, only the
\* one the call has read may change, and then it is in its grace.
LEMMA TokenIsStored ==
    ASSUME SessionsInv, NEW i \in Tab, call[i].step = "checked", NEW rows,
           rows \in [Token -> HasRow \cup {"none"}],
           \A t \in Token : \/ rows[t] = row[t]
                            \/ call[i].kind = "refresh" /\ t = call[i].token /\ rows[t] = "grace",
           StoreRefreshToken(Me(i), rows),
           Becomes(i, [call[i] EXCEPT !.step = "granted", !.made = NextToken]),
           UNCHANGED <<userVars, jar, excused>>
    PROVE  SessionsInv'
<1> DEFINE n == NextToken
           c == [call[i] EXCEPT !.step = "granted", !.made = n]
<1>1. n \in Token /\ row[n] = "none" /\ ~Held(n)
  BY NextTokenIsFree DEF StoreRefreshToken
<1>2. /\ \A b \in Browser : jar[b] # n
      /\ \A j \in Tab : call[j].token # n /\ call[j].made # n
  BY <1>1 DEF Held
<1>3. /\ c \in Call /\ c.kind = call[i].kind /\ c.step = "granted" /\ c.token = call[i].token
      /\ c.made = n /\ c.excused = call[i].excused
  BY <1>1, CallGranted DEF SessionsInv, SessionsTypeOK
<1>4. /\ call' \in [Tab -> Call] /\ call'[i] = c
      /\ \A j \in Tab : j # i => call'[j] = call[j]
  BY <1>3, CallBecomes DEF SessionsInv, SessionsTypeOK
<1> HIDE DEF n, c
<1>5. row' = [rows EXCEPT ![n] = "fresh"] /\ owner' = [owner EXCEPT ![n] = Me(i)]
  BY DEF StoreRefreshToken, n
<1>6. Me(i) \in User
  BY DEF Me
<1>7. /\ row' \in [Token -> HasRow \cup {"none"}] /\ owner' \in [Token -> User \cup {NoUser}]
      /\ row'[n] = "fresh" /\ owner'[n] = Me(i)
      /\ \A t \in Token : t # n => owner'[t] = owner[t] /\ row'[t] = rows[t]
  BY <1>1, <1>5, <1>6 DEF SessionsInv, SessionsTypeOK, HasRow
<1>8. UNCHANGED <<account, role, ops, jar, excused>>
  BY DEF userVars
<1>9. \A b \in Browser : jar[b] # NoToken => jar[b] \in Token /\ jar[b] # n
  BY <1>2 DEF SessionsInv, SessionsTypeOK
<1>10. \A j \in Tab : call[j] \in Call
  BY DEF SessionsInv, SessionsTypeOK
<1>11. SessionsTypeOK'
  <2>1. n # NoToken
    BY <1>1
  <2> QED
    BY <2>1, <1>3, <1>4, <1>7, <1>8, <1>9 DEF SessionsInv, SessionsTypeOK, UsersTypeOK
<1>12. \A j \in Tab : j # i /\ call[j].step = "granted" =>
           call[j].made \in Token /\ call[j].made # n /\ row'[call[j].made] = row[call[j].made]
  BY <1>2, <1>7, <1>10 DEF SessionsInv, AnswersAreNew, Call
<1>13. AnswersAreNew'
  <2>1. n # NoToken
    BY <1>1
  <2>2. \A j \in Tab : Me(j)' = Me(j)
    BY DEF Me
  <2> QED
    BY <2>1, <2>2, <1>2, <1>3, <1>4, <1>7, <1>8, <1>12 DEF SessionsInv, AnswersAreNew
<1>14. OneBrowser'
  BY <1>3, <1>4, <1>8 DEF SessionsInv, OneBrowser
<1>15. RotationIsAnswered'
  <2> SUFFICES ASSUME NEW b \in Browser, jar[b] # NoToken, b \notin excused, row'[jar[b]] = "grace"
               PROVE  \E j \in Tab : BrowserOf[j] = b /\ At(j, "refresh", "granted")' /\ call'[j].token = jar[b]
    BY <1>8 DEF RotationIsAnswered
  <2>1. row'[jar[b]] = rows[jar[b]]
    BY <1>7, <1>9
  <2>2. CASE call[i].kind = "refresh" /\ jar[b] = call[i].token
    BY <2>2, <1>3, <1>4 DEF SessionsInv, OneBrowser, At
  <2>3. CASE ~(call[i].kind = "refresh" /\ jar[b] = call[i].token)
    <3>1. row[jar[b]] = "grace"
      BY <2>1, <2>3, <1>9
    <3>2. PICK j \in Tab : BrowserOf[j] = b /\ At(j, "refresh", "granted") /\ call[j].token = jar[b]
      BY <3>1 DEF SessionsInv, RotationIsAnswered
    <3> QED
      BY <3>2, <1>4 DEF At
  <2> QED
    BY <2>2, <2>3
<1>16. \A t \in Token : t # n /\ row[t] \in {"fresh", "grace"} => row'[t] \in {"fresh", "grace"}
  BY <1>7
<1>17. SentInTime'
  BY <1>2, <1>3, <1>4, <1>10, <1>16 DEF SessionsInv, SentInTime, OneBrowser, At, Call
<1>18. SessionsSurvive' /\ AlarmsAreEarned'
  BY <1>3, <1>4, <1>8, <1>9, <1>16 DEF SessionsInv, SessionsSurvive, AlarmsAreEarned, At
<1> QED
  BY <1>11, <1>13, <1>14, <1>15, <1>17, <1>18 DEF SessionsInv

\* Whoever holds a token of T is excused; the calls are otherwise those of c.
LEMMA WhoIsExcused ==
    ASSUME call \in [Tab -> Call], NEW c \in [Tab -> Call], NEW T, Excuse(T, c)
    PROVE  /\ call' \in [Tab -> Call]
           /\ \A i \in Tab :
                 /\ call'[i].kind = c[i].kind /\ call'[i].step = c[i].step
                 /\ call'[i].token = c[i].token /\ call'[i].made = c[i].made
                 /\ call'[i].excused <=> c[i].excused \/ call[i].token \in T
           /\ \A b \in Browser : b \in excused' <=> b \in excused \/ jar[b] \in T
<1>1. call' = [i \in Tab |-> [c[i] EXCEPT !.excused = @ \/ Carries(i, T)]]
  BY DEF Excuse
<1>2. ASSUME NEW i \in Tab
      PROVE  /\ call'[i] \in Call
             /\ call'[i].kind = c[i].kind /\ call'[i].step = c[i].step
             /\ call'[i].token = c[i].token /\ call'[i].made = c[i].made
             /\ call'[i].excused <=> c[i].excused \/ call[i].token \in T
  <2>1. PICK e \in BOOLEAN : e <=> c[i].excused \/ Carries(i, T)
    OBVIOUS
  <2>2. (c[i].excused \/ Carries(i, T)) = e
    BY <2>1
  <2>3. call'[i] = [c[i] EXCEPT !.excused = c[i].excused \/ Carries(i, T)]
    BY <1>1
  <2>4. call'[i] = [c[i] EXCEPT !.excused = e]
    BY <2>2, <2>3, Zenon
  <2>5. c[i] \in Call
    OBVIOUS
  <2> QED
    BY <2>1, <2>4, <2>5 DEF Call, Carries
<1>3. call' \in [Tab -> Call]
  BY <1>1, <1>2
<1> QED
  BY <1>2, <1>3 DEF Excuse

\* c has the calls, and none of those that wait for a token is refused in it.
Likewise(c) ==
    /\ c \in [Tab -> Call]
    /\ \A j \in Tab :
          /\ c[j].kind = call[j].kind /\ c[j].token = call[j].token
          /\ c[j].made = call[j].made /\ c[j].excused = call[j].excused
          /\ c[j].step = call[j].step \/ (call[j].step # "granted" /\ c[j].step = "denied")

LEMMA CallRefused ==
    ASSUME call \in [Tab -> Call], NEW i \in Tab, call[i].step # "granted",
           NEW c, c = [call EXCEPT ![i].step = "denied"]
    PROVE  Likewise(c)
<1> DEFINE d == [call[i] EXCEPT !.step = "denied"]
<1>1. /\ d \in Call /\ d.kind = call[i].kind /\ d.step = "denied" /\ d.token = call[i].token
      /\ d.made = call[i].made /\ d.excused = call[i].excused
  BY CallReaches
<1>2. c = [call EXCEPT ![i] = d]
  OBVIOUS
<1> HIDE DEF d
<1>3. c \in [Tab -> Call] /\ c[i] = d /\ \A j \in Tab : j # i => c[j] = call[j]
  BY <1>1, <1>2
<1> QED
  BY <1>1, <1>3 DEF Likewise

\* The rows of the tokens of T go, and the call that asked for it is refused.
LEMMA RowsGo ==
    ASSUME SessionsInv, NEW T, NEW c, Likewise(c),
           row' = [t \in Token |-> IF t \in T THEN "none" ELSE row[t]],
           Excuse(T, c), UsersTypeOK', UNCHANGED <<owner, jar>>
    PROVE  SessionsInv'
<1>1. /\ call' \in [Tab -> Call]
      /\ \A j \in Tab :
            /\ call'[j].kind = call[j].kind /\ call'[j].token = call[j].token
            /\ call'[j].made = call[j].made
            /\ call'[j].excused <=> call[j].excused \/ call[j].token \in T
            /\ call'[j].step = call[j].step \/ (call[j].step # "granted" /\ call'[j].step = "denied")
      /\ \A b \in Browser : b \in excused' <=> b \in excused \/ jar[b] \in T
  BY WhoIsExcused DEF Likewise, SessionsInv, SessionsTypeOK
<1>2. excused' \subseteq Browser
  BY DEF Excuse, SessionsInv, SessionsTypeOK
<1>3. /\ \A t \in Token : (row'[t] = row[t] /\ t \notin T) \/ (row'[t] = "none" /\ t \in T)
      /\ row' \in [Token -> HasRow \cup {"none"}]
  <2>1. row \in [Token -> HasRow \cup {"none"}]
    BY DEF SessionsInv, SessionsTypeOK
  <2> QED
    BY <2>1
<1>4. \A j \in Tab : call[j] \in Call
  BY DEF SessionsInv, SessionsTypeOK
<1>5. SessionsTypeOK'
  BY <1>1, <1>2, <1>3 DEF SessionsInv, SessionsTypeOK
<1>6. AnswersAreNew'
  <2>1. \A j \in Tab : Me(j)' = Me(j)
    BY DEF Me
  <2> QED
    BY <2>1, <1>1, <1>3, <1>4 DEF SessionsInv, AnswersAreNew, Call
<1>7. OneBrowser'
  BY <1>1 DEF SessionsInv, OneBrowser
<1>8. \A b \in Browser : jar[b] # NoToken => jar[b] \in Token
  BY DEF SessionsInv, SessionsTypeOK
<1>9. RotationIsAnswered'
  BY <1>1, <1>3, <1>8 DEF SessionsInv, RotationIsAnswered, At
<1>10. SentInTime'
  BY <1>1, <1>3, <1>4 DEF SessionsInv, SentInTime, OneBrowser, At, Call
<1>11. SessionsSurvive' /\ AlarmsAreEarned'
  BY <1>1, <1>3, <1>8 DEF SessionsInv, SessionsSurvive, AlarmsAreEarned, At
<1> QED
  BY <1>5, <1>6, <1>7, <1>9, <1>10, <1>11 DEF SessionsInv

\* What is done to users leaves the sessions alone.
LEMMA UsersMove ==
    ASSUME SessionsInv, UsersTypeOK', UNCHANGED sessionVars
    PROVE  SessionsInv'
<1> USE DEF sessionVars
<1>1. SessionsTypeOK'
  BY DEF SessionsInv, SessionsTypeOK
<1>2. AnswersAreNew' /\ OneBrowser'
  BY DEF SessionsInv, AnswersAreNew, OneBrowser, Me
<1>3. RotationIsAnswered' /\ SentInTime'
  BY DEF SessionsInv, RotationIsAnswered, SentInTime, At
<1>4. SessionsSurvive' /\ AlarmsAreEarned'
  BY DEF SessionsInv, SessionsSurvive, AlarmsAreEarned, At
<1> QED
  BY <1>1, <1>2, <1>3, <1>4 DEF SessionsInv

-----------------------------------------------------------------------------
(* Sessions: time.                                                          *)

LEMMA GraceEndsKeeps ==
    ASSUME SessionsInv, NEW t \in Token, GraceEnds(t)
    PROVE  SessionsInv'
<1>1. /\ row[t] = "grace" /\ row' = [row EXCEPT ![t] = "stale"]
      /\ UNCHANGED <<account, role, ops, owner, jar>>
  BY DEF GraceEnds, userVars
<1>2. /\ row' \in [Token -> HasRow \cup {"none"}]
      /\ \A s \in Token : s # t => row'[s] = row[s]
      /\ row'[t] = "stale"
  BY <1>1 DEF SessionsInv, SessionsTypeOK, HasRow
<1>3. /\ call' \in [Tab -> Call] /\ excused' \subseteq Browser
      /\ \A j \in Tab :
            /\ call'[j].kind = call[j].kind /\ call'[j].token = call[j].token
            /\ call'[j].made = call[j].made /\ call'[j].step = call[j].step
            /\ call'[j].excused <=> call[j].excused \/ call[j].token = t
      /\ \A b \in Browser : b \in excused => b \in excused'
      /\ (\E i \in Tab : call[i].token = t) => \A b \in Browser : jar[b] = t => b \in excused'
  <2>0. call \in [Tab -> Call] /\ excused \subseteq Browser
    BY DEF SessionsInv, SessionsTypeOK
  <2>1. CASE \E i \in Tab : call[i].token = t
    <3>1. Excuse({t}, call)
      BY <2>1 DEF GraceEnds, Carries
    <3>2. excused' \subseteq Browser
      BY <2>0, <3>1 DEF Excuse
    <3> QED
      BY <2>0, <3>1, <3>2, WhoIsExcused
  <2>2. CASE ~\E i \in Tab : call[i].token = t
    <3>1. UNCHANGED <<excused, call>>
      BY <2>2 DEF GraceEnds, Carries
    <3> QED
      BY <2>0, <2>2, <3>1
  <2> QED
    BY <2>1, <2>2
<1>4. \A j \in Tab : call[j] \in Call
  BY DEF SessionsInv, SessionsTypeOK
<1>5. \A b \in Browser : jar[b] # NoToken => jar[b] \in Token
  BY DEF SessionsInv, SessionsTypeOK
<1>6. SessionsTypeOK'
  BY <1>1, <1>2, <1>3 DEF SessionsInv, SessionsTypeOK, UsersTypeOK
<1>7. AnswersAreNew'
  <2>1. \A j \in Tab : Me(j)' = Me(j)
    BY DEF Me
  <2> QED
    BY <2>1, <1>1, <1>2, <1>3, <1>4 DEF SessionsInv, AnswersAreNew, Call
<1>8. OneBrowser'
  BY <1>1, <1>3 DEF SessionsInv, OneBrowser
<1>9. RotationIsAnswered'
  BY <1>1, <1>2, <1>3, <1>5 DEF SessionsInv, RotationIsAnswered, At
<1>10. SentInTime'
  BY <1>1, <1>2, <1>3, <1>4 DEF SessionsInv, SentInTime, OneBrowser, At, Call
<1>11. SessionsSurvive'
  BY <1>1, <1>2, <1>3, <1>5 DEF SessionsInv, SessionsSurvive, RotationIsAnswered
<1>12. AlarmsAreEarned'
  BY <1>1, <1>3 DEF SessionsInv, AlarmsAreEarned, At
<1> QED
  BY <1>6, <1>7, <1>8, <1>9, <1>10, <1>11, <1>12 DEF SessionsInv

LEMMA TokenAgesKeeps ==
    ASSUME SessionsInv, NEW t \in Token, TokenAges(t)
    PROVE  SessionsInv'
<1>0. call \in [Tab -> Call]
  BY DEF SessionsInv, SessionsTypeOK
<1>1. /\ row[t] = "fresh" /\ \A i \in Tab : call[i].made # t
      /\ row' = [row EXCEPT ![t] = "expired"]
      /\ UNCHANGED <<account, role, ops, owner, excused>>
  BY DEF TokenAges, userVars
<1>2. /\ row' \in [Token -> HasRow \cup {"none"}]
      /\ \A s \in Token : s # t => row'[s] = row[s]
      /\ row'[t] = "expired"
  BY <1>1 DEF SessionsInv, SessionsTypeOK, HasRow
<1>3. /\ jar' \in [Browser -> Token \cup {NoToken}]
      /\ \A b \in Browser : jar'[b] = NoToken \/ (jar'[b] = jar[b] /\ jar[b] # t)
  BY DEF TokenAges, SessionsInv, SessionsTypeOK
<1>4. \A i \in Tab :
          /\ call'[i] \in Call
          /\ call'[i].kind = call[i].kind /\ call'[i].token = call[i].token
          /\ call'[i].made = call[i].made /\ call'[i].excused = call[i].excused
          /\ \/ call'[i].step = "denied" /\ call[i].step = "sent"
             \/ call'[i].step = call[i].step /\ ~(call[i].token = t /\ At(i, "refresh", "sent"))
  <2> SUFFICES ASSUME NEW i \in Tab
               PROVE  /\ call'[i] \in Call
                      /\ call'[i].kind = call[i].kind /\ call'[i].token = call[i].token
                      /\ call'[i].made = call[i].made /\ call'[i].excused = call[i].excused
                      /\ \/ call'[i].step = "denied" /\ call[i].step = "sent"
                         \/ call'[i].step = call[i].step /\ ~(call[i].token = t /\ At(i, "refresh", "sent"))
    OBVIOUS
  <2> DEFINE d == [call[i] EXCEPT !.step = "denied"]
  <2>1. /\ d \in Call /\ d.kind = call[i].kind /\ d.step = "denied" /\ d.token = call[i].token
        /\ d.made = call[i].made /\ d.excused = call[i].excused
    BY <1>0, CallReaches
  <2>2. call'[i] = IF call[i].token = t /\ call[i].kind = "refresh" /\ call[i].step = "sent"
                   THEN d ELSE call[i]
    BY DEF TokenAges, Carries
  <2> HIDE DEF d
  <2> QED
    BY <1>0, <2>1, <2>2 DEF At
<1>5. call' \in [Tab -> Call]
  <2>1. call' = [i \in Tab |-> call'[i]]
    BY DEF TokenAges
  <2> QED
    BY <1>4, <2>1
<1>6. \A b \in Browser : jar[b] # NoToken => jar[b] \in Token
  BY DEF SessionsInv, SessionsTypeOK
<1>7. SessionsTypeOK'
  BY <1>1, <1>2, <1>3, <1>4, <1>5 DEF SessionsInv, SessionsTypeOK, UsersTypeOK
<1>8. AnswersAreNew'
  <2>1. \A j \in Tab : Me(j)' = Me(j)
    BY DEF Me
  <2> QED
    BY <2>1, <1>1, <1>2, <1>3, <1>4 DEF SessionsInv, AnswersAreNew, Call
<1>9. OneBrowser'
  BY <1>3, <1>4 DEF SessionsInv, OneBrowser
<1>10. RotationIsAnswered'
  BY <1>1, <1>2, <1>3, <1>4, <1>6 DEF SessionsInv, RotationIsAnswered, At
<1>11. SentInTime'
  BY <1>1, <1>2, <1>4 DEF SessionsInv, SentInTime, OneBrowser, At, Call
<1>12. SessionsSurvive'
  BY <1>1, <1>2, <1>3, <1>6 DEF SessionsInv, SessionsSurvive
<1>13. AlarmsAreEarned'
  BY <1>4 DEF SessionsInv, AlarmsAreEarned, At
<1> QED
  BY <1>7, <1>8, <1>9, <1>10, <1>11, <1>12, <1>13 DEF SessionsInv

LEMMA PurgeRowKeeps ==
    ASSUME SessionsInv, NEW t \in Token, PurgeRow(t)
    PROVE  SessionsInv'
<1>1. /\ row[t] \in {"stale", "expired"} /\ row' = [row EXCEPT ![t] = "none"]
      /\ UNCHANGED <<account, role, ops, owner, jar, excused, call>>
  BY DEF PurgeRow, userVars
<1>2. /\ row' \in [Token -> HasRow \cup {"none"}]
      /\ \A s \in Token : s # t => row'[s] = row[s]
      /\ row'[t] = "none"
  BY <1>1 DEF SessionsInv, SessionsTypeOK, HasRow
<1>3. \A j \in Tab : call[j] \in Call
  BY DEF SessionsInv, SessionsTypeOK
<1>4. \A b \in Browser : jar[b] # NoToken => jar[b] \in Token
  BY DEF SessionsInv, SessionsTypeOK
<1>5. SessionsTypeOK'
  BY <1>1, <1>2 DEF SessionsInv, SessionsTypeOK, UsersTypeOK
<1>6. AnswersAreNew' /\ OneBrowser'
  BY <1>1, <1>2, <1>3 DEF SessionsInv, AnswersAreNew, OneBrowser, Call, Me
<1>7. RotationIsAnswered' /\ SentInTime'
  BY <1>1, <1>2, <1>3, <1>4 DEF SessionsInv, RotationIsAnswered, SentInTime, OneBrowser, At, Call
<1>8. SessionsSurvive' /\ AlarmsAreEarned'
  BY <1>1, <1>2, <1>4 DEF SessionsInv, SessionsSurvive, AlarmsAreEarned, At
<1> QED
  BY <1>5, <1>6, <1>7, <1>8 DEF SessionsInv

-----------------------------------------------------------------------------
(* Sessions: calls and answers.                                             *)

\* loginUser, refresh and logout, up to their answers.
LEMMA CallKeeps ==
    ASSUME SessionsInv, NEW i \in Tab,
           \/ LoginCheck(i) \/ StartRefresh(i) \/ Logout(i)
           \/ RefreshRead(i) \/ RefreshUser(i)
    PROVE  SessionsInv'
<1> DEFINE b == BrowserOf[i]
           Sent(kind, e) == [Idle EXCEPT !.kind = kind, !.token = jar[b], !.excused = e]
           Step(s) == [call[i] EXCEPT !.step = s]
<1>1. call \in [Tab -> Call] /\ jar \in [Browser -> Token \cup {NoToken}]
  BY DEF SessionsInv, SessionsTypeOK
<1>2. call[i].step # "granted" => call[i].made = NoToken
  BY DEF SessionsInv, AnswersAreNew
<1>3. \A s \in {"found", "checked", "alarm", "barred"} :
          /\ Step(s) \in Call /\ Step(s).kind = call[i].kind /\ Step(s).step = s
          /\ Step(s).token = call[i].token
          /\ Step(s).made = call[i].made /\ Step(s).excused = call[i].excused
  BY <1>1 DEF Call
<1>4. CASE LoginCheck(i)
  <2> DEFINE c == [Idle EXCEPT !.kind = "login", !.step = "checked"]
  <2>1. /\ c \in Call /\ c.kind = "login" /\ c.step = "checked" /\ c.token = NoToken
        /\ c.made = NoToken /\ c.excused = FALSE
    BY DEF Idle, Call
  <2>2. call[i].step = "sent" /\ Becomes(i, c) /\ UNCHANGED <<userVars, owner, row, jar, excused>>
    BY <1>4 DEF LoginCheck, Idle
  <2> HIDE DEF c
  <2> QED
    BY <2>1, <2>2, OneCallMoves
<1>5. CASE StartRefresh(i)
  <2>1. PICK e \in BOOLEAN : e <=> b \in excused
    OBVIOUS
  <2>2. (b \in excused) = e
    BY <2>1
  <2> DEFINE c == Sent("refresh", e)
  <2>3. Becomes(i, Sent("refresh", b \in excused))
    BY <1>5 DEF StartRefresh
  <2>4. Becomes(i, c)
    BY <2>2, <2>3, Zenon
  <2>5. /\ call[i].step = "sent" /\ jar[b] # NoToken /\ b \in Browser
        /\ UNCHANGED <<userVars, owner, row, jar, excused>>
    BY <1>5 DEF StartRefresh, Idle
  <2>6. /\ c \in Call /\ c.kind = "refresh" /\ c.step = "sent" /\ c.token = jar[b]
        /\ c.made = NoToken /\ c.excused = e
    BY <1>1, <2>5 DEF Idle, Call
  <2>7. ~e => row[jar[b]] \in {"fresh", "grace"}
    BY <2>1, <2>5 DEF SessionsInv, SessionsSurvive
  <2> HIDE DEF c
  <2> QED
    BY <2>4, <2>5, <2>6, <2>7, OneCallMoves
<1>6. CASE Logout(i)
  <2> DEFINE c == [Idle EXCEPT !.kind = "logout", !.token = jar[b]]
  <2>1. /\ call[i].step = "sent" /\ jar[b] # NoToken /\ Becomes(i, c)
        /\ UNCHANGED <<userVars, owner, row, jar, excused>>
    BY <1>6 DEF Logout, Idle
  <2>2. /\ c \in Call /\ c.kind = "logout" /\ c.step = "sent" /\ c.token = jar[b]
        /\ c.made = NoToken
    BY <1>1, <2>1 DEF Idle, Call
  <2> HIDE DEF c
  <2> QED
    BY <2>1, <2>2, OneCallMoves
<1>7. CASE RefreshRead(i)
  <2> DEFINE s == IF row[call[i].token] \in {"fresh", "grace"} THEN "found" ELSE "alarm"
  <2>1. /\ At(i, "refresh", "sent") /\ Becomes(i, Step(s))
        /\ UNCHANGED <<userVars, owner, row, jar, excused>>
    BY <1>7 DEF RefreshRead, Reaches
  <2>2. s = "alarm" => call[i].excused
    BY <2>1 DEF SessionsInv, SentInTime
  <2>3. call[i].token # NoToken
    BY <2>1 DEF SessionsInv, OneBrowser, At
  <2>4. s \in {"found", "alarm"}
    OBVIOUS
  <2> HIDE DEF s, Step
  <2>5. call[i].kind = "refresh" /\ call[i].step = "sent"
    BY <2>1 DEF At
  <2> QED
    BY <1>2, <1>3, <2>1, <2>2, <2>3, <2>4, <2>5, OneCallMoves
<1>8. CASE RefreshUser(i)
  <2> DEFINE s == IF account[Me(i)] = "active" THEN "checked" ELSE "barred"
  <2>1. /\ At(i, "refresh", "found") /\ Becomes(i, Step(s))
        /\ UNCHANGED <<userVars, owner, row, jar, excused>>
    BY <1>8 DEF RefreshUser, Reaches
  <2>2. s \in {"checked", "barred"}
    OBVIOUS
  <2>3. call[i].token # NoToken /\ call[i].kind = "refresh" /\ call[i].step = "found"
    BY <2>1 DEF SessionsInv, OneBrowser, At
  <2> HIDE DEF s, Step
  <2> QED
    BY <1>2, <1>3, <2>1, <2>2, <2>3, OneCallMoves
<1> QED
  BY <1>4, <1>5, <1>6, <1>7, <1>8

\* The transactions that store a token.
LEMMA GrantKeeps ==
    ASSUME SessionsInv, NEW i \in Tab, LoginStore(i) \/ Rotate(i)
    PROVE  SessionsInv'
<1>1. row \in [Token -> HasRow \cup {"none"}]
  BY DEF SessionsInv, SessionsTypeOK
<1>2. CASE LoginStore(i)
  <2>1. /\ call[i].step = "checked" /\ StoreRefreshToken(Me(i), row)
        /\ Becomes(i, [call[i] EXCEPT !.step = "granted", !.made = NextToken])
        /\ UNCHANGED <<userVars, jar, excused>>
    BY <1>2 DEF LoginStore, At
  <2> QED
    BY <1>1, <2>1, TokenIsStored
<1>3. CASE Rotate(i)
  <2> DEFINE t == call[i].token
  <2>1. /\ call[i].step = "checked" /\ call[i].kind = "refresh" /\ StoreRefreshToken(Me(i), Marked(t))
        /\ Becomes(i, [call[i] EXCEPT !.step = "granted", !.made = NextToken])
        /\ UNCHANGED <<userVars, jar, excused>>
    BY <1>3 DEF Rotate, At
  <2>2. Marked(t) \in [Token -> HasRow \cup {"none"}]
    BY <1>1 DEF Marked, HasRow
  <2>3. \A s \in Token : Marked(t)[s] = row[s] \/ (s = t /\ Marked(t)[s] = "grace")
    BY <1>1 DEF Marked
  <2> QED
    BY <2>1, <2>2, <2>3, TokenIsStored
<1> QED
  BY <1>2, <1>3

\* A revocation, whoever asks for it.
LEMMA RevokeKeeps ==
    ASSUME SessionsInv, NEW u, NEW c, Likewise(c), Revoke(u, c), UsersTypeOK',
           UNCHANGED <<owner, jar>>
    PROVE  SessionsInv'
<1>1. row' = [t \in Token |-> IF t \in TokensOf(u) THEN "none" ELSE row[t]]
  BY DEF Revoke, TokensOf
<1>2. Excuse(TokensOf(u), c)
  BY DEF Revoke
<1> QED
  BY <1>1, <1>2, RowsGo

LEMMA SameCalls == call \in [Tab -> Call] => Likewise(call)
  BY DEF Likewise

LEMMA RefusalKeeps ==
    ASSUME SessionsInv, NEW i \in Tab, RefreshRevoke(i) \/ LogoutDelete(i)
    PROVE  SessionsInv'
<1> DEFINE c == [call EXCEPT ![i].step = "denied"]
<1>1. call \in [Tab -> Call] /\ row \in [Token -> HasRow \cup {"none"}] /\ UsersTypeOK
  BY DEF SessionsInv, SessionsTypeOK
<1>2. UNCHANGED <<account, role, ops, owner, jar>> /\ call[i].step # "granted"
  BY DEF RefreshRevoke, LogoutDelete, At, userVars
<1>3. Likewise(c)
  BY <1>1, <1>2, CallRefused
<1>4. UsersTypeOK'
  BY <1>1, <1>2 DEF UsersTypeOK
<1>5. CASE RefreshRevoke(i)
  <2>1. Revoke(Me(i), c)
    BY <1>5 DEF RefreshRevoke
  <2> QED
    BY <2>1, <1>2, <1>3, <1>4, RevokeKeeps
<1>6. CASE LogoutDelete(i)
  <2> DEFINE t == call[i].token
  <2>1. row' = [row EXCEPT ![t] = "none"] /\ Excuse({t}, c)
    BY <1>6 DEF LogoutDelete
  <2>2. row' = [s \in Token |-> IF s \in {t} THEN "none" ELSE row[s]]
    BY <1>1, <2>1
  <2> HIDE DEF c
  <2> QED
    BY <2>1, <2>2, <1>2, <1>3, <1>4, RowsGo
<1> QED
  BY <1>5, <1>6

\* A call is over and the tab idle again: its browser may have another cookie,
\* and the answer may have been lost.
LEMMA CallEnds ==
    ASSUME SessionsInv, NEW i \in Tab, Becomes(i, Idle), UNCHANGED <<userVars, owner, row>>
    PROVE  /\ call' \in [Tab -> Call] /\ call'[i] = Idle
           /\ \A j \in Tab : j # i => call'[j] = call[j]
           /\ UNCHANGED <<account, role, ops, owner, row>>
           /\ \A j \in Tab : At(j, "refresh", "sent")' \/ At(j, "refresh", "alarm")' => j # i
           /\ SentInTime' /\ AlarmsAreEarned'
<1>1. Idle \in Call
  BY DEF Idle, Call
<1>2. call' \in [Tab -> Call] /\ call'[i] = Idle /\ \A j \in Tab : j # i => call'[j] = call[j]
  BY <1>1, CallBecomes DEF SessionsInv, SessionsTypeOK
<1>3. \A j \in Tab : At(j, "refresh", "sent")' \/ At(j, "refresh", "alarm")' => j # i
  BY <1>2 DEF At, Idle
<1> QED
  BY <1>2, <1>3 DEF SessionsInv, SentInTime, AlarmsAreEarned, At, userVars

LEMMA GrantedKeeps ==
    ASSUME SessionsInv, NEW i \in Tab, Granted(i)
    PROVE  SessionsInv'
<1> DEFINE b == BrowserOf[i]
           m == call[i].made
<1>1. /\ call' \in [Tab -> Call] /\ call'[i] = Idle
      /\ \A j \in Tab : j # i => call'[j] = call[j]
      /\ UNCHANGED <<account, role, ops, owner, row>>
      /\ SentInTime' /\ AlarmsAreEarned'
  BY CallEnds DEF Granted
<1>2. /\ m \in Token /\ owner[m] = CustomerOf[b] /\ row[m] \in {"fresh", "none"}
      /\ \A d \in Browser : jar[d] # m
      /\ \A j \in Tab : call[j].token # m /\ (j # i => call[j].made # m)
  <2>1. call[i] \in Call /\ call[i].step = "granted"
    BY DEF Granted, SessionsInv, SessionsTypeOK
  <2> QED
    BY <2>1 DEF SessionsInv, AnswersAreNew, Call, Me
<1>3. /\ jar' = [jar EXCEPT ![b] = m] /\ b \in Browser
      /\ excused' = IF row[m] = "none" THEN excused \cup {b} ELSE excused \ {b}
  BY DEF Granted
<1> HIDE DEF b, m
<1>4. /\ jar' \in [Browser -> Token \cup {NoToken}] /\ excused' \subseteq Browser
      /\ jar'[b] = m /\ \A d \in Browser : d # b => jar'[d] = jar[d]
      /\ \A d \in Browser : d # b => (d \in excused' <=> d \in excused)
      /\ b \notin excused' => row[m] = "fresh"
  BY <1>2, <1>3 DEF SessionsInv, SessionsTypeOK
<1>5. SessionsTypeOK'
  BY <1>1, <1>2, <1>4 DEF SessionsInv, SessionsTypeOK, UsersTypeOK, Idle
<1>6. AnswersAreNew'
  <2>1. \A j \in Tab : Me(j)' = Me(j)
    BY DEF Me
  <2>2. \A j \in Tab : call[j].step = "granted" => call[j].made # NoToken
    BY DEF SessionsInv, AnswersAreNew
  <2> QED
    BY <2>1, <2>2, <1>1, <1>2, <1>4 DEF SessionsInv, AnswersAreNew, Idle
<1>7. OneBrowser'
  <2>1. call'[i].token = NoToken /\ call'[i].kind = "idle"
    BY <1>1 DEF Idle
  <2>2. \A c, d \in Browser : jar'[c] = jar'[d] /\ jar'[c] # NoToken => c = d
    BY <1>2, <1>4 DEF SessionsInv, OneBrowser
  <2>3. \A d \in Browser, j \in Tab : call'[j].token = jar'[d] /\ jar'[d] # NoToken => BrowserOf[j] = d
    BY <2>1, <1>1, <1>2, <1>4 DEF SessionsInv, OneBrowser
  <2>4. \A j \in Tab : call'[j].kind \in {"refresh", "logout"} => call'[j].token # NoToken
    BY <2>1, <1>1 DEF SessionsInv, OneBrowser
  <2> QED
    BY <2>2, <2>3, <2>4 DEF OneBrowser
<1>8. RotationIsAnswered'
  <2> SUFFICES ASSUME NEW d \in Browser, jar'[d] # NoToken, d \notin excused', row'[jar'[d]] = "grace"
               PROVE  \E j \in Tab : BrowserOf[j] = d /\ At(j, "refresh", "granted")' /\ call'[j].token = jar'[d]
    BY DEF RotationIsAnswered
  <2>1. d # b
    BY <1>1, <1>4
  <2>2. PICK j \in Tab : BrowserOf[j] = d /\ At(j, "refresh", "granted") /\ call[j].token = jar[d]
    BY <2>1, <1>1, <1>4 DEF SessionsInv, RotationIsAnswered
  <2>3. j # i
    BY <2>1, <2>2 DEF b
  <2> QED
    BY <2>1, <2>2, <2>3, <1>1, <1>4 DEF At
<1>9. SessionsSurvive'
  BY <1>1, <1>4 DEF SessionsInv, SessionsSurvive
<1> QED
  BY <1>1, <1>5, <1>6, <1>7, <1>8, <1>9 DEF SessionsInv

\* Answers that bring no cookie, and those that never come.
LEMMA EndKeeps ==
    ASSUME SessionsInv, NEW i \in Tab, Denied(i) \/ Fails(i)
    PROVE  SessionsInv'
<1> DEFINE b == BrowserOf[i]
<1>1. /\ call' \in [Tab -> Call] /\ call'[i] = Idle
      /\ \A j \in Tab : j # i => call'[j] = call[j]
      /\ UNCHANGED <<account, role, ops, owner, row>>
      /\ SentInTime' /\ AlarmsAreEarned'
  BY CallEnds DEF Denied, Fails
<1>2. b \in Browser /\ jar \in [Browser -> Token \cup {NoToken}] /\ excused \subseteq Browser
  BY DEF SessionsInv, SessionsTypeOK
<1>3. /\ jar' \in [Browser -> Token \cup {NoToken}] /\ excused' \subseteq Browser
      /\ \A d \in Browser : d # b => jar'[d] = jar[d] /\ (d \in excused' <=> d \in excused)
      /\ \/ jar'[b] = NoToken
         \/ jar'[b] = jar[b] /\ (b \in excused => b \in excused')
            /\ (At(i, "refresh", "granted") /\ call[i].token = jar[b] => b \in excused')
  <2>1. CASE Denied(i)
    BY <1>2, <2>1 DEF Denied
  <2>2. CASE Fails(i)
    BY <1>2, <2>2 DEF Fails
  <2> QED
    BY <2>1, <2>2
<1>4. call'[i].token = NoToken /\ call'[i].made = NoToken /\ call'[i].kind = "idle" /\ call'[i].step = "sent"
  BY <1>1 DEF Idle
<1>5. SessionsTypeOK'
  BY <1>1, <1>3, <1>4 DEF SessionsInv, SessionsTypeOK, UsersTypeOK
<1>6. AnswersAreNew'
  <2>1. \A j \in Tab : Me(j)' = Me(j)
    BY DEF Me
  <2>2. \A j \in Tab : call[j].step = "granted" => call[j].made # NoToken
    BY DEF SessionsInv, AnswersAreNew
  <2> QED
    BY <2>1, <2>2, <1>1, <1>3, <1>4 DEF SessionsInv, AnswersAreNew
<1>7. OneBrowser'
  BY <1>1, <1>3, <1>4 DEF SessionsInv, OneBrowser
<1>8. RotationIsAnswered'
  <2> SUFFICES ASSUME NEW d \in Browser, jar'[d] # NoToken, d \notin excused', row'[jar'[d]] = "grace"
               PROVE  \E j \in Tab : BrowserOf[j] = d /\ At(j, "refresh", "granted")' /\ call'[j].token = jar'[d]
    BY DEF RotationIsAnswered
  <2>1. jar'[d] = jar[d] /\ d \notin excused
    BY <1>3
  <2>2. PICK j \in Tab : BrowserOf[j] = d /\ At(j, "refresh", "granted") /\ call[j].token = jar[d]
    BY <2>1, <1>1 DEF SessionsInv, RotationIsAnswered
  <2>3. j # i
    BY <2>1, <2>2, <1>3
  <2> QED
    BY <2>1, <2>2, <2>3, <1>1 DEF At
<1>9. SessionsSurvive'
  BY <1>1, <1>3 DEF SessionsInv, SessionsSurvive
<1> QED
  BY <1>1, <1>5, <1>6, <1>7, <1>8, <1>9 DEF SessionsInv

\* What is done to users, with its part in refresh_tokens.
LEMMA UsersNextKeeps ==
    ASSUME SessionsInv, UsersNext
    PROVE  SessionsInv'
<1>1. UsersTypeOK /\ call \in [Tab -> Call]
  BY DEF SessionsInv, SessionsTypeOK
<1>2. CASE (Ask \/ \E op \in ops : OpWrite(op) \/ DeleteWrite(op) \/ OpStops(op)) /\ UNCHANGED sessionVars
  BY <1>1, <1>2, AskKept, OpKept, UsersMove
<1>3. ASSUME NEW u \in User, ResetPassword(u)
      PROVE  SessionsInv'
  <2>1. Revoke(u, call) /\ UNCHANGED <<account, role, ops, owner, jar>>
    BY <1>3 DEF ResetPassword, userVars
  <2>2. UsersTypeOK'
    BY <1>1, <2>1 DEF UsersTypeOK
  <2> QED
    BY <1>1, <2>1, <2>2, SameCalls, RevokeKeeps
<1>4. ASSUME NEW op \in ops, Revocation(op)
      PROVE  SessionsInv'
  <2>1. Revoke(op.user, call) /\ UNCHANGED <<owner, jar>>
    BY <1>4 DEF Revocation
  <2>2. UsersTypeOK'
    BY <1>1, <1>4, OpKept DEF Revocation
  <2> QED
    BY <1>1, <2>1, <2>2, SameCalls, RevokeKeeps
<1> QED
  BY <1>2, <1>3, <1>4 DEF UsersNext

LEMMA SessionsInvKept ==
    ASSUME SessionsInv, [SessionsNext]_allVars
    PROVE  SessionsInv'
<1>1. CASE UNCHANGED allVars
  <2>1. UsersTypeOK' /\ UNCHANGED sessionVars
    BY <1>1 DEF SessionsInv, SessionsTypeOK, UsersTypeOK, allVars, userVars
  <2> QED
    BY <2>1, UsersMove
<1>2. CASE SessionsNext
  BY <1>2, UsersNextKeeps, GraceEndsKeeps, TokenAgesKeeps, PurgeRowKeeps, CallKeeps,
     GrantKeeps, RefusalKeeps, GrantedKeeps, EndKeeps DEF SessionsNext
<1> QED
  BY <1>1, <1>2

LEMMA SessionsInvariance == SessionsSpec => []SessionsInv
  BY SessionsInvInit, SessionsInvKept, PTL DEF SessionsSpec

\* A browser holds a token of its own customer only, and every answer that
\* grants one brings a token that was stored, for any tabs and browsers.
THEOREM SessionsTypeCorrect == SessionsSpec => []SessionsTypeOK
<1>1. SessionsInv => SessionsTypeOK
  BY DEF SessionsInv
<1> QED
  BY <1>1, SessionsInvariance, PTL

\* Tabs that refresh at almost the same time do not close the session, however
\* many of them there are and whatever else goes on (refreshAccessToken).
THEOREM TabsKeepTheSession == SessionsSpec => []SessionsSurvive
<1>1. SessionsInv => SessionsSurvive
  BY DEF SessionsInv
<1> QED
  BY <1>1, SessionsInvariance, PTL

\* Nobody is signed out of every device as the victim of a theft unless an
\* answer was lost or late, or the sessions were revoked.
THEOREM NoFalseAlarm == SessionsSpec => []AlarmsAreEarned
<1>1. SessionsInv => AlarmsAreEarned
  BY DEF SessionsInv
<1> QED
  BY <1>1, SessionsInvariance, PTL

-----------------------------------------------------------------------------
(* Links and codes: the inductive invariant.                                *)

\* Of the codes of a user of whom n were asked for: one that was neither used nor
\* deleted when a later one was asked for was either under way too, or is what
\* the request for the later one will delete when it commits.
Orderly(n, codes, clr, bes) ==
    \A c, d \in Code : c < d /\ d <= n =>
       \/ codes[c] \in {"none", "used"}
       \/ c \in bes[d]
       \/ codes[d] = "coming" /\ c \in clr[d] /\ codes[c] # "coming"

CodesInv == \A u \in User : Orderly(asked[u], code[u], clearing[u], beside[u])

SecretsInv == SecretsTypeOK /\ CodesInv

USE SecretsAssumption

LEMMA SecretsInvInit == SecretsInit => SecretsInv
<1> SUFFICES ASSUME SecretsInit PROVE SecretsInv
  OBVIOUS
<1>1. UsersTypeOK
  BY UsersInitOK DEF SecretsInit
<1>2. SecretsTypeOK
  BY <1>1 DEF SecretsInit, SecretsTypeOK
<1>3. CodesInv
  BY DEF SecretsInit, CodesInv, Orderly
<1> QED
  BY <1>2, <1>3 DEF SecretsInv

\* The rows of a user's codes, and sets of codes by code.
Rows == [Code -> {"none", "coming", "live", "expired", "used"}]
Sets == [Code -> SUBSET Code]
Tries == [Code -> 0..MaxTries]

LEMMA WithoutRows ==
    ASSUME NEW codes \in Rows, NEW D \in SUBSET Code
    PROVE  /\ Without(codes, D) \in Rows
           /\ \A c \in Code : Without(codes, D)[c] =
                IF c \in D /\ Unused(codes[c]) THEN "none" ELSE codes[c]
  BY DEF Without, Rows

\* Codes that are used, deleted or run out leave the others in order.
LEMMA OrderlyKept ==
    ASSUME NEW n \in 0..MaxCodes, NEW codes \in Rows, NEW r \in Rows, NEW clr, NEW bes,
           Orderly(n, codes, clr, bes),
           \A c \in Code : \/ r[c] = codes[c]
                           \/ /\ codes[c] # "coming" /\ r[c] # "coming"
                              /\ Unused(r[c]) => Unused(codes[c])
    PROVE  Orderly(n, r, clr, bes)
<1> SUFFICES ASSUME NEW c \in Code, NEW d \in Code, c < d, d <= n,
                    r[c] \notin {"none", "used"}, c \notin bes[d]
             PROVE  r[d] = "coming" /\ c \in clr[d] /\ r[c] # "coming"
  BY DEF Orderly
<1>1. codes[c] \notin {"none", "used"}
  BY DEF Unused, Rows
<1>2. codes[d] = "coming" /\ c \in clr[d] /\ codes[c] # "coming"
  BY <1>1 DEF Orderly
<1> QED
  BY <1>2

\* A step on the codes of one user, which leaves them in order.
LEMMA CodesMove ==
    ASSUME SecretsInv, UsersTypeOK', NEW u \in User, NEW r \in Rows, code' = [code EXCEPT ![u] = r],
           NEW clr \in Sets, clearing' = [clearing EXCEPT ![u] = clr],
           NEW bes \in Sets, beside' = [beside EXCEPT ![u] = bes],
           NEW n \in 0..MaxCodes, asked' = [asked EXCEPT ![u] = n],
           Orderly(n, r, clr, bes),
           verified' \in [User -> BOOLEAN], link' \in [User -> {"none", "live", "used"}],
           verifies' \subseteq User, tries' \in [User -> Tries],
           password' \in [User -> 0..MaxCodes], confirms' \in [User -> [Code -> 0..MaxConfirms]]
    PROVE  SecretsInv'
<1>1. /\ code \in [User -> Rows] /\ clearing \in [User -> Sets] /\ beside \in [User -> Sets]
      /\ asked \in [User -> 0..MaxCodes]
  BY DEF SecretsInv, SecretsTypeOK, Rows, Sets
<1>2. /\ code' \in [User -> Rows] /\ code'[u] = r
      /\ clearing' \in [User -> Sets] /\ clearing'[u] = clr
      /\ beside' \in [User -> Sets] /\ beside'[u] = bes
      /\ asked' \in [User -> 0..MaxCodes] /\ asked'[u] = n
  BY <1>1
<1>3. \A v \in User : v # u => /\ code'[v] = code[v] /\ clearing'[v] = clearing[v]
                              /\ beside'[v] = beside[v] /\ asked'[v] = asked[v]
  BY <1>1
<1>4. SecretsTypeOK'
  BY <1>2 DEF SecretsTypeOK, Rows, Sets, Tries
<1>5. CodesInv'
  <2> SUFFICES ASSUME NEW v \in User
               PROVE  Orderly(asked'[v], code'[v], clearing'[v], beside'[v])
    BY DEF CodesInv
  <2>1. CASE v = u
    BY <1>2, <2>1
  <2>2. CASE v # u
    BY <1>3, <2>2 DEF SecretsInv, CodesInv
  <2> QED
    BY <2>1, <2>2
<1> QED
  BY <1>4, <1>5 DEF SecretsInv

\* A step that leaves the codes as they are.
LEMMA CodesStay ==
    ASSUME SecretsInv, UsersTypeOK', UNCHANGED <<code, asked, clearing, beside>>,
           verified' \in [User -> BOOLEAN], link' \in [User -> {"none", "live", "used"}],
           verifies' \subseteq User, tries' \in [User -> Tries],
           password' \in [User -> 0..MaxCodes], confirms' \in [User -> [Code -> 0..MaxConfirms]]
    PROVE  SecretsInv'
<1>1. SecretsTypeOK'
  BY DEF SecretsInv, SecretsTypeOK, Tries
<1>2. CodesInv'
  BY DEF SecretsInv, CodesInv
<1> QED
  BY <1>1, <1>2 DEF SecretsInv

-----------------------------------------------------------------------------
(* Links and codes: the steps.                                              *)

LEMMA LinksKeep ==
    ASSUME SecretsInv, NEW u \in User,
           SendLink(u) \/ VerifyRead(u) \/ VerifyCommit(u) \/ PurgeLink(u)
    PROVE  SecretsInv'
<1>1. /\ UNCHANGED <<account, role, ops>> /\ UNCHANGED <<asked, clearing, beside, code, tries, password, confirms>>
      /\ verified' \in [User -> BOOLEAN] /\ link' \in [User -> {"none", "live", "used"}]
      /\ verifies' \subseteq User
  <2> USE DEF SecretsInv, SecretsTypeOK, userVars, codeVars, askVars
  <2>1. CASE SendLink(u)
    BY <2>1 DEF SendLink
  <2>2. CASE VerifyRead(u)
    BY <2>2 DEF VerifyRead
  <2>3. CASE VerifyCommit(u)
    BY <2>3 DEF VerifyCommit
  <2>4. CASE PurgeLink(u)
    BY <2>4 DEF PurgeLink
  <2> QED
    BY <2>1, <2>2, <2>3, <2>4
<1>2. UsersTypeOK'
  BY <1>1 DEF SecretsInv, SecretsTypeOK, UsersTypeOK
<1> QED
  BY <1>1, <1>2, CodesStay DEF SecretsInv, SecretsTypeOK, Tries

LEMMA CodesKeep ==
    ASSUME SecretsInv, NEW u \in User,
           \/ RequestClear(u) \/ WrongCode(u)
           \/ \E c \in Code : \/ RequestCreate(u, c)
                              \/ ResetRead(u, c) \/ ResetCommit(u, c) \/ ResetAbort(u, c)
                              \/ CodeExpires(u, c) \/ PurgeCode(u, c)
    PROVE  SecretsInv'
<1>1. /\ UNCHANGED <<account, role, ops, verified, link, verifies>>
  BY DEF RequestClear, RequestCreate, WrongCode, ResetRead, ResetCommit, ResetAbort, CodeExpires,
         PurgeCode, userVars, linkVars
<1>2. UsersTypeOK'
  BY <1>1 DEF SecretsInv, SecretsTypeOK, UsersTypeOK
<1>3. /\ verified \in [User -> BOOLEAN] /\ link \in [User -> {"none", "live", "used"}]
      /\ verifies \subseteq User /\ asked \in [User -> 0..MaxCodes]
      /\ code \in [User -> Rows] /\ tries \in [User -> Tries]
      /\ clearing \in [User -> Sets] /\ beside \in [User -> Sets]
      /\ password \in [User -> 0..MaxCodes] /\ confirms \in [User -> [Code -> 0..MaxConfirms]]
  BY DEF SecretsInv, SecretsTypeOK, Rows, Sets, Tries
<1>4. Orderly(asked[u], code[u], clearing[u], beside[u])
  BY DEF SecretsInv, CodesInv
<1>5. CASE RequestClear(u)
  <2> DEFINE n == asked[u] + 1
             D == {d \in Code : Unused(code[u][d])}
             B == {d \in Code : code[u][d] = "coming"}
             r == [code[u] EXCEPT ![n] = "coming"]
             clr == [clearing[u] EXCEPT ![n] = D]
             bes == [beside[u] EXCEPT ![n] = B]
  <2>1. /\ asked' = [asked EXCEPT ![u] = n] /\ code' = [code EXCEPT ![u] = r]
        /\ clearing' = [clearing EXCEPT ![u] = clr] /\ beside' = [beside EXCEPT ![u] = bes]
        /\ UNCHANGED <<tries, password, confirms>> /\ asked[u] < MaxCodes
    BY <1>5 DEF RequestClear
  <2>2. n \in Code /\ n \in 0..MaxCodes
    BY <1>3, <2>1 DEF Code
  <2>3. r \in Rows /\ clr \in Sets /\ bes \in Sets
    BY <1>3, <2>2 DEF Rows, Sets
  <2>4. \A c \in Code : /\ r[c] = IF c = n THEN "coming" ELSE code[u][c]
                        /\ clr[c] = IF c = n THEN D ELSE clearing[u][c]
                        /\ bes[c] = IF c = n THEN B ELSE beside[u][c]
    BY <1>3 DEF Rows, Sets
  <2>5. \A c \in Code : code[u][c] \in {"none", "coming", "live", "expired", "used"}
    BY <1>3 DEF Rows
  <2>6. \A c \in Code : \/ code[u][c] \in {"none", "used"}
                        \/ c \in B
                        \/ c \in D /\ code[u][c] # "coming"
    BY <2>5 DEF Unused
  <2> HIDE DEF D, B, r, clr, bes
  <2>7. Orderly(n, r, clr, bes)
    <3> SUFFICES ASSUME NEW c \in Code, NEW d \in Code, c < d, d <= n
                 PROVE  \/ r[c] \in {"none", "used"}
                        \/ c \in bes[d]
                        \/ r[d] = "coming" /\ c \in clr[d] /\ r[c] # "coming"
      BY DEF Orderly
    <3>1. asked[u] \in Nat /\ c \in Nat /\ d \in Nat
      BY <1>3 DEF Code
    <3>2. c # n
      BY <3>1, <2>2 DEF Code
    <3>3. CASE d = n
      BY <2>4, <2>6, <3>2, <3>3
    <3>4. CASE d # n
      <4>1. d <= asked[u]
        BY <3>1, <3>4
      <4> QED
        BY <1>4, <2>4, <3>2, <3>4, <4>1 DEF Orderly
    <3> QED
      BY <3>3, <3>4
  <2> HIDE DEF n
  <2> QED
    BY <1>1, <1>2, <1>3, <2>1, <2>2, <2>3, <2>7, CodesMove
<1>6. CASE WrongCode(u)
  <2>1. \A c \in Blamed(u) : tries[u][c] + 1 \in 0..MaxTries
    BY <1>3 DEF Blamed, Tries
  <2>2. [c \in Code |-> IF c \in Blamed(u) THEN tries[u][c] + 1 ELSE tries[u][c]] \in Tries
    BY <1>3, <2>1 DEF Tries
  <2>3. tries' \in [User -> Tries] /\ UNCHANGED <<asked, clearing, beside, code, password, confirms>>
    BY <1>3, <1>6, <2>2 DEF WrongCode, askVars
  <2> QED
    BY <1>1, <1>2, <1>3, <2>3, CodesStay
<1>7. ASSUME NEW c \in Code, NEW r \in Rows, code' = [code EXCEPT ![u] = r],
             Orderly(asked[u], r, clearing[u], beside[u]),
             UNCHANGED <<asked, clearing, beside, tries>>, password' \in [User -> 0..MaxCodes],
             confirms' \in [User -> [Code -> 0..MaxConfirms]]
      PROVE  SecretsInv'
  <2>1. /\ clearing' = [clearing EXCEPT ![u] = clearing[u]] /\ clearing[u] \in Sets
        /\ beside' = [beside EXCEPT ![u] = beside[u]] /\ beside[u] \in Sets
        /\ asked' = [asked EXCEPT ![u] = asked[u]] /\ asked[u] \in 0..MaxCodes
    BY <1>3, <1>7
  <2> QED
    BY <1>1, <1>2, <1>3, <1>7, <2>1, CodesMove
<1>10. ASSUME NEW c \in Code, RequestCreate(u, c)
       PROVE  SecretsInv'
  <2> DEFINE s == Without(code[u], clearing[u][c])
             r == [s EXCEPT ![c] = "live"]
  <2>1. /\ code' = [code EXCEPT ![u] = r] /\ code[u][c] = "coming"
        /\ UNCHANGED <<asked, clearing, beside, tries, password, confirms>>
    BY <1>10 DEF RequestCreate, askVars
  <2>2. clearing[u][c] \in SUBSET Code
    BY <1>3 DEF Sets
  <2>3. s \in Rows /\ \A d \in Code : s[d] = IF d \in clearing[u][c] /\ Unused(code[u][d])
                                             THEN "none" ELSE code[u][d]
    BY <1>3, <2>2, WithoutRows
  <2> HIDE DEF s
  <2>4. r \in Rows /\ \A d \in Code : r[d] = IF d = c THEN "live" ELSE s[d]
    BY <2>3 DEF Rows
  <2> HIDE DEF r
  <2>5. Orderly(asked[u], r, clearing[u], beside[u])
    <3> SUFFICES ASSUME NEW b \in Code, NEW d \in Code, b < d, d <= asked[u],
                        r[b] \notin {"none", "used"}, b \notin beside[u][d]
                 PROVE  r[d] = "coming" /\ b \in clearing[u][d] /\ r[b] # "coming"
      BY DEF Orderly
    <3>1. code[u][b] \notin {"none", "used"}
      BY <2>1, <2>3, <2>4
    <3>2. code[u][d] = "coming" /\ b \in clearing[u][d] /\ code[u][b] # "coming"
      BY <1>4, <3>1 DEF Orderly
    <3>3. b # c
      BY <2>1, <3>2
    <3>4. d # c
      <4>1. code[u][b] \in {"live", "expired"}
        BY <1>3, <3>1, <3>2 DEF Rows
      <4> QED
        BY <2>3, <2>4, <3>2, <3>3, <4>1 DEF Unused
    <3> QED
      BY <2>3, <2>4, <3>2, <3>3, <3>4 DEF Unused
  <2> QED
    BY <1>3, <1>7, <2>1, <2>4, <2>5
<1>8. ASSUME NEW c \in Code, ResetCommit(u, c)
      PROVE  SecretsInv'
  <2> DEFINE s == [code[u] EXCEPT ![c] = "used"]
             r == Cleared(s)
  <2>1. s \in Rows
    BY <1>3 DEF Rows
  <2>2. r \in Rows /\ \A d \in Code : r[d] = IF Unused(s[d]) THEN "none" ELSE s[d]
    BY <2>1, WithoutRows DEF Cleared
  <2>3. /\ code' = [code EXCEPT ![u] = r] /\ UNCHANGED <<asked, clearing, beside, tries>>
        /\ code[u][c] # "coming"
    BY <1>8 DEF ResetCommit, Found, askVars
  <2>5. \A d \in Code : s[d] = IF d = c THEN "used" ELSE code[u][d]
    BY <1>3 DEF Rows
  <2>4. password' \in [User -> 0..MaxCodes] /\ confirms' \in [User -> [Code -> 0..MaxConfirms]]
    BY <1>3, <1>8 DEF ResetCommit, Code
  <2> HIDE DEF s, r
  <2>6. \A d \in Code : \/ r[d] = code[u][d]
                        \/ /\ code[u][d] # "coming" /\ r[d] # "coming"
                           /\ Unused(r[d]) => Unused(code[u][d])
    BY <2>2, <2>3, <2>5 DEF Unused
  <2>7. Orderly(asked[u], r, clearing[u], beside[u])
    BY <1>3, <1>4, <2>2, <2>6, OrderlyKept
  <2> QED
    BY <1>7, <2>2, <2>3, <2>4, <2>7
<1>9. ASSUME NEW c \in Code, ResetRead(u, c) \/ ResetAbort(u, c) \/ CodeExpires(u, c) \/ PurgeCode(u, c)
      PROVE  SecretsInv'
  <2>0. ASSUME NEW n \in 0..MaxConfirms, confirms' = [confirms EXCEPT ![u][c] = n]
        PROVE  confirms' \in [User -> [Code -> 0..MaxConfirms]]
    BY <1>3, <2>0
  <2>1. confirms' \in [User -> [Code -> 0..MaxConfirms]] /\ UNCHANGED <<asked, clearing, beside, tries, password>>
    <3>1. confirms[u][c] \in 0..MaxConfirms
      BY <1>3
    <3>2. CASE ResetRead(u, c)
      <4>1. CASE UNCHANGED confirms
        BY <1>3, <3>2, <4>1 DEF ResetRead, askVars
      <4>2. CASE confirms' = [confirms EXCEPT ![u][c] = @ + 1] /\ confirms[u][c] < MaxConfirms
        <5>1. confirms[u][c] + 1 \in 0..MaxConfirms
          BY <3>1, <4>2
        <5> QED
          BY <2>0, <3>2, <4>2, <5>1 DEF ResetRead, askVars
      <4> QED
        BY <3>2, <4>1, <4>2 DEF ResetRead
    <3>3. CASE ResetAbort(u, c)
      <4>1. confirms' = [confirms EXCEPT ![u][c] = @ - 1] /\ confirms[u][c] - 1 \in 0..MaxConfirms
        BY <3>1, <3>3 DEF ResetAbort
      <4> QED
        BY <2>0, <3>3, <4>1 DEF ResetAbort, askVars
    <3>4. CASE CodeExpires(u, c) \/ PurgeCode(u, c)
      BY <1>3, <3>4 DEF CodeExpires, PurgeCode, askVars
    <3> QED
      BY <1>9, <3>2, <3>3, <3>4
  <2>2. CASE UNCHANGED code
    BY <1>1, <1>2, <1>3, <2>1, <2>2, CodesStay
  <2>3. ASSUME NEW s \in {"none", "expired", "used"}, code' = [code EXCEPT ![u][c] = s],
               s = "expired" => code[u][c] = "live", code[u][c] # "coming"
        PROVE  SecretsInv'
    <3> DEFINE r == [code[u] EXCEPT ![c] = s]
    <3>1. r \in Rows
      BY <1>3 DEF Rows
    <3>2. \A d \in Code : \/ r[d] = code[u][d]
                          \/ /\ code[u][d] # "coming" /\ r[d] # "coming"
                             /\ Unused(r[d]) => Unused(code[u][d])
      BY <1>3, <2>3 DEF Rows, Unused
    <3>4. Orderly(asked[u], r, clearing[u], beside[u])
      BY <1>3, <1>4, <3>1, <3>2, OrderlyKept
    <3>3. code' = [code EXCEPT ![u] = r]
      BY <2>3
    <3> HIDE DEF r
    <3> QED
      BY <1>3, <1>7, <2>1, <3>1, <3>3, <3>4
  <2> QED
    BY <1>9, <2>2, <2>3 DEF ResetRead, ResetAbort, CodeExpires, PurgeCode
<1> QED
  BY <1>5, <1>6, <1>8, <1>9, <1>10

LEMMA AdminsKeepSecrets ==
    ASSUME SecretsInv, NEW op \in ops, UserWrite(op) \/ EraseUser(op)
    PROVE  SecretsInv'
<1>1. op.user \in User /\ UsersTypeOK
  BY DEF SecretsInv, SecretsTypeOK, UsersTypeOK, Op
<1>2. UsersTypeOK'
  BY <1>1, OpKept DEF UserWrite, EraseUser
<1>3. CASE UserWrite(op)
  <2>1. password' \in [User -> 0..MaxCodes] /\ UNCHANGED <<verified, link, verifies, asked, clearing, beside, code, tries, confirms>>
    BY <1>1, <1>3 DEF UserWrite, linkVars, askVars, SecretsInv, SecretsTypeOK
  <2> QED
    BY <1>2, <2>1, CodesStay DEF SecretsInv, SecretsTypeOK, Tries
<1>4. CASE EraseUser(op)
  <2> DEFINE r == [c \in Code |-> "none"]
  <2>1. /\ link' \in [User -> {"none", "live", "used"}]
        /\ UNCHANGED <<verified, verifies, asked, clearing, beside, tries, password, confirms>>
        /\ code' = [code EXCEPT ![op.user] = r]
    BY <1>1, <1>4 DEF EraseUser, askVars, SecretsInv, SecretsTypeOK
  <2>2. r \in Rows /\ Orderly(asked[op.user], r, clearing[op.user], beside[op.user])
    BY DEF Rows, Orderly
  <2> HIDE DEF r
  <2>3. /\ clearing \in [User -> Sets] /\ beside \in [User -> Sets] /\ asked \in [User -> 0..MaxCodes]
    BY DEF SecretsInv, SecretsTypeOK, Sets
  <2>4. /\ clearing' = [clearing EXCEPT ![op.user] = clearing[op.user]] /\ clearing[op.user] \in Sets
        /\ beside' = [beside EXCEPT ![op.user] = beside[op.user]] /\ beside[op.user] \in Sets
        /\ asked' = [asked EXCEPT ![op.user] = asked[op.user]] /\ asked[op.user] \in 0..MaxCodes
    BY <1>1, <2>1, <2>3
  <2>5. /\ verified' \in [User -> BOOLEAN] /\ verifies' \subseteq User /\ tries' \in [User -> Tries]
        /\ password' \in [User -> 0..MaxCodes] /\ confirms' \in [User -> [Code -> 0..MaxConfirms]]
    BY <2>1 DEF SecretsInv, SecretsTypeOK, Tries
  <2> QED
    BY <1>1, <1>2, <2>1, <2>2, <2>4, <2>5, CodesMove
<1> QED
  BY <1>3, <1>4

LEMMA SecretsInvKept ==
    ASSUME SecretsInv, [SecretsNext]_vars
    PROVE  SecretsInv'
<1>1. UsersTypeOK
  BY DEF SecretsInv, SecretsTypeOK
<1>2. ASSUME UsersTypeOK', UNCHANGED secretVars
      PROVE  SecretsInv'
  BY <1>2, CodesStay DEF SecretsInv, SecretsTypeOK, secretVars, linkVars, codeVars, askVars, Tries
<1>3. CASE UNCHANGED vars
  BY <1>1, <1>2, <1>3 DEF vars, userVars, UsersTypeOK
<1>4. CASE Ask /\ UNCHANGED secretVars
  BY <1>1, <1>2, <1>4, AskKept
<1>5. ASSUME NEW op \in ops,
             OpRevoke(op) \/ DeleteRevoke(op) \/ DeleteWrite(op) \/ OpStops(op), UNCHANGED secretVars
      PROVE  SecretsInv'
  BY <1>1, <1>2, <1>5, OpKept
<1>6. Asking \subseteq User
  OBVIOUS
<1> QED
  BY <1>3, <1>4, <1>5, <1>6, AdminsKeepSecrets, LinksKeep, CodesKeep DEF SecretsNext

LEMMA SecretsInvariance == SecretsSpec => []SecretsInv
  BY SecretsInvInit, SecretsInvKept, PTL DEF SecretsSpec

\* No code takes more attempts than its limit, for any users and codes.
THEOREM SecretsTypeCorrect == SecretsSpec => []SecretsTypeOK
<1>1. SecretsInv => SecretsTypeOK
  BY DEF SecretsInv
<1> QED
  BY <1>1, SecretsInvariance, PTL

\* No code resets a password after another was asked for in its place and
\* committed, even when it was waiting for bcrypt meanwhile; requests under way at
\* once, and codes used before, are what the code excepts (requestPasswordReset,
\* resetPasswordWithOtp).
THEOREM SupersededNeverReset == SecretsSpec => SupersededCodeFails
<1> DEFINE NoneBack == \A u \in User, c \in Code :
                       password'[u] # password[u] /\ password'[u] = c =>
                         code[u][c] = "used" \/ \A d \in Code : ~Superseded(u, c, d)
<1>1. ASSUME SecretsInv, [SecretsNext]_vars
      PROVE  [NoneBack]_vars
  <2> SUFFICES ASSUME NEW u \in User, NEW e \in Code, password'[u] # password[u], password'[u] = e,
                      SecretsNext
               PROVE  code[u][e] = "used" \/ \A d \in Code : ~Superseded(u, e, d)
    BY <1>1 DEF vars
  <2>1. password \in [User -> 0..MaxCodes] /\ code \in [User -> Rows]
    BY <1>1 DEF SecretsInv, SecretsTypeOK, Rows
  <2>2. password' # password /\ password'[u] # 0
    BY DEF Code
  <2>3. PICK w \in User, c \in Code : ResetCommit(w, c)
    <3>1. ASSUME NEW op \in ops, UserWrite(op) PROVE FALSE
      BY <2>1, <2>2, <3>1 DEF UserWrite
    <3>2. ~(\E op \in ops : EraseUser(op)) /\ ~UNCHANGED secretVars
      BY <2>2 DEF EraseUser, secretVars, codeVars
    <3>3. ASSUME NEW w \in User,
                 SendLink(w) \/ VerifyRead(w) \/ VerifyCommit(w) \/ PurgeLink(w)
                 \/ RequestClear(w) \/ WrongCode(w)
          PROVE  FALSE
      BY <2>2, <3>3 DEF SendLink, VerifyRead, VerifyCommit, PurgeLink, RequestClear,
                        WrongCode, codeVars
    <3>4. ASSUME NEW w \in User, NEW c \in Code,
                 RequestCreate(w, c) \/ ResetRead(w, c) \/ ResetAbort(w, c)
                 \/ CodeExpires(w, c) \/ PurgeCode(w, c)
          PROVE  FALSE
      BY <2>2, <3>4 DEF RequestCreate, ResetRead, ResetAbort, CodeExpires, PurgeCode
    <3> QED
      BY <3>1, <3>2, <3>3, <3>4 DEF SecretsNext
  <2>4. w = u /\ password'[u] = c /\ code[u][c] \notin {"none", "coming"}
    BY <2>1, <2>3 DEF ResetCommit, Found
  <2>5. e = c
    BY <2>4
  <2>6. ASSUME NEW d \in Code, Superseded(u, e, d), code[u][e] # "used"
        PROVE  FALSE
    BY <1>1, <2>4, <2>5, <2>6 DEF SecretsInv, CodesInv, Orderly, Superseded
  <2> QED
    BY <2>6
<1> QED
  BY <1>1, SecretsInvariance, PTL DEF SecretsSpec, SupersededCodeFails

=============================================================================
