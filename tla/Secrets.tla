------------------------------ MODULE Secrets ------------------------------
(***************************************************************************)
(* What is mailed to a user and works once: the verification link and the  *)
(* code that resets a password (auth.service.js).  A request reads the row *)
(* it was given, waits for bcrypt or for the database, and then writes it  *)
(* by id in a transaction: meanwhile another may have been asked for.      *)
(***************************************************************************)
EXTENDS Users

CONSTANTS
    Asking,      \* bound: the users who ask for links and codes
    MaxCodes,    \* bound: reset codes each user asks for
    MaxTries,    \* RESET_MAX_ATTEMPTS
    MaxConfirms  \* bound: resetPasswordWithOtp calls of a user under way

Code == 1..MaxCodes

ASSUME SecretsAssumption ==
    Asking \subseteq User /\ MaxCodes \in Nat /\ MaxTries \in Nat /\ MaxConfirms \in Nat

VARIABLES
    verified,  \* users.emailVerified
    link,      \* the newest verification link: none, live, or used
    verifies,  \* users with a verifyEmailToken call past its read
    asked,     \* how many reset codes the user has asked for
    code,      \* the rows of password_reset_tokens, in the order asked for;
               \* "coming" while the request's transaction has not committed
    tries,     \* attempts of each code
    clearing,  \* the codes the request for a code found to delete
    beside,    \* not in the code: the requests under way when a code was asked for
    password,  \* where it comes from: a reset code, or 0 for anything else
    confirms   \* resetPasswordWithOtp calls past their read: how many, by code

linkVars == <<verified, link, verifies>>
askVars == <<asked, clearing, beside>>
codeVars == <<askVars, code, tries, password, confirms>>
secretVars == <<linkVars, codeVars>>
vars == <<userVars, secretVars>>

\* The fields keep their types; no code takes more attempts than its limit.
SecretsTypeOK ==
    /\ UsersTypeOK
    /\ verified \in [User -> BOOLEAN]
    /\ link \in [User -> {"none", "live", "used"}]
    /\ verifies \subseteq User
    /\ asked \in [User -> 0..MaxCodes]
    /\ code \in [User -> [Code -> {"none", "coming", "live", "expired", "used"}]]
    /\ tries \in [User -> [Code -> 0..MaxTries]]
    /\ clearing \in [User -> [Code -> SUBSET Code]]
    /\ beside \in [User -> [Code -> SUBSET Code]]
    /\ password \in [User -> 0..MaxCodes]
    /\ confirms \in [User -> [Code -> 0..MaxConfirms]]

SecretsInit ==
    /\ UsersInit
    /\ verified = [u \in User |-> FALSE]
    /\ link = [u \in User |-> "none"] /\ verifies = {}
    /\ asked = [u \in User |-> 0]
    /\ code = [u \in User |-> [c \in Code |-> "none"]]
    /\ tries = [u \in User |-> [c \in Code |-> 0]]
    /\ clearing = [u \in User |-> [c \in Code |-> {}]]
    /\ beside = [u \in User |-> [c \in Code |-> {}]]
    /\ password = [u \in User |-> 0]
    /\ confirms = [u \in User |-> [c \in Code |-> 0]]

-----------------------------------------------------------------------------
(* The verification link.                                                   *)

\* The second half of registerUser, and resendVerificationEmail, which first
\* deletes the unused links.  A registration that dies before this leaves a
\* user without a link, who may ask for one.
SendLink(u) ==
    /\ Exists(u) /\ ~verified[u]
    /\ link' = [link EXCEPT ![u] = "live"]
    /\ UNCHANGED <<userVars, verified, verifies, codeVars>>

\* The link of a user who is verified already is answered at once.
VerifyRead(u) ==
    /\ link[u] = "live" /\ ~verified[u] /\ u \notin verifies
    /\ verifies' = verifies \cup {u}
    /\ UNCHANGED <<userVars, verified, link, codeVars>>

\* The transaction: verified, the link used, the other unused links deleted.
\* It fails when the link it read, or the user, is gone.
VerifyCommit(u) ==
    /\ u \in verifies
    /\ verifies' = verifies \ {u}
    /\ IF link[u] # "none" /\ Exists(u)
       THEN /\ verified' = [verified EXCEPT ![u] = TRUE]
            /\ link' = [link EXCEPT ![u] = "used"]
       ELSE UNCHANGED <<verified, link>>
    /\ UNCHANGED <<userVars, codeVars>>

\* A day passed and the maintenance job came.
PurgeLink(u) ==
    /\ link[u] # "none"
    /\ link' = [link EXCEPT ![u] = "none"]
    /\ UNCHANGED <<userVars, verified, verifies, codeVars>>

-----------------------------------------------------------------------------
(* The code that resets a password.                                         *)

Unused(s) == s \in {"live", "expired"}

\* The user's codes without those of D that are unused.
Without(codes, D) ==
    [c \in Code |-> IF c \in D /\ Unused(codes[c]) THEN "none" ELSE codes[c]]

Cleared(codes) == Without(codes, Code)

\* One transaction deletes the unused codes and creates another, but at READ
\* COMMITTED its deleteMany finds only what is committed by then: not the code
\* of another request still under way.
RequestClear(u) ==
    LET c == asked[u] + 1 IN
    /\ Exists(u) /\ asked[u] < MaxCodes
    /\ asked' = [asked EXCEPT ![u] = c]
    /\ code' = [code EXCEPT ![u][c] = "coming"]
    /\ clearing' = [clearing EXCEPT ![u][c] = {d \in Code : Unused(code[u][d])}]
    /\ beside' = [beside EXCEPT ![u][c] = {d \in Code : code[u][d] = "coming"}]
    /\ UNCHANGED <<userVars, linkVars, tries, password, confirms>>

\* It commits.  One that fails, or dies, never does: its code stays "coming".
RequestCreate(u, c) ==
    /\ code[u][c] = "coming" /\ Exists(u)
    /\ code' = [code EXCEPT ![u] = [Without(@, clearing[u][c]) EXCEPT ![c] = "live"]]
    /\ UNCHANGED <<userVars, linkVars, askVars, tries, password, confirms>>

\* Mutant: the updateMany has no limit.
BlamedUnlimited(u) == {c \in Code : code[u][c] = "live"}

\* The codes that take an attempt more.
Blamed(u) == {c \in Code : code[u][c] = "live" /\ tries[u][c] < MaxTries}

\* Any other six digits: every live code of the user takes the blame.
WrongCode(u) ==
    /\ Blamed(u) # {}
    /\ tries' = [tries EXCEPT ![u] = [c \in Code |-> IF c \in Blamed(u) THEN @[c] + 1 ELSE @[c]]]
    /\ UNCHANGED <<userVars, linkVars, askVars, code, password, confirms>>

\* The right code: past the limit it is used up, else the password is hashed.
ResetRead(u, c) ==
    /\ code[u][c] = "live"
    /\ IF tries[u][c] >= MaxTries
       THEN code' = [code EXCEPT ![u][c] = "used"] /\ UNCHANGED confirms
       ELSE /\ confirms[u][c] < MaxConfirms
            /\ confirms' = [confirms EXCEPT ![u][c] = @ + 1] /\ UNCHANGED code
    /\ UNCHANGED <<userVars, linkVars, askVars, tries, password>>

\* Mutant: the code is marked with updateMany, which misses nothing.
FoundOrNot(u, c) == Exists(u)

\* The row the call read is still there, whatever has become of it.
Found(u, c) == code[u][c] \notin {"none", "coming"} /\ Exists(u)

\* The transaction: the code used, the others deleted, the password set.  Its
\* last statement deletes the user's refresh tokens (see Sessions).
ResetCommit(u, c) ==
    /\ confirms[u][c] > 0 /\ Found(u, c)
    /\ confirms' = [confirms EXCEPT ![u][c] = @ - 1]
    /\ password' = [password EXCEPT ![u] = c]
    /\ code' = [code EXCEPT ![u] = Cleared([@ EXCEPT ![c] = "used"])]
    /\ UNCHANGED <<userVars, linkVars, askVars, tries>>

\* The code is gone (P2025), or a reset by another code holds its row and wants
\* this one: the whole transaction is undone.
ResetAbort(u, c) ==
    /\ confirms[u][c] > 0
    /\ ~Found(u, c) \/ \E d \in Code \ {c} : confirms[u][d] > 0
    /\ confirms' = [confirms EXCEPT ![u][c] = @ - 1]
    /\ UNCHANGED <<userVars, linkVars, askVars, code, tries, password>>

\* Ten minutes passed; later the maintenance job comes.
CodeExpires(u, c) ==
    /\ code[u][c] = "live"
    /\ code' = [code EXCEPT ![u][c] = "expired"]
    /\ UNCHANGED <<userVars, linkVars, askVars, tries, password, confirms>>

PurgeCode(u, c) ==
    /\ code[u][c] \in {"expired", "used"}
    /\ code' = [code EXCEPT ![u][c] = "none"]
    /\ UNCHANGED <<userVars, linkVars, askVars, tries, password, confirms>>

-----------------------------------------------------------------------------
(* What admins do, seen from here.                                          *)

\* resetUserPassword leaves the codes alone.
UserWrite(op) ==
    /\ OpWrite(op)
    /\ password' = IF op.kind = "password" THEN [password EXCEPT ![op.user] = 0] ELSE password
    /\ UNCHANGED <<linkVars, askVars, code, tries, confirms>>

\* The links and the codes go with the user.
EraseUser(op) ==
    /\ EraseWrite(op)
    /\ link' = [link EXCEPT ![op.user] = "none"]
    /\ code' = [code EXCEPT ![op.user] = [c \in Code |-> "none"]]
    /\ UNCHANGED <<verified, verifies, askVars, tries, password, confirms>>

SecretsNext ==
    \/ Ask /\ UNCHANGED secretVars
    \/ \E op \in ops :
         \/ UserWrite(op) \/ EraseUser(op)
         \/ (OpRevoke(op) \/ DeleteRevoke(op) \/ DeleteWrite(op) \/ OpStops(op))
            /\ UNCHANGED secretVars
    \/ \E u \in Asking :
         \/ SendLink(u) \/ VerifyRead(u) \/ VerifyCommit(u) \/ PurgeLink(u)
         \/ RequestClear(u) \/ WrongCode(u)
         \/ \E c \in Code : \/ RequestCreate(u, c)
                            \/ ResetRead(u, c) \/ ResetCommit(u, c) \/ ResetAbort(u, c)
                            \/ CodeExpires(u, c) \/ PurgeCode(u, c)

SecretsSpec == SecretsInit /\ [][SecretsNext]_vars

-----------------------------------------------------------------------------
(* Properties.                                                              *)

\* The request for code d, made when c was already there, has committed.
Superseded(u, c, d) ==
    c < d /\ d <= asked[u] /\ c \notin beside[u][d] /\ code[u][d] # "coming"

\* A reset goes through on no code after another was asked for in its place, even
\* if it was waiting for bcrypt then.  Two exceptions the code makes: requests
\* under way at once do not see each other's code, and leave two that work,
\* although "revocamos todos los codigos pendientes del usuario para que solo
\* haya uno activo"; and a code that was used is kept, so that a submission of it
\* that was under way still goes through.
SupersededCodeFails ==
    [][\A u \in User, c \in Code :
          password'[u] # password[u] /\ password'[u] = c =>
            code[u][c] = "used" \/ \A d \in Code : ~Superseded(u, c, d)]_vars

=============================================================================
