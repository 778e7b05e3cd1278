------------------------------- MODULE Users -------------------------------
(***************************************************************************)
(* The users table and what admins do to users (admin.service.js).         *)
(*                                                                         *)
(* A request checks, writes by id and revokes the user's sessions, each in *)
(* a statement of its own: its steps interleave with those of any other    *)
(* request, and the process may die between two of them.  The module that  *)
(* has the sessions adds what the revocation does.                         *)
(***************************************************************************)
EXTENDS Naturals, FiniteSets

CONSTANTS
    User,
    FirstRole,  \* the role each user starts with
    Kinds,      \* bound: what admins ask for
    Grants,     \* bound: the roles updateUserRole is asked for
    MaxOps      \* bound: admin requests on users under way at once

AdminRole == {"ADMIN", "SUPER_ADMIN"}
Role      == {"CUSTOMER"} \cup AdminRole

WriteFirst  == {"update", "role", "password"}
RevokeFirst == {"delete", "erase"}

ASSUME UsersAssumption ==
    /\ FirstRole \in [User -> Role] /\ MaxOps \in Nat
    /\ Kinds \subseteq WriteFirst \cup RevokeFirst /\ Grants \subseteq Role

VARIABLES
    account,  \* none, active, inactive (isActive false) or deleted
    role,     \* users.role
    ops       \* admin requests on users under way

userVars == <<account, role, ops>>

Op == [kind : Kinds, user : User, to : Role, step : {"checked", "half"}]

UsersTypeOK ==
    /\ account \in [User -> {"none", "active", "inactive", "deleted"}]
    /\ role \in [User -> Role]
    /\ ops \subseteq Op

\* Admins are there from the start; customers register.
UsersInit ==
    /\ account = [u \in User |-> IF FirstRole[u] \in AdminRole THEN "active" ELSE "none"]
    /\ role = FirstRole
    /\ ops = {}

Exists(u) == account[u] \in {"active", "inactive"}

-----------------------------------------------------------------------------
\* registerUser.
RegisterUser(u) ==
    /\ account[u] = "none"
    /\ account' = [account EXCEPT ![u] = "active"]
    /\ UNCHANGED <<role, ops>>

\* isAdmin: the account is active and has the role its access token tells.
IsAdmin(by) == account[by] = "active" /\ role[by] \in AdminRole

\* canManageAdmins.
CanManageAdmins(by) == IsAdmin(by) /\ role[by] = "SUPER_ADMIN"

\* loadTargetFor, for a target other than the admin who asks.
MayModify(by, u) == Exists(u) /\ (role[u] \in AdminRole => role[by] = "SUPER_ADMIN")

\* Who may ask for what.  The write of updateUserRole or resetUserPassword
\* does not look at the target again.
Allowed(kind, by, u) ==
    /\ by # u /\ IsAdmin(by)
    /\ IF kind \in {"role", "password"} THEN CanManageAdmins(by) /\ Exists(u)
                                        ELSE MayModify(by, u)

\* "update" stands for updateUser with isActive false.
BeginOp(kind, u, to) ==
    /\ \E by \in User : Allowed(kind, by, u)
    /\ kind # "role" => to = "CUSTOMER"
    /\ Cardinality(ops) < MaxOps
    /\ ops' = ops \cup {[kind |-> kind, user |-> u, to |-> to, step |-> "checked"]}
    /\ UNCHANGED <<account, role>>

HalfDone(op) == ops' = (ops \ {op}) \cup {[op EXCEPT !.step = "half"]}
Done(op)     == ops' = ops \ {op}

\* The write of updateUser, updateUserRole or resetUserPassword.
OpWrite(op) ==
    /\ op.kind \in WriteFirst /\ op.step = "checked" /\ Exists(op.user)
    /\ account' = IF op.kind = "update" THEN [account EXCEPT ![op.user] = "inactive"] ELSE account
    /\ role' = IF op.kind = "role" THEN [role EXCEPT ![op.user] = op.to] ELSE role
    /\ HalfDone(op)

\* Their revokeSessions, after the write.
OpRevoke(op) ==
    /\ op.kind \in WriteFirst /\ op.step = "half"
    /\ Done(op) /\ UNCHANGED <<account, role>>

\* deleteUser revokes first.
DeleteRevoke(op) ==
    /\ op.kind \in RevokeFirst /\ op.step = "checked"
    /\ HalfDone(op) /\ UNCHANGED <<account, role>>

\* And then deactivates.
DeleteWrite(op) ==
    /\ op.kind = "delete" /\ op.step = "half" /\ Exists(op.user)
    /\ account' = [account EXCEPT ![op.user] = "inactive"]
    /\ Done(op) /\ UNCHANGED role

\* Or erases the user, with every row that hangs from it.
EraseWrite(op) ==
    /\ op.kind = "erase" /\ op.step = "half" /\ Exists(op.user)
    /\ account' = [account EXCEPT ![op.user] = "deleted"]
    /\ Done(op) /\ UNCHANGED role

\* The user is gone (P2025) or has orders (P2003), or the process died: what
\* was done stays done, the rest is never done.
OpStops(op) == Done(op) /\ UNCHANGED <<account, role>>

\* updateUser with isActive true.
Reactivate(u) ==
    /\ \E by \in User : Allowed("update", by, u)
    /\ account[u] = "inactive"
    /\ account' = [account EXCEPT ![u] = "active"]
    /\ UNCHANGED <<role, ops>>

\* What is asked for, and changes nothing of the modules that extend this one.
Ask ==
    \/ \E u \in User : RegisterUser(u) \/ Reactivate(u)
    \/ \E u \in User, kind \in Kinds, to \in Grants \cup {"CUSTOMER"} : BeginOp(kind, u, to)

=============================================================================
