--------------------------- MODULE ClientAccounts ---------------------------
(***************************************************************************)
(* The clients' logins: an administrator creates a tenant with its client   *)
(* user, resets the client's password, and the client logs in.  A password  *)
(* takes a while to hash and to compare, so the calls overlap between what  *)
(* they read and what they write or answer.                                 *)
(***************************************************************************)
EXTENDS Naturals

CONSTANTS
    Emails,      \* as every call brings them to: trimmed, in lower case
    Passwords,
    UserCalls,       \* calls that may overlap, each made once
    Nobody         \* no email, no password

ASSUME AccountsAssumption ==
    /\ Nobody \notin Emails
    /\ Nobody \notin Passwords

VARIABLES
    tenant,   \* tenant[e]: how many tenants have the contact email e
    user,     \* user[e]: the password (its hash) of the client user, if any
    userCall,     \* userCall[k]: a call of AdminService or AuthService
    shown,    \* the calls whose credentials the administrator has on the screen
    token,    \* the calls of login that have answered with a token
    userPast      \* what the properties remember

userVars == <<tenant, user, userCall, shown, token, userPast>>

UserCallType ==
    [pc : {"idle", "hash", "write", "answer", "compare", "sign", "done", "refused"},
     op : {"create", "reset", "login"},
     email : Emails \cup {Nobody},
     password : Passwords \cup {Nobody},     \* typed
     found : Passwords \cup {Nobody}]        \* read

ClientAccountsTypeOK ==
    /\ tenant \in [Emails -> Nat]
    /\ user \in [Emails -> Passwords \cup {Nobody}]
    /\ userCall \in [UserCalls -> UserCallType]
    /\ shown \subseteq UserCalls
    /\ token \subseteq UserCalls
    \* overtaken: calls of whose email another call has written the password
    \* and they not after it.  valid[k]: what the password of call k's email was
    \* since the call began.
    /\ userPast \in [overtaken : SUBSET UserCalls, valid : [UserCalls -> SUBSET (Passwords \cup {Nobody})]]
    /\ \A k \in UserCalls :
        \* A call that goes on has an email and a password, and a login that
        \* goes on has found a user.
        /\ userCall[k].pc # "idle" => userCall[k].email # Nobody /\ userCall[k].password # Nobody
        /\ userCall[k].pc \in {"compare", "sign"} => userCall[k].found # Nobody

NoUserCall == [pc |-> "idle", op |-> "login", email |-> Nobody, password |-> Nobody, found |-> Nobody]

UserInit ==
    /\ tenant = [e \in Emails |-> 0]
    /\ user = [e \in Emails |-> Nobody]
    /\ userCall = [k \in UserCalls |-> NoUserCall]
    /\ shown = {}
    /\ token = {}
    /\ userPast = [overtaken |-> {}, valid |-> [k \in UserCalls |-> {}]]

----------------------------------------------------------------------------

\* A call begins and reads the user of its email.
Begin(k, op, e, p, pc) ==
    /\ userCall[k].pc = "idle"
    /\ userCall' = [userCall EXCEPT ![k] = [pc |-> pc, op |-> op, email |-> e, password |-> p,
                                            found |-> user[e]]]
    /\ userPast' = [userPast EXCEPT !.valid[k] = {user[e]}]
    /\ UNCHANGED <<tenant, user, shown, token>>

\* The form of the dashboard (which allows one creation at a time per tab) and
\* the first query of createTenant.
CreateTenant(k, e, p) ==
    Begin(k, "create", e, p, IF user[e] = Nobody THEN "hash" ELSE "refused")

\* The modal has a button for the tenants that have a user.
ResetClientPassword(k, e, p) ==
    /\ user[e] # Nobody
    /\ Begin(k, "reset", e, p, "hash")

Login(k, e, p) ==
    Begin(k, "login", e, p, IF user[e] = Nobody THEN "refused" ELSE "compare")

Hash(k) ==
    /\ userCall[k].pc = "hash"
    /\ userCall' = [userCall EXCEPT ![k].pc = "write"]
    /\ UNCHANGED <<tenant, user, shown, token, userPast>>

\* The password of e becomes p.
SetPassword(k, e, p) ==
    /\ user' = [user EXCEPT ![e] = p]
    /\ userPast' = [overtaken |-> (userPast.overtaken \cup {j \in UserCalls : userCall[j].email = e}) \ {k},
                    valid |-> [j \in UserCalls |->
                                  IF userCall[j].email = e /\ userCall[j].pc \notin {"done", "refused"}
                                  THEN userPast.valid[j] \cup {p} ELSE userPast.valid[j]]]

\* The transaction: tenant and user, or neither when the email was taken
\* meanwhile or the transaction fails.
CreateTransaction(k) ==
    LET e == userCall[k].email IN
    /\ userCall[k].pc = "write" /\ userCall[k].op = "create"
    /\ \/ /\ user[e] = Nobody
          /\ tenant' = [tenant EXCEPT ![e] = @ + 1]
          /\ SetPassword(k, e, userCall[k].password)
          /\ userCall' = [userCall EXCEPT ![k].pc = "answer"]
       \/ /\ userCall' = [userCall EXCEPT ![k].pc = "refused"]
          /\ UNCHANGED <<tenant, user, userPast>>
    /\ UNCHANGED <<shown, token>>

\* Mutant of ResetUpdate: a write that fails is answered like one that does not.
ResetUpdateSwallowing(k) ==
    /\ userCall[k].pc = "write" /\ userCall[k].op = "reset"
    /\ \/ SetPassword(k, userCall[k].email, userCall[k].password)
       \/ UNCHANGED <<user, userPast>>
    /\ userCall' = [userCall EXCEPT ![k].pc = "answer"]
    /\ UNCHANGED <<tenant, shown, token>>

\* prisma.user.update, which may fail.
ResetUpdate(k) ==
    /\ userCall[k].pc = "write" /\ userCall[k].op = "reset"
    /\ \/ /\ SetPassword(k, userCall[k].email, userCall[k].password)
          /\ userCall' = [userCall EXCEPT ![k].pc = "answer"]
       \/ /\ userCall' = [userCall EXCEPT ![k].pc = "refused"]
          /\ UNCHANGED <<user, userPast>>
    /\ UNCHANGED <<tenant, shown, token>>

\* The answer carries the password once, and the dashboard shows it; an answer
\* that is lost leaves an error on the screen though the write is there.
CredentialsShown(k) ==
    /\ userCall[k].pc = "answer"
    /\ shown' \in {shown, shown \cup {k}}
    /\ userCall' = [userCall EXCEPT ![k].pc = "done"]
    /\ UNCHANGED <<tenant, user, token, userPast>>

\* bcrypt.compare with the hash that was read.
Compare(k) ==
    /\ userCall[k].pc = "compare"
    /\ userCall' = [userCall EXCEPT ![k].pc = IF userCall[k].password = userCall[k].found
                                              THEN "sign" ELSE "refused"]
    /\ UNCHANGED <<tenant, user, shown, token, userPast>>

Sign(k) ==
    /\ userCall[k].pc = "sign"
    /\ userCall' = [userCall EXCEPT ![k].pc = "done"]
    /\ token' = token \cup {k}
    /\ UNCHANGED <<tenant, user, shown, userPast>>

UserNext ==
    \/ \E k \in UserCalls, e \in Emails, p \in Passwords :
           CreateTenant(k, e, p) \/ ResetClientPassword(k, e, p) \/ Login(k, e, p)
    \/ \E k \in UserCalls : \/ Hash(k)
                            \/ CreateTransaction(k)
                            \/ ResetUpdate(k)
                            \/ CredentialsShown(k)
                            \/ Compare(k)
                            \/ Sign(k)

UserSpec == UserInit /\ [][UserNext]_userVars

----------------------------------------------------------------------------

\* A tenant and its client user exist together, and an email has one of each,
\* however many creations for the email pass their first query.
OneClientPerTenant ==
    \A e \in Emails : tenant[e] = IF user[e] = Nobody THEN 0 ELSE 1

\* Credentials on the administrator's screen log the client in, unless another
\* call has written the client's password after the one that shows them.
ShownCredentialsWork ==
    \A k \in shown \ userPast.overtaken : user[userCall[k].email] = userCall[k].password

\* A token is given for a password that was the user's while the login was
\* handled, though it may have been replaced before the token was signed.
TokensWereEarned == \A k \in token : userCall[k].password \in userPast.valid[k]

\* Calls of createTenant, resetClientPassword and login for the same email may
\* overlap at every await (admin.service.ts, auth.service.ts); still these hold.
LoginsSafe ==
    /\ OneClientPerTenant
    /\ ShownCredentialsWork
    /\ TokensWereEarned
=============================================================================
