--------------------------- MODULE Accounts_proofs ---------------------------
(***************************************************************************)
(* Proofs about Accounts, for any users, sessions, tokens, handlers and    *)
(* bounds.                                                                 *)
(*                                                                         *)
(* TypeCorrect       Spec => []TypeOK                                      *)
(* CredentialsOwned  Spec => []CredentialsHaveOwners                       *)
(* PasswordsEnd      Spec => []OldPasswordEndsSessions                     *)
(* LastAdminStays    Spec => LastAdminIsKept                               *)
(*                                                                         *)
(* The second and third are proved together, and are not inductive: a password change   *)
(* keeps the session it came with, and that its user is not disabled       *)
(* meanwhile is something a handler knows from the moment it began.  The   *)
(* last rests on what a handler that is alone has read: it is still so     *)
(* when it writes.                                                         *)
(***************************************************************************)
EXTENDS Accounts, LoginGuard, FiniteSetTheorems, SequenceTheorems, WellFoundedInduction, TLAPS

\* A handler is about a user.
Aimed(r) == req[r].at # "idle" => req[r].target \in Users

TypeInv == TypeOK /\ \A r \in Requests : Aimed(r)

\* The user of a session is there; what its row says agrees with the session, unless a
\* death has come between the two.
Owned(s) ==
    session[s] # NoSession =>
        /\ session[s].user \in Users /\ Present(session[s].user)
        /\ session[s].user \notin torn =>
              /\ ~user[session[s].user].disabled
              /\ session[s].pw = user[session[s].user].pw \/ session[s].kept

TokenOwned(t) == token[t] # Nobody => Present(token[t])

\* The session a handler came with, if it has not ended, is that of its caller, who has
\* not been disabled since.
Handled(r) ==
    req[r].at # "idle" /\ req[r].keep \in Sessions /\ session[req[r].keep] # NoSession =>
        /\ session[req[r].keep].user = req[r].by
        /\ ~user[req[r].by].disabled

Owners ==
    /\ \A s \in Sessions : Owned(s)
    /\ \A t \in Tokens : TokenOwned(t)
    /\ \A r \in Requests : Handled(r)

OwnersInv == TypeInv /\ Owners

-----------------------------------------------------------------------------
(* Types.                                                                  *)

\* Answers and commits move a handler along.
LEMMA AnswerType ==
    ASSUME TypeOK, NEW r \in Requests, NEW what \in Replies, Answer(r, what)
    PROVE  req' \in [Requests -> Request] /\ reply' \in [Requests -> Replies]
<1>1. Idle \in Request
    BY DEF Idle, Request, Steps, NoPatch
<1> QED
    BY <1>1 DEF TypeOK, Answer

LEMMA CommittedType ==
    ASSUME TypeOK, NEW r \in Requests, Committed(r)
    PROVE  req' \in [Requests -> Request] /\ reply' \in [Requests -> Replies]
BY SMTT(30) DEF TypeOK, Committed, Request, Steps

LEMMA EndedType ==
    ASSUME TypeOK, NEW u
    PROVE  Ended(u) \in [Sessions -> Session]
BY AccountsAssumption DEF TypeOK, Ended, Session, NoSession

LEMMA PatchedType ==
    ASSUME NEW row \in User, NEW patch \in Patches \cup {NoPatch}
    PROVE  /\ Patched(row, patch) \in User
           /\ Patched(row, patch).life = row.life /\ Patched(row, patch).pw = row.pw
           /\ patch.disabled # "yes" /\ ~row.disabled => ~Patched(row, patch).disabled
<1> DEFINE role == IF patch.role = "keep" THEN row.role ELSE patch.role
           disabled == CASE patch.disabled = "keep" -> row.disabled
                         [] patch.disabled = "yes" -> TRUE
                         [] patch.disabled = "no" -> FALSE
<1>1. patch.role \in Roles \cup {"keep"} /\ patch.disabled \in {"yes", "no", "keep"}
    BY AccountsAssumption DEF NoPatch
<1>2. row.role \in Roles /\ row.disabled \in BOOLEAN
    BY DEF User
<1>3. role \in Roles
    BY <1>1, <1>2
<1>4. /\ disabled \in BOOLEAN
      /\ patch.disabled # "yes" /\ ~row.disabled => ~disabled
    BY <1>1, <1>2
<1>5. Patched(row, patch) = [row EXCEPT !.role = role, !.disabled = disabled]
    BY DEF Patched
<1> HIDE DEF role, disabled
<1> QED
    BY <1>3, <1>4, <1>5 DEF User

LEMMA CallerType ==
    ASSUME TypeOK, NEW c \in Credentials
    PROVE  Caller(c) \in Users \cup {Root, Nobody}
BY AccountsAssumption DEF TypeOK, Credentials, Caller, Session

\* The finding of a row moves a handler along.
LEMMA FindType ==
    ASSUME TypeOK, NEW r \in Requests, Find(r)
    PROVE  req' \in [Requests -> Request] /\ reply' \in [Requests -> Replies]
<1>1. Guarded(r) \in BOOLEAN
    BY DEF Guarded, EnabledAdmin
<1>2. req[r] \in Request
    BY DEF TypeOK
<1>3. CASE Answer(r, "other")
    BY <1>3, AnswerType DEF Replies
<1>4. CASE /\ reply' = reply
           /\ req' = [req EXCEPT ![r] = [@ EXCEPT !.at = "commit", !.guarded = Guarded(r)]]
  <2> DEFINE row == [req[r] EXCEPT !.at = "commit", !.guarded = Guarded(r)]
  <2>1. row \in Request
      BY <1>1, <1>2 DEF Request, Steps
  <2>2. req' = [req EXCEPT ![r] = row]
      BY <1>4, Zenon
  <2> HIDE DEF row
  <2> QED
      BY <1>4, <2>1, <2>2 DEF TypeOK
<1>5. ASSUME NEW t \in Tokens, reply' = reply,
             req' = [req EXCEPT ![r] = [@ EXCEPT !.at = "commit", !.which = t]]
      PROVE  req' \in [Requests -> Request] /\ reply' \in [Requests -> Replies]
  <2> DEFINE row == [req[r] EXCEPT !.at = "commit", !.which = t]
  <2>1. row \in Request
      BY <1>2 DEF Request, Steps
  <2>2. req' = [req EXCEPT ![r] = row]
      BY <1>5, Zenon
  <2> HIDE DEF row
  <2> QED
      BY <1>5, <2>1, <2>2 DEF TypeOK
<1> QED
    BY <1>3, <1>4, <1>5 DEF Find

\* What a commit writes has its type.
LEMMA CommitType ==
    ASSUME TypeInv, NEW r \in Requests, Commit(r)
    PROVE  /\ user' \in [Users -> User] /\ session' \in [Sessions -> Session]
           /\ token' \in [Tokens -> Users \cup {Nobody}] /\ spent' \subseteq Tokens
<1> USE AccountsAssumption
<1>1. req[r].target \in Users /\ user[req[r].target] \in User
    BY DEF TypeInv, Aimed, Commit, TypeOK
<1>2. CASE Create(r)
  <2>1. \A role \in Roles :
           [life |-> "present", role |-> role, disabled |-> FALSE, pw |-> 0] \in User
      BY DEF User
  <2>2. ASSUME NEW role \in Roles,
               user' = [user EXCEPT ![req[r].target] =
                          [life |-> "present", role |-> role, disabled |-> FALSE, pw |-> 0]]
        PROVE  user' \in [Users -> User]
      BY <1>1, <2>1, <2>2 DEF TypeInv, TypeOK
  <2>3. user' \in [Users -> User]
      BY <1>2, <2>2 DEF TypeInv, TypeOK, Create
  <2> QED
      BY <1>2, <2>3 DEF TypeInv, TypeOK, Create
<1>3. CASE Update(r)
  <2>1. req[r].patch \in Patches \cup {NoPatch}
      BY DEF TypeInv, TypeOK, Request
  <2>2. Patched(user[req[r].target], req[r].patch) \in User
      BY <1>1, <2>1, PatchedType
  <2>3. user' \in [Users -> User]
      BY <1>3, <2>2 DEF TypeInv, TypeOK, Update
  <2> QED
      BY <1>3, <2>3, EndedType DEF TypeInv, TypeOK, Update
<1>4. CASE Delete(r)
    BY SMTT(30), <1>4, EndedType DEF TypeInv, TypeOK, Delete, User
<1>5. CASE SetPassword(r)
  <2>1. \A s \in Sessions : [session[s] EXCEPT !.kept = s = req[r].keep] \in Session
      BY ZenonT(40) DEF TypeInv, TypeOK, Session
  <2>2. NoSession \in Session
      BY DEF NoSession, Session
  <2>3. session' \in [Sessions -> Session]
      BY <1>5, <2>1, <2>2 DEF TypeInv, TypeOK, SetPassword
  <2> QED
      BY <1>5, <2>3 DEF TypeInv, TypeOK, SetPassword, User
<1>6. CASE CreateToken(r)
    BY <1>1, <1>6 DEF TypeInv, TypeOK, CreateToken
<1>7. CASE Revoke(r)
    BY <1>7 DEF TypeInv, TypeOK, Revoke
<1> QED
    BY <1>2, <1>3, <1>4, <1>5, <1>6, <1>7 DEF Commit

\* A commit answers or moves along.
LEMMA CommitMoves ==
    ASSUME TypeInv, NEW r \in Requests, Commit(r)
    PROVE  Committed(r) \/ \E what \in Replies : Answer(r, what)
BY DEF Commit, Create, Update, Delete, SetPassword, CreateToken, Revoke, Replies

\* What a death leaves written has its type.
LEMMA DieType ==
    ASSUME TypeInv, Die
    PROVE  user' \in [Users -> User] /\ torn' \subseteq Users
<1>1. ASSUME NEW r \in Requests, FirstStatement(r)
      PROVE  user' \in [Users -> User] /\ torn' \subseteq Users
  <2>1. req[r].target \in Users /\ user[req[r].target] \in User
      BY <1>1 DEF TypeInv, Aimed, FirstStatement, TypeOK
  <2>2. req[r].patch \in Patches \cup {NoPatch}
      BY DEF TypeInv, TypeOK, Request
  <2>3. Patched(user[req[r].target], req[r].patch) \in User
      BY <2>1, <2>2, PatchedType
  <2>4. user' \in [Users -> User]
      BY AccountsAssumption, <1>1, <2>1, <2>3 DEF TypeInv, TypeOK, FirstStatement, User
  <2> QED
      BY <1>1, <2>1, <2>4 DEF TypeInv, TypeOK, FirstStatement
<1> QED
    BY <1>1 DEF Die, TypeInv, TypeOK

\* Handlers that run on remember whom they are about, whose they are and what they came
\* with.
Remembered ==
    \A q \in Requests : req'[q].at # "idle" =>
        /\ req[q].at # "idle" /\ req'[q].target = req[q].target
        /\ req'[q].keep = req[q].keep /\ req'[q].by = req[q].by

LEMMA Remembers ==
    ASSUME TypeInv, NEW r \in Requests,
           \/ Committed(r) /\ req[r].at = "commit"
           \/ \E what \in Replies : Answer(r, what)
    PROVE  Remembered
BY DEF TypeInv, TypeOK, Committed, Request, Answer, Remembered, Idle

LEMMA FindRemembers ==
    ASSUME TypeInv, NEW r \in Requests, Find(r)
    PROVE  Remembered
<1>1. CASE Answer(r, "other")
    BY <1>1, Remembers DEF Replies
<1>2. ASSUME NEW row, req' = [req EXCEPT ![r] = row],
             row.target = req[r].target, row.keep = req[r].keep, row.by = req[r].by
      PROVE  Remembered
    BY <1>2 DEF TypeInv, TypeOK, Find, Remembered
<1>3. CASE req' = [req EXCEPT ![r] = [@ EXCEPT !.at = "commit", !.guarded = Guarded(r)]]
  <2> DEFINE row == [req[r] EXCEPT !.at = "commit", !.guarded = Guarded(r)]
  <2>1. row.target = req[r].target /\ row.keep = req[r].keep /\ row.by = req[r].by
      BY DEF TypeInv, TypeOK, Request
  <2>2. req' = [req EXCEPT ![r] = row]
      BY <1>3, Zenon
  <2> HIDE DEF row
  <2> QED
      BY <1>2, <2>1, <2>2
<1>4. ASSUME NEW t \in Tokens,
             req' = [req EXCEPT ![r] = [@ EXCEPT !.at = "commit", !.which = t]]
      PROVE  Remembered
  <2> DEFINE row == [req[r] EXCEPT !.at = "commit", !.which = t]
  <2>1. row.target = req[r].target /\ row.keep = req[r].keep /\ row.by = req[r].by
      BY DEF TypeInv, TypeOK, Request
  <2>2. req' = [req EXCEPT ![r] = row]
      BY <1>4, Zenon
  <2> HIDE DEF row
  <2> QED
      BY <1>2, <2>1, <2>2
<1> QED
    BY <1>1, <1>3, <1>4 DEF Find

\* Every step preserves the types.
LEMMA NextTypeInv == TypeInv /\ [Next]_vars => TypeInv'
<1> SUFFICES ASSUME TypeInv, [Next]_vars PROVE TypeInv'
    OBVIOUS
<1> USE AccountsAssumption
<1>1. ASSUME Remembered PROVE \A r \in Requests : Aimed(r)'
    BY <1>1 DEF TypeInv, Aimed, Remembered
<1>2. ASSUME NEW s \in Sessions, EndSession(s) PROVE TypeInv'
    BY <1>2 DEF TypeInv, TypeOK, Aimed, EndSession, Session, NoSession
<1>3. ASSUME NEW s \in Sessions, NEW u \in Users, Login(s, u) PROVE TypeInv'
    BY <1>3 DEF TypeInv, TypeOK, Aimed, Login, Session, User
<1>4. ASSUME NEW r \in Requests, NEW c \in Credentials, NEW kind \in Kinds, NEW u \in Users,
             NEW patch \in Patches \cup {NoPatch}, Begin(r, c, kind, u, patch)
      PROVE  TypeInv'
  <2>1. Caller(c) \in Users \cup {Root, Nobody}
      BY CallerType DEF TypeInv
  <2>2. req' \in [Requests -> Request]
      BY <1>4, <2>1 DEF TypeInv, TypeOK, Begin, Request, Steps, Kinds
  <2>3. \A q \in Requests : Aimed(q)'
      BY <1>4 DEF TypeInv, TypeOK, Begin, Aimed
  <2> QED
      BY <1>4, <2>2, <2>3 DEF TypeInv, TypeOK, Begin, Replies
<1>5. ASSUME NEW r \in Requests, Find(r) PROVE TypeInv'
  <2>1. req' \in [Requests -> Request] /\ reply' \in [Requests -> Replies]
      BY <1>5, FindType DEF TypeInv
  <2>2. Remembered
      BY <1>5, FindRemembers
  <2> QED
      BY <1>1, <1>5, <2>1, <2>2 DEF TypeInv, TypeOK, Find
<1>6. ASSUME NEW r \in Requests, Commit(r) PROVE TypeInv'
  <2>1. torn' \subseteq Users /\ begun' = begun /\ mishaps' = mishaps /\ overlapped' = overlapped
      BY <1>6 DEF TypeInv, TypeOK, Commit
  <2>2. req' \in [Requests -> Request] /\ reply' \in [Requests -> Replies]
      BY <1>6, CommitMoves, AnswerType, CommittedType DEF TypeInv
  <2>3. Remembered
      BY <1>6, CommitMoves, Remembers DEF Commit
  <2> QED
      BY <1>1, <1>6, <2>1, <2>2, <2>3, CommitType DEF TypeInv, TypeOK
<1>7. ASSUME NEW r \in Requests, RecordAudit(r) \/ DropHandler(r) PROVE TypeInv'
  <2>1. Answer(r, "other") /\ "other" \in Replies
      BY <1>7 DEF RecordAudit, DropHandler, Replies
  <2>2. req' \in [Requests -> Request] /\ reply' \in [Requests -> Replies]
      BY <2>1, AnswerType DEF TypeInv
  <2>3. Remembered
      BY <2>1, Remembers
  <2> QED
      BY <1>1, <1>7, <2>2, <2>3 DEF TypeInv, TypeOK, RecordAudit, DropHandler
<1>8. ASSUME Die PROVE TypeInv'
  <2>1. Idle \in Request
      BY DEF Idle, Request, Steps, NoPatch
  <2>2. \A r \in Requests : Aimed(r)'
      BY <1>8 DEF Die, Aimed, Idle
  <2> QED
      BY <1>8, <2>1, <2>2, DieType DEF TypeInv, TypeOK, Die, Replies
<1>9. CASE UNCHANGED vars
    BY <1>9 DEF TypeInv, TypeOK, Aimed, vars
<1> QED
    BY <1>2, <1>3, <1>4, <1>5, <1>6, <1>7, <1>8, <1>9 DEF Next

LEMMA InitTypeInv == Init => TypeInv
<1> SUFFICES ASSUME Init PROVE TypeInv
    OBVIOUS
<1> USE AccountsAssumption
<1>1. Idle \in Request
    BY DEF Idle, Request, Steps, NoPatch
<1>2. NoSession \in Session
    BY DEF NoSession, Session
<1>3. user \in [Users -> User]
    BY DEF Init
<1>4. \A r \in Requests : Aimed(r)
    BY DEF Init, Aimed, Idle
<1>5. session \in [Sessions -> Session] /\ req \in [Requests -> Request]
    BY <1>1, <1>2, Zenon DEF Init
<1>6. token \in [Tokens -> Users \cup {Nobody}] /\ reply \in [Requests -> Replies]
    BY Zenon DEF Init, Replies
<1>7. begun = 0 /\ mishaps = 0 /\ overlapped = FALSE /\ torn = {} /\ spent = {}
    BY Zenon DEF Init
<1>8. begun \in 0 .. MaxRequests /\ mishaps \in 0 .. MaxMishaps
    BY <1>7
<1>9. overlapped \in BOOLEAN /\ torn \subseteq Users /\ spent \subseteq Tokens
    BY <1>7
<1> QED
    BY <1>3, <1>4, <1>5, <1>6, <1>8, <1>9, Zenon DEF TypeInv, TypeOK

\* Every variable keeps its type.
THEOREM TypeCorrect == Spec => []TypeOK
<1>1. Init => TypeInv
    BY InitTypeInv
<1>2. TypeInv /\ [Next]_vars => TypeInv'
    BY NextTypeInv
<1>3. TypeInv => TypeOK
    BY DEF TypeInv
<1> QED
    BY <1>1, <1>2, <1>3, PTL DEF Spec

-----------------------------------------------------------------------------
(* Owners.                                                                 *)

\* Nothing begins and no user changes: credentials only end.
LEMMA Quiet ==
    ASSUME OwnersInv, TypeInv', Remembered, user' = user, torn' = torn,
           \A s \in Sessions : session'[s] \in {session[s], NoSession},
           \A t \in Tokens : token'[t] \in {token[t], Nobody}
    PROVE  Owners'
<1>1. \A s \in Sessions : Owned(s)'
    BY DEF OwnersInv, Owners, Owned, Present
<1>2. \A t \in Tokens : TokenOwned(t)'
    BY DEF OwnersInv, Owners, TokenOwned, Present
<1>3. \A r \in Requests : Handled(r)'
    BY DEF OwnersInv, Owners, Handled, Remembered
<1> QED
    BY <1>1, <1>2, <1>3 DEF Owners

\* One user changes: what its credentials then say agrees with its row, and if it is
\* disabled its sessions have ended, or every handler has.
LEMMA Changed ==
    ASSUME OwnersInv, TypeInv', Remembered, NEW u \in Users,
           \A v \in Users \ {u} : user'[v] = user[v] /\ (v \in torn => v \in torn'),
           \A s \in Sessions : session[s].user # u => session'[s] = session[s],
           \A s \in Sessions : session[s].user = u /\ session'[s] # NoSession =>
              /\ session'[s].user = u /\ Present(u)'
              /\ u \notin torn' =>
                    ~user'[u].disabled /\ (session'[s].pw = user'[u].pw \/ session'[s].kept),
           \A t \in Tokens : token'[t] \in {token[t], Nobody, u}
                             /\ (token'[t] = u => Present(u)'),
           \/ user'[u].disabled = user[u].disabled \/ ~user'[u].disabled
           \/ \A s \in Sessions : session[s].user = u => session'[s] = NoSession
           \/ \A q \in Requests : req'[q].at = "idle"
    PROVE  Owners'
<1>1. \A s \in Sessions : Owned(s)'
  <2> SUFFICES ASSUME NEW s \in Sessions, session'[s] # NoSession PROVE Owned(s)'
      BY DEF Owned
  <2>1. CASE session[s].user = u
      BY <2>1 DEF Owned
  <2>2. CASE session[s].user # u
      BY <2>2 DEF OwnersInv, Owners, Owned, Present
  <2> QED
      BY <2>1, <2>2
<1>2. \A t \in Tokens : TokenOwned(t)'
  <2> SUFFICES ASSUME NEW t \in Tokens, token'[t] # Nobody PROVE Present(token[t])'
      BY DEF TokenOwned
  <2>1. CASE token'[t] = u
      BY <2>1 DEF Present
  <2>2. CASE token'[t] # u
    <3>1. token'[t] = token[t] /\ token[t] \in Users
        BY <2>2 DEF OwnersInv, TypeInv, TypeOK
    <3> QED
        BY <2>2, <3>1 DEF OwnersInv, Owners, TokenOwned, Present
  <2> QED
      BY <2>1, <2>2
<1>3. \A r \in Requests : Handled(r)'
  <2> SUFFICES ASSUME NEW r \in Requests, req'[r].at # "idle",
                      req'[r].keep \in Sessions, session'[req'[r].keep] # NoSession
               PROVE  /\ session'[req'[r].keep].user = req'[r].by
                      /\ ~user'[req'[r].by].disabled
      BY DEF Handled
  <2>1. req[r].at # "idle" /\ req'[r].keep = req[r].keep /\ req'[r].by = req[r].by
      BY DEF Remembered
  <2>2. session[req[r].keep] # NoSession
      BY <2>1, AccountsAssumption DEF NoSession
  <2>3. session[req[r].keep].user = req[r].by /\ ~user[req[r].by].disabled
        /\ req[r].by \in Users
      BY <2>1, <2>2 DEF OwnersInv, Owners, Handled, Owned
  <2>4. CASE req[r].by = u
      BY <2>1, <2>3, <2>4
  <2>5. CASE req[r].by # u
      BY <2>1, <2>3, <2>5
  <2> QED
      BY <2>4, <2>5
<1> QED
    BY <1>1, <1>2, <1>3 DEF Owners

\* A login makes a session nobody came with, for a user who is there and not disabled.
LEMMA LoginOwners ==
    ASSUME OwnersInv, NEW s \in Sessions, NEW u \in Users, Login(s, u)
    PROVE  Owners'
<1>1. \A x \in Sessions : Owned(x)'
    BY DEF OwnersInv, TypeInv, TypeOK, Owners, Owned, Login, Present
<1>2. \A t \in Tokens : TokenOwned(t)'
    BY DEF OwnersInv, Owners, TokenOwned, Login, Present
<1>3. \A r \in Requests : Handled(r)'
    BY DEF OwnersInv, TypeInv, TypeOK, Owners, Handled, Login
<1> QED
    BY <1>1, <1>2, <1>3 DEF Owners

\* A handler begins with the session of a caller who is not disabled.
LEMMA BeginOwners ==
    ASSUME OwnersInv, NEW r \in Requests, NEW c \in Credentials, NEW kind \in Kinds,
           NEW u \in Users, NEW patch \in Patches \cup {NoPatch}, Begin(r, c, kind, u, patch)
    PROVE  Owners'
<1>1. ASSUME c \in Sessions, session[c] # NoSession
      PROVE  session[c].user = Caller(c) /\ ~user[Caller(c)].disabled
    BY <1>1, AccountsAssumption DEF Begin, Caller
<1>2. Handled(r)'
    BY <1>1, AccountsAssumption DEF OwnersInv, TypeInv, TypeOK, Begin, Handled
<1>3. \A q \in Requests \ {r} : Handled(q)'
    BY DEF OwnersInv, TypeInv, TypeOK, Owners, Begin, Handled
<1>4. \A s \in Sessions : Owned(s)'
    BY DEF OwnersInv, Owners, Begin, Owned, Present
<1>5. \A t \in Tokens : TokenOwned(t)'
    BY DEF OwnersInv, Owners, TokenOwned, Begin, Present
<1> QED
    BY <1>2, <1>3, <1>4, <1>5 DEF Owners

\* A commit, with what it knows of its user.
LEMMA UpdateOwners ==
    ASSUME OwnersInv, TypeInv', NEW r \in Requests, Commit(r), Update(r)
    PROVE  Owners'
<1> DEFINE patch == req[r].patch
<1>0. PICK u \in Users : u = req[r].target
    BY DEF OwnersInv, TypeInv, Aimed, Commit
<1>1. Remembered
    BY CommitMoves, Remembers DEF OwnersInv, Commit
<1>2. CASE LastAdmin(r)
    BY <1>0, <1>1, <1>2, Quiet DEF Commit, Update
<1>3. CASE ~LastAdmin(r)
  <2>1. /\ user' = IF Present(u) THEN [user EXCEPT ![u] = Patched(user[u], patch)] ELSE user
        /\ session' = IF patch.disabled = "yes" THEN Ended(u) ELSE session
        /\ token' = token
      BY <1>0, <1>3 DEF Update
  <2>2. /\ Patched(user[u], patch).life = user[u].life
        /\ Patched(user[u], patch).pw = user[u].pw
        /\ patch.disabled # "yes" /\ ~user[u].disabled => ~Patched(user[u], patch).disabled
    <3>1. user[u] \in User /\ patch \in Patches \cup {NoPatch}
        BY <1>0, <1>1 DEF OwnersInv, TypeInv, TypeOK, Request
    <3> QED
        BY <1>0, <3>1, PatchedType
  <2>3. /\ \A v \in Users \ {u} : user'[v] = user[v]
        /\ user'[u].life = user[u].life /\ user'[u].pw = user[u].pw
        /\ patch.disabled # "yes" /\ ~user[u].disabled => ~user'[u].disabled
      BY <1>0, <1>1, <2>1, <2>2 DEF OwnersInv, TypeInv, TypeOK
  <2>4. \A v \in Users \ {u} : v \in torn => v \in torn'
      BY <1>0 DEF Commit
  <2>5. \A s \in Sessions : session[s].user # u => session'[s] = session[s]
      BY <1>0, <2>1 DEF Ended
  <2>6. CASE patch.disabled = "yes"
    <3>1. \A s \in Sessions : session[s].user = u => session'[s] = NoSession
        BY <1>0, <2>1, <2>6 DEF Ended
    <3>2. \A t \in Tokens : token'[t] \in {token[t], Nobody, u}
                            /\ (token'[t] = u => Present(u)')
        BY <1>0, <1>1, <2>1, <2>3, AccountsAssumption
           DEF OwnersInv, Owners, TokenOwned, Present
    <3> HIDE DEF patch
    <3> QED
        BY <1>0, <1>1, <2>3, <2>4, <2>5, <3>1, <3>2, Changed
  <2>7. CASE patch.disabled # "yes"
    <3>1. session' = session /\ torn' = torn
        BY <1>0, <2>1, <2>7 DEF Commit
    <3>2. \A s \in Sessions : session[s].user = u /\ session'[s] # NoSession =>
              /\ session'[s].user = u /\ Present(u)'
              /\ u \notin torn' =>
                    ~user'[u].disabled /\ (session'[s].pw = user'[u].pw \/ session'[s].kept)
        BY <1>0, <2>3, <2>7, <3>1 DEF OwnersInv, Owners, Owned, Present
    <3>3. \A t \in Tokens : token'[t] \in {token[t], Nobody, u}
                            /\ (token'[t] = u => Present(u)')
        BY <1>0, <1>1, <2>1, <2>3, AccountsAssumption
           DEF OwnersInv, Owners, TokenOwned, Present
    <3>4. user'[u].disabled = user[u].disabled \/ ~user'[u].disabled
        BY <1>0, <1>1, <2>3, <2>7 DEF TypeInv, TypeOK, User, OwnersInv
    <3> HIDE DEF patch
    <3> QED
        BY <1>0, <1>1, <2>3, <2>4, <2>5, <3>2, <3>3, <3>4, Changed
  <2> QED
      BY <1>0, <2>6, <2>7
<1> QED
    BY <1>0, <1>2, <1>3

LEMMA DeleteOwners ==
    ASSUME OwnersInv, TypeInv', NEW r \in Requests, Commit(r), Delete(r)
    PROVE  Owners'
<1>0. PICK u \in Users : u = req[r].target
    BY DEF OwnersInv, TypeInv, Aimed, Commit
<1>1. Remembered
    BY CommitMoves, Remembers DEF OwnersInv, Commit
<1>2. CASE LastAdmin(r)
    BY <1>0, <1>1, <1>2, Quiet DEF Commit, Delete
<1>3. CASE ~LastAdmin(r)
  <2>1. \A v \in Users \ {u} : user'[v] = user[v] /\ (v \in torn => v \in torn')
      BY <1>0, <1>3 DEF Commit, Delete, OwnersInv, TypeInv, TypeOK
  <2>2. \A s \in Sessions : session[s].user # u => session'[s] = session[s]
      BY <1>0, <1>3 DEF Delete, Ended
  <2>3. \A s \in Sessions : session[s].user = u => session'[s] = NoSession
      BY <1>0, <1>3 DEF Delete, Ended
  <2>4. \A t \in Tokens : token'[t] \in {token[t], Nobody} /\ token'[t] # u
      BY <1>0, <1>1, <1>3, AccountsAssumption DEF Delete
  <2> QED
      BY <1>0, <1>1, <2>1, <2>2, <2>3, <2>4, Changed
<1> QED
    BY <1>0, <1>2, <1>3

LEMMA CreateOwners ==
    ASSUME OwnersInv, TypeInv', NEW r \in Requests, Commit(r), Create(r)
    PROVE  Owners'
<1>0. PICK u \in Users : u = req[r].target
    BY DEF OwnersInv, TypeInv, Aimed, Commit
<1>1. Remembered
    BY CommitMoves, Remembers DEF OwnersInv, Commit
<1>2. session' = session /\ token' = token /\ torn' = torn
    BY <1>0 DEF Commit, Create
<1>3. CASE user' = user
    BY <1>0, <1>1, <1>2, <1>3, Quiet
<1>4. ASSUME user[u].life = "absent", NEW role \in Roles,
             user' = [user EXCEPT ![u] = [life |-> "present", role |-> role,
                                          disabled |-> FALSE, pw |-> 0]]
      PROVE  Owners'
  <2>1. \A v \in Users \ {u} : user'[v] = user[v] /\ (v \in torn => v \in torn')
      BY <1>0, <1>2, <1>4 DEF OwnersInv, TypeInv, TypeOK
  <2>2. ~user'[u].disabled /\ Present(u)'
      BY <1>0, <1>1, <1>4 DEF OwnersInv, TypeInv, TypeOK, Present
  <2>3. \A s \in Sessions : session[s].user # u
      BY <1>0, <1>1, <1>4, AccountsAssumption DEF OwnersInv, Owners, Owned, Present, NoSession
  <2>4. \A t \in Tokens : token'[t] \in {token[t], Nobody, u}
      BY <1>0, <1>2
  <2> QED
      BY <1>0, <1>1, <1>2, <2>1, <2>2, <2>3, <2>4, Changed
<1> QED
    BY <1>0, <1>3, <1>4 DEF Create

\* The one session that survives is that of a caller who changes the own password, and
\* that caller has not been disabled meanwhile.
LEMMA SetPasswordOwners ==
    ASSUME OwnersInv, TypeInv', NEW r \in Requests, Commit(r), SetPassword(r)
    PROVE  Owners'
<1>0. PICK u \in Users : u = req[r].target
    BY DEF OwnersInv, TypeInv, Aimed, Commit
<1>1. Remembered
    BY CommitMoves, Remembers DEF OwnersInv, Commit
<1>2. CASE user' = user /\ session' = session
    BY <1>0, <1>1, <1>2, Quiet DEF Commit, SetPassword
<1>3. CASE /\ Present(u)
           /\ user' = [user EXCEPT ![u].pw = @ + 1]
           /\ session' = [s \in Sessions |->
                           IF session[s].user # u THEN session[s]
                           ELSE IF Spared(r, s)
                                THEN [session[s] EXCEPT !.kept = s = req[r].keep]
                                ELSE NoSession]
  <2>1. \A v \in Users \ {u} : user'[v] = user[v] /\ (v \in torn => v \in torn')
      BY <1>0, <1>3 DEF Commit, OwnersInv, TypeInv, TypeOK
  <2>2. user'[u].disabled = user[u].disabled /\ Present(u)'
      BY <1>0, <1>1, <1>3 DEF OwnersInv, TypeInv, TypeOK, User, Present
  <2>3. \A s \in Sessions : session[s].user # u => session'[s] = session[s]
      BY <1>3 DEF Spared
  <2>4. \A s \in Sessions : session[s].user = u /\ s # req[r].keep => session'[s] = NoSession
      BY <1>0, <1>3 DEF Spared
  <2>5. \A s \in Sessions : session[s].user = u /\ s = req[r].keep =>
           session'[s].user = u /\ session'[s].kept /\ ~user[u].disabled
    <3> SUFFICES ASSUME NEW s \in Sessions, session[s].user = u, s = req[r].keep
                 PROVE  session'[s].user = u /\ session'[s].kept /\ ~user[u].disabled
        OBVIOUS
    <3>1. session'[s] = [session[s] EXCEPT !.kept = s = req[r].keep]
        BY <1>0, <1>3 DEF Spared
    <3>2. session[s] \in Session
        BY DEF OwnersInv, TypeInv, TypeOK
    <3>3. session'[s].user = u
        BY <1>0, <3>1, <3>2 DEF Session
    <3>4. session'[s].kept = (s = req[r].keep)
        BY <1>0, <3>1, <3>2 DEF Session
    <3>5. session[s] # NoSession
        BY <1>0, <1>1, AccountsAssumption DEF NoSession
    <3>6. user[req[r].by].disabled = FALSE /\ req[r].by = u
        BY <1>0, <3>5 DEF OwnersInv, Owners, Handled, Commit
    <3> QED
        BY <1>0, <3>3, <3>4, <3>6
  <2>6. \A t \in Tokens : token'[t] \in {token[t], Nobody, u}
      BY <1>0 DEF SetPassword
  <2> QED
      BY <1>0, <1>1, <2>1, <2>2, <2>3, <2>4, <2>5, <2>6, Changed
<1> QED
    BY <1>0, <1>2, <1>3 DEF SetPassword

LEMMA CommitOwners ==
    ASSUME OwnersInv, TypeInv', NEW r \in Requests, Commit(r)
    PROVE  Owners'
<1>0. PICK u \in Users : u = req[r].target
    BY DEF OwnersInv, TypeInv, Aimed, Commit
<1>1. Remembered
    BY CommitMoves, Remembers DEF OwnersInv, Commit
<1>2. CASE CreateToken(r)
  <2>1. user' = user /\ session' = session /\ torn' = torn
      BY <1>0, <1>2 DEF Commit, CreateToken
  <2>2. CASE Present(u)
    <3>1. \A t \in Tokens : token'[t] \in {token[t], Nobody, u}
        BY <1>0, <1>2, <2>2 DEF CreateToken, OwnersInv, TypeInv, TypeOK
    <3>2. Present(u)'
        BY <1>0, <2>1, <2>2, <1>1 DEF Present
    <3>3. \A s \in Sessions : session[s].user = u /\ session'[s] # NoSession =>
              /\ session'[s].user = u
              /\ u \notin torn' =>
                    /\ ~user'[u].disabled
                    /\ session'[s].pw = user'[u].pw \/ session'[s].kept
        BY <1>0, <2>1 DEF OwnersInv, Owners, Owned
    <3> QED
        BY <1>0, <1>1, <2>1, <3>1, <3>2, <3>3, Changed
  <2>3. CASE ~Present(u)
      BY <1>0, <1>1, <1>2, <2>1, <2>3, Quiet DEF CreateToken
  <2> QED
      BY <1>0, <2>2, <2>3
<1>3. CASE Revoke(r)
  <2>1. user' = user /\ session' = session /\ torn' = torn
      BY <1>0, <1>3 DEF Commit, Revoke
  <2>2. \A t \in Tokens : token'[t] \in {token[t], Nobody}
      BY <1>0, <1>3 DEF Revoke, OwnersInv, TypeInv, TypeOK
  <2> QED
      BY <1>0, <1>1, <2>1, <2>2, Quiet
<1> QED
    BY <1>0, <1>2, <1>3, CreateOwners, UpdateOwners, DeleteOwners, SetPasswordOwners DEF Commit

\* A death ends every handler, and leaves a user whose sessions should have ended torn.
LEMMA DieOwners ==
    ASSUME OwnersInv, TypeInv', Die
    PROVE  Owners'
<1>1. Remembered /\ \A q \in Requests : req'[q].at = "idle"
    BY DEF Die, Remembered, Idle
<1>2. session' = session /\ token' = token
    BY DEF Die
<1>3. CASE user' = user /\ torn' = torn
    BY <1>1, <1>2, <1>3, Quiet
<1>4. ASSUME NEW r \in Requests, FirstStatement(r)
      PROVE  Owners'
  <2>0. PICK u \in Users : u = req[r].target
      BY <1>4 DEF FirstStatement, OwnersInv, TypeInv, Aimed
  <2>1. Present(u) /\ torn' = torn \cup {u}
      BY <1>4, <2>0 DEF FirstStatement, OwnersInv, TypeInv, Aimed
  <2>2. \A v \in Users \ {u} : user'[v] = user[v]
      BY <1>4, <2>0 DEF FirstStatement, OwnersInv, TypeInv, TypeOK
  <2>3. Present(u)'
    <3>1. Patched(user[u], req[r].patch).life = user[u].life
      <4>1. user[u] \in User /\ req[r].patch \in Patches \cup {NoPatch}
          BY <2>0 DEF OwnersInv, TypeInv, TypeOK, Request
      <4> QED
          BY <4>1, PatchedType
    <3> QED
        BY <1>4, <2>0, <2>1, <3>1 DEF FirstStatement, OwnersInv, TypeInv, TypeOK, User, Present
  <2> QED
      BY <1>1, <1>2, <2>1, <2>2, <2>3, Changed
<1> QED
    BY <1>3, <1>4 DEF Die

LEMMA NextOwners == OwnersInv /\ [Next]_vars => OwnersInv'
<1> SUFFICES ASSUME OwnersInv, [Next]_vars PROVE Owners'
    BY NextTypeInv DEF OwnersInv
<1>0. TypeInv'
    BY NextTypeInv DEF OwnersInv
<1>1. ASSUME NEW s \in Sessions, EndSession(s) PROVE Owners'
  <2>1. Remembered
      BY <1>1 DEF EndSession, Remembered
  <2>2. \A x \in Sessions : session'[x] \in {session[x], NoSession}
      BY <1>1 DEF EndSession, OwnersInv, TypeInv, TypeOK
  <2> QED
      BY <1>0, <1>1, <2>1, <2>2, Quiet DEF EndSession
<1>2. ASSUME NEW r \in Requests, Find(r) PROVE Owners'
  <2>1. Remembered
      BY <1>2, FindRemembers DEF OwnersInv
  <2> QED
      BY <1>0, <1>2, <2>1, Quiet DEF Find
<1>3. ASSUME NEW r \in Requests, RecordAudit(r) \/ DropHandler(r) PROVE Owners'
  <2>1. Remembered
      BY <1>3, Remembers DEF RecordAudit, DropHandler, Replies, OwnersInv
  <2> QED
      BY <1>0, <1>3, <2>1, Quiet DEF RecordAudit, DropHandler
<1>4. CASE UNCHANGED vars
  <2>1. Remembered
      BY <1>4 DEF vars, Remembered
  <2> QED
      BY <1>0, <1>4, <2>1, Quiet DEF vars
<1> QED
    BY <1>0, <1>1, <1>2, <1>3, <1>4, LoginOwners, BeginOwners, CommitOwners, DieOwners DEF Next

LEMMA InitOwners == Init => OwnersInv
<1> SUFFICES ASSUME Init PROVE Owners
    BY InitTypeInv DEF OwnersInv
<1>1. /\ session = [s \in Sessions |-> NoSession] /\ token = [t \in Tokens |-> Nobody]
      /\ req = [r \in Requests |-> Idle]
    BY Zenon DEF Init
<1> QED
    BY <1>1 DEF Owners, Owned, TokenOwned, Handled, Idle

\* The owners hold throughout.
LEMMA OwnersHold == Spec => []OwnersInv
<1> QED
    BY InitOwners, NextOwners, PTL DEF Spec

\* A session belongs to a present user who is not disabled, a token to a present one.
THEOREM CredentialsOwned == Spec => []CredentialsHaveOwners
<1>1. OwnersInv => CredentialsHaveOwners
    BY DEF OwnersInv, TypeInv, Owners, Owned, TokenOwned, CredentialsHaveOwners
<1> QED
    BY <1>1, OwnersHold, PTL

\* No session outlives the password it was opened with, but the one that was spared.
THEOREM PasswordsEnd == Spec => []OldPasswordEndsSessions
<1>1. OwnersInv => OldPasswordEndsSessions
    BY DEF OwnersInv, Owners, Owned, OldPasswordEndsSessions
<1> QED
    BY <1>1, OwnersHold, PTL

-----------------------------------------------------------------------------
(* The last admin.                                                         *)

\* One handler runs at most, ...
Solo == \A q, r \in Requests : req[q].at # "idle" /\ req[r].at # "idle" => q = r

\* ... and what it has read of the user it is about to write is so.
Informed(r) ==
    req[r].at = "commit" /\ req[r].kind \in {"update", "delete"} =>
        Present(req[r].target) /\ req[r].guarded = Guarded(r)

AdminInv ==
    TypeInv /\ (~overlapped => EnabledAdmins # {} /\ Solo /\ \A r \in Requests : Informed(r))

\* What the count of enabled admins says of one of them.
LEMMA LastOrNot ==
    ASSUME NEW u \in Users, EnabledAdmin(u)
    PROVE  /\ Cardinality(EnabledAdmins) <= 1 => EnabledAdmins = {u}
           /\ Cardinality(EnabledAdmins) <= 1 \/ \E v \in Users \ {u} : EnabledAdmin(v)
<1>1. IsFiniteSet(EnabledAdmins)
    BY AccountsAssumption, FS_Subset DEF EnabledAdmins
<1>2. Cardinality(EnabledAdmins) \in Nat
    BY <1>1, FS_CardinalityType
<1>3. u \in EnabledAdmins
    BY DEF EnabledAdmins
<1>4. Cardinality(EnabledAdmins) # 0
    BY <1>1, <1>3, FS_EmptySet
<1>5. ASSUME Cardinality(EnabledAdmins) <= 1 PROVE EnabledAdmins = {u}
  <2>1. Cardinality(EnabledAdmins) = 1
      BY <1>2, <1>4, <1>5
  <2> QED
      BY <1>1, <1>3, <2>1, FS_Singleton
<1>6. ASSUME \A v \in Users \ {u} : ~EnabledAdmin(v)
      PROVE  Cardinality(EnabledAdmins) <= 1
  <2>1. EnabledAdmins = {u}
      BY <1>3, <1>6 DEF EnabledAdmins
  <2>2. Cardinality(EnabledAdmins) = 1
      BY <2>1, FS_Singleton
  <2> QED
      BY <2>2
<1> QED
    BY <1>5, <1>6

\* A patch that takes nothing leaves an enabled admin one.
LEMMA PatchKeepsAdmin ==
    ASSUME NEW row \in User, NEW patch \in Patches \cup {NoPatch}, ~TakesAdmin(patch),
           row.role = "admin", ~row.disabled
    PROVE  Patched(row, patch).role = "admin" /\ ~Patched(row, patch).disabled
<1> DEFINE role == IF patch.role = "keep" THEN row.role ELSE patch.role
           disabled == CASE patch.disabled = "keep" -> row.disabled
                         [] patch.disabled = "yes" -> TRUE
                         [] patch.disabled = "no" -> FALSE
<1>1. patch.role \in {"admin", "keep"} /\ patch.disabled \in {"no", "keep"}
    BY AccountsAssumption DEF NoPatch, TakesAdmin, Roles
<1>2. role = "admin" /\ disabled = FALSE
  <2>1. row.disabled = FALSE
      BY DEF User
  <2> QED
      BY <1>1, <2>1
<1>3. Patched(row, patch) = [row EXCEPT !.role = role, !.disabled = disabled]
    BY DEF Patched
<1> HIDE DEF role, disabled
<1> QED
    BY <1>2, <1>3 DEF User

\* A write that the check let through leaves an enabled admin.
LEMMA WriteKeepsAdmin ==
    ASSUME AdminInv, ~overlapped, NEW r \in Requests, NEW u \in Users, u = req[r].target,
           req[r].at = "commit", req[r].kind \in {"update", "delete"}, ~LastAdmin(r),
           \A v \in Users \ {u} : user'[v] = user[v],
           req[r].kind = "update" => user'[u] \in {user[u], Patched(user[u], req[r].patch)}
    PROVE  EnabledAdmins' # {}
<1> SUFFICES \E v \in Users : EnabledAdmin(v)'
    BY DEF EnabledAdmins
<1>1. req[r].guarded = Guarded(r)
    BY DEF AdminInv, Informed
<1>2. \A v \in Users \ {u} : EnabledAdmin(v) => EnabledAdmin(v)'
    BY DEF EnabledAdmin, Present
<1>3. CASE EnabledAdmin(u) /\ Guarded(r)
    BY <1>1, <1>2, <1>3, LastOrNot DEF LastAdmin
<1>4. CASE EnabledAdmin(u) /\ ~Guarded(r)
  <2>1. req[r].kind = "update" /\ ~TakesAdmin(req[r].patch)
      BY <1>4 DEF Guarded
  <2>2. user[u] \in User /\ req[r].patch \in Patches \cup {NoPatch}
      BY DEF AdminInv, TypeInv, TypeOK, Request
  <2>3. /\ Patched(user[u], req[r].patch).life = user[u].life
        /\ Patched(user[u], req[r].patch).role = "admin"
        /\ ~Patched(user[u], req[r].patch).disabled
      BY <1>4, <2>1, <2>2, PatchedType, PatchKeepsAdmin DEF EnabledAdmin
  <2>4. EnabledAdmin(u)'
      BY <1>4, <2>1, <2>3 DEF EnabledAdmin, Present
  <2> QED
      BY <2>4
<1>5. CASE ~EnabledAdmin(u)
    BY <1>2, <1>5 DEF AdminInv, EnabledAdmins
<1> QED
    BY <1>3, <1>4, <1>5

\* Users stay as they are, and no handler gets where it is about to write.
LEMMA QuietAdmin ==
    ASSUME AdminInv, Remembered, user' = user, overlapped' = overlapped,
           \A q \in Requests : req'[q] = req[q] \/ req'[q].at # "commit"
    PROVE  ~overlapped' => /\ EnabledAdmins' # {} /\ Solo'
                           /\ \A r \in Requests : Informed(r)'
<1> SUFFICES ASSUME ~overlapped
             PROVE  /\ EnabledAdmins' # {} /\ Solo'
                    /\ \A r \in Requests : Informed(r)'
    OBVIOUS
<1>1. EnabledAdmins' = EnabledAdmins
    BY DEF EnabledAdmins, EnabledAdmin, Present
<1>2. Solo'
    BY DEF AdminInv, Solo, Remembered
<1>3. \A r \in Requests : Informed(r)'
    BY DEF AdminInv, Informed, Guarded, EnabledAdmin, Present
<1> QED
    BY <1>1, <1>2, <1>3 DEF AdminInv

\* A handler that has read the row writes what it has read.
LEMMA FindAdmin ==
    ASSUME AdminInv, NEW r \in Requests, Find(r)
    PROVE  ~overlapped' => /\ EnabledAdmins' # {} /\ Solo'
                           /\ \A q \in Requests : Informed(q)'
<1>1. Remembered /\ user' = user /\ overlapped' = overlapped
    BY FindRemembers DEF AdminInv, Find
<1>2. CASE Answer(r, "other")
  <2>1. \A q \in Requests : req'[q] = req[q] \/ req'[q].at # "commit"
      BY <1>2 DEF Answer, Idle, AdminInv, TypeInv, TypeOK
  <2> QED
      BY <1>1, <2>1, QuietAdmin
<1>3. ASSUME NEW row, req' = [req EXCEPT ![r] = row], ~overlapped,
             row.kind = req[r].kind, row.target = req[r].target, row.patch = req[r].patch,
             \/ row.kind \notin {"update", "delete"}
             \/ Present(req[r].target) /\ row.guarded = Guarded(r)
      PROVE  /\ EnabledAdmins' # {} /\ Solo'
             /\ \A q \in Requests : Informed(q)'
  <2>1. req'[r] = row /\ \A q \in Requests \ {r} : req'[q] = req[q]
      BY <1>3 DEF AdminInv, TypeInv, TypeOK
  <2>2. Guarded(r)' = Guarded(r)
      BY <1>1, <1>3, <2>1 DEF Guarded, EnabledAdmin, Present
  <2>3. Informed(r)'
      BY <1>1, <1>3, <2>1, <2>2 DEF Informed, Present
  <2>4. \A q \in Requests \ {r} : Informed(q)'
    <3>1. \A q \in Requests \ {r} : req'[q].at = "idle"
        BY <1>3, <2>1 DEF AdminInv, Solo, Find
    <3> QED
        BY <3>1 DEF Informed
  <2>5. Solo'
      BY <1>1, <1>3 DEF AdminInv, Solo, Remembered
  <2>6. EnabledAdmins' = EnabledAdmins
      BY <1>1 DEF EnabledAdmins, EnabledAdmin, Present
  <2> QED
      BY <1>3, <2>3, <2>4, <2>5, <2>6 DEF AdminInv
<1>4. CASE /\ Present(req[r].target)
           /\ req' = [req EXCEPT ![r] = [@ EXCEPT !.at = "commit", !.guarded = Guarded(r)]]
  <2> DEFINE row == [req[r] EXCEPT !.at = "commit", !.guarded = Guarded(r)]
  <2>1. /\ row.kind = req[r].kind /\ row.target = req[r].target
        /\ row.patch = req[r].patch /\ row.guarded = Guarded(r)
      BY DEF AdminInv, TypeInv, TypeOK, Request
  <2>2. req' = [req EXCEPT ![r] = row]
      BY <1>4, Zenon
  <2> HIDE DEF row
  <2> QED
      BY <1>1, <1>3, <1>4, <2>1, <2>2
<1>5. ASSUME req[r].kind = "revoke", NEW t \in Tokens,
             req' = [req EXCEPT ![r] = [@ EXCEPT !.at = "commit", !.which = t]]
      PROVE  ~overlapped' => /\ EnabledAdmins' # {} /\ Solo'
                             /\ \A q \in Requests : Informed(q)'
  <2> DEFINE row == [req[r] EXCEPT !.at = "commit", !.which = t]
  <2>1. /\ row.kind = req[r].kind /\ row.target = req[r].target
        /\ row.patch = req[r].patch
      BY DEF AdminInv, TypeInv, TypeOK, Request
  <2>2. req' = [req EXCEPT ![r] = row]
      BY <1>5, Zenon
  <2> HIDE DEF row
  <2> QED
      BY <1>1, <1>3, <1>5, <2>1, <2>2
<1> QED
    BY <1>2, <1>4, <1>5 DEF Find

\* Whatever a handler that is alone writes, an enabled admin is left.
LEMMA CommitAdmin ==
    ASSUME AdminInv, NEW r \in Requests, Commit(r)
    PROVE  ~overlapped' => /\ EnabledAdmins' # {} /\ Solo'
                           /\ \A q \in Requests : Informed(q)'
<1> SUFFICES ASSUME ~overlapped
             PROVE  /\ EnabledAdmins' # {} /\ Solo'
                    /\ \A q \in Requests : Informed(q)'
    BY DEF Commit
<1>0. PICK u \in Users : u = req[r].target
    BY DEF AdminInv, TypeInv, Aimed, Commit
<1>1. Remembered /\ TypeInv /\ req[r].at = "commit"
    BY CommitMoves, Remembers DEF AdminInv, Commit
<1>2. Solo'
    BY <1>1 DEF AdminInv, Solo, Remembered
<1>3. \A q \in Requests : req'[q].at # "commit"
  <2>1. \A q \in Requests \ {r} : req'[q] = req[q] /\ req[q].at = "idle"
      BY <1>1, CommitMoves DEF AdminInv, Solo, Committed, Answer, TypeInv, TypeOK
  <2>2. req'[r].at \in {"record", "idle"}
      BY <1>1, CommitMoves DEF Committed, Answer, Idle, TypeInv, TypeOK, Request
  <2> QED
      BY <2>1, <2>2
<1>4. \A q \in Requests : Informed(q)'
    BY <1>3 DEF Informed
<1>5. EnabledAdmins' # {}
  <2>1. ASSUME NEW v \in Users, EnabledAdmin(v)' PROVE EnabledAdmins' # {}
      BY <2>1 DEF EnabledAdmins
  <2>2. PICK w \in Users : EnabledAdmin(w)
      BY DEF AdminInv, EnabledAdmins
  <2>3. CASE user' = user
      BY <2>1, <2>2, <2>3 DEF EnabledAdmin, Present
  <2>4. CASE Create(r)
    <3>1. user' = user \/ (user[u].life = "absent" /\ \A v \in Users \ {u} : user'[v] = user[v])
        BY <1>0, <1>1, <2>4 DEF Create, TypeInv, TypeOK
    <3>2. user[u].life = "absent" => w # u
        BY <2>2 DEF EnabledAdmin, Present
    <3> QED
        BY <2>1, <2>2, <2>3, <3>1, <3>2 DEF EnabledAdmin, Present
  <2>5. CASE Update(r) /\ ~LastAdmin(r)
    <3>1. /\ \A v \in Users \ {u} : user'[v] = user[v]
          /\ user'[u] \in {user[u], Patched(user[u], req[r].patch)}
        BY <1>0, <1>1, <2>5 DEF Update, TypeInv, TypeOK
    <3> QED
        BY <1>0, <1>1, <2>5, <3>1, WriteKeepsAdmin DEF Update
  <2>6. CASE Delete(r) /\ ~LastAdmin(r)
    <3>1. \A v \in Users \ {u} : user'[v] = user[v]
        BY <1>0, <1>1, <2>6 DEF Delete, TypeInv, TypeOK
    <3> QED
        BY <1>0, <1>1, <2>6, <3>1, WriteKeepsAdmin DEF Delete
  <2>7. CASE SetPassword(r)
    <3>1. \/ user' = user
          \/ user' = [user EXCEPT ![u].pw = @ + 1]
        BY <1>0, <2>7 DEF SetPassword
    <3>2. \A v \in Users : /\ user'[v].life = user[v].life /\ user'[v].role = user[v].role
                           /\ user'[v].disabled = user[v].disabled
        BY <1>0, <1>1, <3>1 DEF TypeInv, TypeOK, User
    <3> QED
        BY <2>1, <2>2, <3>2 DEF EnabledAdmin, Present
  <2> QED
      BY <2>3, <2>4, <2>5, <2>6, <2>7 DEF Commit, Update, Delete, CreateToken, Revoke
<1> QED
    BY <1>2, <1>4, <1>5

\* So it is when the daemon dies within the call.
LEMMA DieAdmin ==
    ASSUME AdminInv, Die
    PROVE  ~overlapped' => /\ EnabledAdmins' # {} /\ Solo'
                           /\ \A q \in Requests : Informed(q)'
<1> SUFFICES ASSUME ~overlapped PROVE EnabledAdmins' # {}
    BY DEF Die, Solo, Informed, Idle
<1>1. CASE user' = user
    BY <1>1 DEF AdminInv, EnabledAdmins, EnabledAdmin, Present
<1>2. ASSUME NEW r \in Requests, FirstStatement(r) PROVE EnabledAdmins' # {}
  <2>0. PICK u \in Users : u = req[r].target
      BY <1>2 DEF AdminInv, TypeInv, Aimed, FirstStatement
  <2>1. CASE /\ req[r].kind = "update"
             /\ user' = [user EXCEPT ![u] = Patched(@, req[r].patch)]
    <3>1. /\ \A v \in Users \ {u} : user'[v] = user[v]
          /\ user'[u] = Patched(user[u], req[r].patch)
        BY <2>1 DEF AdminInv, TypeInv, TypeOK
    <3> QED
        BY <1>2, <2>0, <2>1, <3>1, WriteKeepsAdmin DEF FirstStatement
  <2>2. CASE user' = [user EXCEPT ![u].pw = @ + 1]
    <3>1. \A v \in Users : /\ user'[v].life = user[v].life /\ user'[v].role = user[v].role
                           /\ user'[v].disabled = user[v].disabled
        BY <2>2 DEF AdminInv, TypeInv, TypeOK, User
    <3>2. \A v \in Users : EnabledAdmin(v) => EnabledAdmin(v)'
        BY <3>1 DEF EnabledAdmin, Present
    <3> QED
        BY <3>2 DEF AdminInv, EnabledAdmins
  <2> QED
      BY <1>2, <2>0, <2>1, <2>2 DEF FirstStatement
<1> QED
    BY <1>1, <1>2 DEF Die

LEMMA NextAdmin == AdminInv /\ [Next]_vars => AdminInv'
<1> SUFFICES ASSUME AdminInv, [Next]_vars
             PROVE  ~overlapped' => /\ EnabledAdmins' # {} /\ Solo'
                                    /\ \A q \in Requests : Informed(q)'
    BY NextTypeInv DEF AdminInv
<1>1. ASSUME NEW s \in Sessions, EndSession(s) \/ \E u \in Users : Login(s, u)
      PROVE  ~overlapped' => /\ EnabledAdmins' # {} /\ Solo'
                             /\ \A q \in Requests : Informed(q)'
    BY <1>1, QuietAdmin DEF EndSession, Login, Remembered
<1>2. ASSUME NEW r \in Requests, NEW c \in Credentials, NEW kind \in Kinds, NEW u \in Users,
             NEW patch \in Patches \cup {NoPatch}, Begin(r, c, kind, u, patch)
      PROVE  ~overlapped' => /\ EnabledAdmins' # {} /\ Solo'
                             /\ \A q \in Requests : Informed(q)'
  <2> SUFFICES ASSUME ~overlapped'
               PROVE  /\ EnabledAdmins' # {} /\ Solo'
                      /\ \A q \in Requests : Informed(q)'
      OBVIOUS
  <2>1. \A q \in Requests : req[q].at = "idle"
      BY <1>2 DEF Begin
  <2>2. /\ \A q \in Requests \ {r} : req'[q] = req[q]
        /\ req'[r].kind = kind
        /\ req'[r].at = IF kind \in {"create", "token"} THEN "commit" ELSE "find"
      BY <1>2 DEF Begin, AdminInv, TypeInv, TypeOK
  <2>3. Solo' /\ \A q \in Requests : Informed(q)'
      BY <2>1, <2>2 DEF Solo, Informed
  <2>4. EnabledAdmins' = EnabledAdmins /\ ~overlapped
      BY <1>2 DEF Begin, EnabledAdmins, EnabledAdmin, Present
  <2> QED
      BY <2>3, <2>4 DEF AdminInv
<1>3. ASSUME NEW r \in Requests, RecordAudit(r) \/ DropHandler(r)
      PROVE  ~overlapped' => /\ EnabledAdmins' # {} /\ Solo'
                             /\ \A q \in Requests : Informed(q)'
  <2>1. Remembered
      BY <1>3, Remembers DEF RecordAudit, DropHandler, Replies, AdminInv
  <2>2. \A q \in Requests : req'[q] = req[q] \/ req'[q].at # "commit"
      BY <1>3 DEF RecordAudit, DropHandler, Answer, Idle, AdminInv, TypeInv, TypeOK
  <2> QED
      BY <1>3, <2>1, <2>2, QuietAdmin DEF RecordAudit, DropHandler
<1>4. CASE UNCHANGED vars
  <2>1. Remembered
      BY <1>4 DEF vars, Remembered
  <2> QED
      BY <1>4, <2>1, QuietAdmin DEF vars
<1> QED
    BY <1>1, <1>2, <1>3, <1>4, FindAdmin, CommitAdmin, DieAdmin DEF Next

LEMMA InitAdmin == Init => AdminInv
<1> SUFFICES ASSUME Init
             PROVE  EnabledAdmins # {} /\ Solo /\ \A r \in Requests : Informed(r)
    BY InitTypeInv DEF AdminInv
<1>1. \A r \in Requests : req[r] = Idle
    BY DEF Init
<1> QED
    BY <1>1 DEF Init, Solo, Informed, Idle

\* Only an update or a delete refuses as the last admin, and, when it is alone, only
\* the one there is.
LEMMA RefusesLast ==
    ASSUME AdminInv, [Next]_vars
    PROVE  RefusedIsLast
<1> SUFFICES ASSUME NEW r \in Requests, ~overlapped, reply[r] # "last-admin",
                    reply'[r] = "last-admin"
             PROVE  EnabledAdmins = {req[r].target}
    BY DEF RefusedIsLast
<1>0. TypeOK
    BY DEF AdminInv, TypeInv
<1>1. ASSUME NEW q \in Requests, Answer(q, "other") PROVE FALSE
    BY <1>0, <1>1 DEF Answer, TypeOK
<1>2. PICK q \in Requests : Commit(q)
  <2>1. reply' # reply
      OBVIOUS
  <2>2. ~\E q \in Requests, c \in Credentials, kind \in Kinds, u \in Users :
            \E patch : Begin(q, c, kind, u, patch)
      BY <1>0 DEF Begin, TypeOK
  <2>3. ~Die
      BY DEF Die
  <2> QED
      BY <1>1, <2>1, <2>2, <2>3 DEF Next, EndSession, Login, Find, RecordAudit, DropHandler,
                                    vars
<1>3. Answer(q, "last-admin")
    BY <1>1, <1>2, <1>0 DEF Commit, Create, Update, Delete, SetPassword, CreateToken, Revoke,
                       Committed
<1>4. q = r
    BY <1>0, <1>3 DEF Answer, TypeOK
<1>5. PICK u \in Users : u = req[r].target
    BY <1>2, <1>4 DEF AdminInv, TypeInv, Aimed, Commit
<1>6. reply' # reply /\ Commit(r)
    BY <1>2, <1>4
<1>7. req[r].at = "commit" /\ req[r].kind \in {"update", "delete"}
    BY <1>1, <1>6 DEF Commit, Create, Update, Delete, SetPassword, CreateToken, Revoke,
                      Committed
<1>8. Present(u) /\ req[r].guarded = Guarded(r)
    BY <1>5, <1>7 DEF AdminInv, Informed
<1>9. LastAdmin(r)
    BY <1>1, <1>5, <1>6, <1>7, <1>8 DEF Commit, Create, Update, Delete, SetPassword,
          CreateToken, Revoke, Committed
<1>10. EnabledAdmin(u)
    BY <1>5, <1>8, <1>9 DEF LastAdmin, Guarded
<1> QED
    BY <1>5, <1>9, <1>10, LastOrNot DEF LastAdmin

\* Whoever is patched or deleted, by whom and from where, and wherever a handler is
\* dropped or the daemon dies: as long as requests do not overlap, an enabled admin is
\* left, and the answer that refuses says the truth.
THEOREM LastAdminStays == Spec => LastAdminIsKept
<1>1. AdminInv /\ [Next]_vars => [AdminRemains' /\ RefusedIsLast]_vars
    BY NextAdmin, RefusesLast DEF AdminInv, AdminRemains
<1> QED
    BY <1>1, InitAdmin, NextAdmin, PTL DEF Spec, LastAdminIsKept

-----------------------------------------------------------------------------
(***************************************************************************)
(* LoginGuard, for any sources, limits, windows and restarts.              *)
(*                                                                         *)
(* GuardTypeCorrect  GuardSpec => []GuardTypeOK                            *)
(* FewGuesses        GuardSpec => []GuessesBounded                         *)
(* FewAttempts       GuardSpec => []RateHolds                              *)
(* GuessingBounded   GuardSpec => []GuessingIsBounded, the three together  *)
(*                                                                         *)
(* The lock: WindowInv ties the count of the row to the history, so that   *)
(* the failures within LockTicks span at most two windows of the count.    *)
(* The limiter: RateInv ties its entries to what has passed.  The sweep,   *)
(* the popping and time remove entries that no longer count, a restart all *)
(* of them.  Both are about ages in order, oldest first; that the popping  *)
(* stops where it should takes the least number that satisfies a formula.  *)
(***************************************************************************)
(* Ages.                                                                   *)

\* The oldest is first.
Sorted(ages) == \A i, j \in 1 .. Len(ages) : i <= j => ages[i] >= ages[j]

\* The first n of ages no longer count, the others do.
Split(ages, limit, n) ==
    /\ n \in 0 .. Len(ages)
    /\ \A i \in 1 .. n : ages[i] >= limit
    /\ \A i \in n + 1 .. Len(ages) : ages[i] < limit

\* What is left of ages without the first n.
Rest(new, ages, n) ==
    /\ Len(new) = Len(ages) - n
    /\ \A i \in 1 .. Len(ages) - n : new[i] = ages[n + i]

\* A set of numbers that is not empty has a least one.
LEMMA Least ==
    ASSUME NEW T, T \subseteq Nat, T # {}
    PROVE  \E n \in T : \A m \in T : n <= m
<1>1. PICK n \in T : \A m \in T : ~(<<m, n>> \in OpToRel(<, Nat))
    BY NatLessThanWellFounded, WFMin, Zenon
<1>2. \A m \in T : ~(m < n)
    BY <1>1 DEF OpToRel
<1> QED
    BY <1>2

\* Popping the front leaves just what counts.
LEMMA RecentIs ==
    ASSUME NEW limit \in Nat, NEW ages \in Seq(0 .. limit), Sorted(ages)
    PROVE  /\ Recent(ages, limit) \in Seq(0 .. limit) /\ Sorted(Recent(ages, limit))
           /\ \E n \in 0 .. Len(ages) :
                 Split(ages, limit, n) /\ Rest(Recent(ages, limit), ages, n)
<1> DEFINE new == Recent(ages, limit)
           First(n) == /\ \A i \in 1 .. n : ages[i] >= limit
                       /\ n < Len(ages) => ages[n + 1] < limit
           T == {n \in 0 .. Len(ages) : n < Len(ages) => ages[n + 1] < limit}
<1>1. Len(ages) \in Nat /\ \A i \in 1 .. Len(ages) : ages[i] \in 0 .. limit
    BY ElementOfSeq, LenProperties
<1>2. Len(ages) \in T /\ T \subseteq Nat
    BY <1>1
<1>3. PICK m \in T : \A k \in T : m <= k
    BY <1>2, Least
<1>4. First(m)
  <2>1. ASSUME NEW i \in 1 .. m PROVE ages[i] >= limit
    <3>1. i - 1 \in 0 .. Len(ages) /\ i - 1 < m /\ i - 1 < Len(ages) /\ i \in 1 .. Len(ages)
        BY <1>1
    <3>2. i - 1 \notin T
        BY <1>2, <1>3, <3>1
    <3>3. ~(ages[i - 1 + 1] < limit) /\ i - 1 + 1 = i
        BY <3>1, <3>2
    <3> QED
        BY <1>1, <3>1, <3>3
  <2> QED
      BY <2>1
<1> DEFINE popped == CHOOSE n \in 0 .. Len(ages) : First(n)
<1>5. popped \in 0 .. Len(ages) /\ First(popped)
    BY <1>4
<1>6. new = SubSeq(ages, popped + 1, Len(ages))
    BY DEF Recent
<1> HIDE DEF popped
<1>7. Split(ages, limit, popped)
  <2>1. ASSUME NEW i \in popped + 1 .. Len(ages) PROVE ages[i] < limit
    <3>1. popped + 1 \in 1 .. Len(ages) /\ i \in 1 .. Len(ages) /\ popped + 1 <= i
        BY <1>1, <1>5
    <3>2. ages[popped + 1] < limit /\ ages[popped + 1] >= ages[i]
        BY <1>5, <3>1 DEF Sorted
    <3> QED
        BY <1>1, <3>1, <3>2
  <2> QED
      BY <1>5, <2>1 DEF Split
<1>8. new \in Seq(0 .. limit) /\ Rest(new, ages, popped)
  <2>1. \A i \in popped + 1 .. Len(ages) : ages[i] \in 0 .. limit
      BY <1>1, <1>5
  <2>2. /\ new \in Seq(0 .. limit)
        /\ Len(new) = IF popped + 1 <= Len(ages) THEN Len(ages) - (popped + 1) + 1 ELSE 0
        /\ \A i \in 1 .. Len(ages) - (popped + 1) + 1 : new[i] = ages[popped + 1 + i - 1]
      BY <1>1, <1>5, <1>6, <2>1, SubSeqProperties
  <2> QED
      BY <1>1, <1>5, <2>2 DEF Rest
<1> HIDE DEF new
<1>9. Sorted(new)
  <2>1. ASSUME NEW i \in 1 .. Len(new), NEW j \in 1 .. Len(new), i <= j
        PROVE  new[i] >= new[j]
    <3>1. /\ Len(new) = Len(ages) - popped /\ popped \in 0 .. Len(ages)
          /\ new[i] = ages[popped + i] /\ new[j] = ages[popped + j]
        BY <1>5, <1>8, <2>1 DEF Rest
    <3>2. /\ popped + i \in 1 .. Len(ages) /\ popped + j \in 1 .. Len(ages)
          /\ popped + i <= popped + j
        BY <1>1, <2>1, <3>1
    <3>3. ages[popped + i] >= ages[popped + j]
        BY <3>2 DEF Sorted
    <3> QED
        BY <3>1, <3>3
  <2> QED
      BY <2>1 DEF Sorted
<1> QED
    BY <1>5, <1>7, <1>8, <1>9 DEF new

\* A tick keeps the order.
LEMMA OlderIs ==
    ASSUME NEW limit \in Nat, NEW ages \in Seq(0 .. limit), Sorted(ages)
    PROVE  /\ Older(ages, limit) \in Seq(0 .. limit) /\ Sorted(Older(ages, limit))
           /\ Len(Older(ages, limit)) = Len(ages)
           /\ \A i \in 1 .. Len(ages) :
                 Older(ages, limit)[i] = IF ages[i] < limit THEN ages[i] + 1 ELSE limit
<1> DEFINE new == Older(ages, limit)
<1>1. /\ Len(ages) \in Nat /\ DOMAIN ages = 1 .. Len(ages)
      /\ \A i \in 1 .. Len(ages) : ages[i] \in 0 .. limit
    BY ElementOfSeq, LenProperties
<1>2. new = [n \in 1 .. Len(ages) |-> IF ages[n] < limit THEN ages[n] + 1 ELSE limit]
    BY <1>1 DEF Older
<1>3. \A n \in 1 .. Len(ages) : (IF ages[n] < limit THEN ages[n] + 1 ELSE limit) \in 0 .. limit
    BY <1>1
<1>4. new \in [1 .. Len(ages) -> 0 .. limit]
    BY <1>2, <1>3
<1>5. new \in Seq(0 .. limit)
    BY <1>1, <1>4, SeqDef
<1>6. Len(new) = Len(ages)
    BY <1>1, <1>4, <1>5, LenProperties
<1>7. \A i \in 1 .. Len(ages) : new[i] = IF ages[i] < limit THEN ages[i] + 1 ELSE limit
    BY <1>2
<1> HIDE DEF new
<1>8. Sorted(new)
  <2>1. ASSUME NEW i \in 1 .. Len(ages), NEW j \in 1 .. Len(ages), i <= j
        PROVE  new[i] >= new[j]
    <3>1. ages[i] >= ages[j] /\ ages[i] \in 0 .. limit /\ ages[j] \in 0 .. limit
        BY <1>1, <2>1 DEF Sorted
    <3> QED
        BY <1>7, <3>1
  <2> QED
      BY <1>6, <2>1 DEF Sorted
<1> QED
    BY <1>5, <1>6, <1>7, <1>8 DEF new

\* So does an attempt that is just being made.
LEMMA AddedIs ==
    ASSUME NEW limit \in Nat, NEW ages \in Seq(0 .. limit), Sorted(ages)
    PROVE  /\ Append(ages, 0) \in Seq(0 .. limit) /\ Sorted(Append(ages, 0))
           /\ Len(Append(ages, 0)) = Len(ages) + 1
           /\ \A i \in 1 .. Len(ages) : Append(ages, 0)[i] = ages[i]
           /\ Append(ages, 0)[Len(ages) + 1] = 0
           /\ limit # 0 /\ Split(ages, limit, 0) => Split(Append(ages, 0), limit, 0)
<1> DEFINE new == Append(ages, 0)
           n == Len(ages)
<1>1. n \in Nat /\ \A i \in 1 .. n : ages[i] \in 0 .. limit
    BY LenProperties, ElementOfSeq
<1>2. 0 \in 0 .. limit
    OBVIOUS
<1>3. /\ new \in Seq(0 .. limit) /\ Len(new) = n + 1
      /\ \A i \in 1 .. n : new[i] = ages[i]
      /\ new[n + 1] = 0
    BY <1>2, AppendProperties
<1>4. Sorted(new)
  <2>1. ASSUME NEW i \in 1 .. n, NEW j \in 1 .. n, i <= j PROVE ages[i] >= ages[j]
      BY <2>1 DEF Sorted
  <2> HIDE DEF new, n
  <2>2. ASSUME NEW i \in 1 .. n + 1, NEW j \in 1 .. n + 1, i <= j PROVE new[i] >= new[j]
    <3>1. CASE j = n + 1
      <4>1. new[i] \in 0 .. limit
          BY <1>1, <1>2, <1>3
      <4> QED
          BY <1>3, <3>1, <4>1
    <3>2. CASE j # n + 1
      <4>1. i \in 1 .. n /\ j \in 1 .. n
          BY <1>1, <2>2, <3>2
      <4> QED
          BY <1>3, <2>1, <2>2, <4>1
    <3> QED
        BY <3>1, <3>2
  <2> QED
      BY <1>3, <2>2 DEF Sorted
<1>5. ASSUME limit # 0, Split(ages, limit, 0) PROVE Split(new, limit, 0)
  <2>1. \A i \in 1 .. n : ages[i] < limit
      BY <1>5 DEF Split
  <2> HIDE DEF new, n
  <2>2. \A i \in 1 .. n + 1 : new[i] < limit
      BY <1>1, <1>3, <1>5, <2>1
  <2> QED
      BY <1>1, <1>3, <2>2 DEF Split
<1> QED
    BY <1>3, <1>4, <1>5

-----------------------------------------------------------------------------
(* The lock.                                                               *)

\* The failures of the window are the last ones; those of the window before are all but the
\* first of it, and one short of the lock, or they are the last ones themselves.  A lock lasts
\* until the failure that locked has expired.
WindowInv ==
    /\ failed \in 0 .. LockAfter /\ first \in 0 .. LockTicks /\ lock \in 0 .. LockTicks
    /\ failures \in Seq(0 .. LockTicks) /\ Sorted(failures)
    /\ first < LockTicks =>
          /\ failed \in 1 .. Len(failures) /\ failures[Len(failures) - failed + 1] = first
          /\ Len(failures) - failed <= LockAfter - 2
    /\ first = LockTicks => Len(failures) = 0 \/ Len(failures) + 1 <= failed
    /\ lock > 0 => failed = LockAfter
    /\ failed = LockAfter /\ Len(failures) > 0 =>
          lock > 0 /\ failures[Len(failures)] = LockTicks - lock

\* All but the first of a window, one short of the lock, and the next window up to the lock.
LEMMA WindowFew == WindowInv => GuessesBounded
<1> SUFFICES ASSUME WindowInv PROVE GuessesBounded
    OBVIOUS
<1>1. Len(failures) \in Nat
    BY LenProperties DEF WindowInv
<1>2. CASE first < LockTicks
    BY <1>1, <1>2, LoginGuardAssumption DEF WindowInv, GuessesBounded
<1>3. CASE first = LockTicks
    BY <1>1, <1>3, LoginGuardAssumption DEF WindowInv, GuessesBounded
<1> QED
    BY <1>2, <1>3, LoginGuardAssumption DEF WindowInv

\* A failure continues the window or starts one, and locks in the end.
LEMMA FailWindow ==
    ASSUME WindowInv, NEW s \in Sources, Fail(s)
    PROVE  WindowInv'
<1> DEFINE n == Len(failures)
<1>1. n \in Nat /\ \A i \in 1 .. n : failures[i] \in 0 .. LockTicks
    BY LenProperties, ElementOfSeq DEF WindowInv
<1>2. /\ failures' \in Seq(0 .. LockTicks) /\ Sorted(failures')
      /\ Len(failures') = n + 1
      /\ \A i \in 1 .. n : failures'[i] = failures[i]
      /\ failures'[n + 1] = 0
  <2>1. failures' = Append(failures, 0)
      BY DEF Fail
  <2> QED
      BY <2>1, AddedIs, LoginGuardAssumption DEF WindowInv
<1>3. /\ lock = 0 /\ failed' = Count
      /\ first' = (IF first < LockTicks THEN first ELSE 0)
      /\ lock' = (IF Count >= LockAfter THEN LockTicks ELSE 0)
    BY DEF Fail, Locked, WindowInv
<1> HIDE DEF n
<1>4. CASE first < LockTicks
  <2>1. /\ failed \in 1 .. n /\ failures[n - failed + 1] = first /\ n - failed <= LockAfter - 2
        /\ failed \in 0 .. LockAfter
      BY <1>4 DEF WindowInv, n
  <2>2. failed # LockAfter
      BY <1>1, <1>3, <2>1 DEF WindowInv, n
  <2>3. failed' = failed + 1 /\ first' = first
      BY <1>3, <1>4 DEF Count
  <2>4. /\ failed' \in 1 .. LockAfter /\ failed' \in 1 .. n + 1 /\ n + 1 - failed' <= LockAfter - 2
        /\ n + 1 - failed' + 1 = n - failed + 1 /\ n - failed + 1 \in 1 .. n
      BY <1>1, <2>1, <2>2, <2>3, LoginGuardAssumption
  <2>5. failures'[n + 1 - failed' + 1] = first'
      BY <1>2, <2>1, <2>3, <2>4
  <2>6. /\ lock' \in 0 .. LockTicks
        /\ lock' > 0 => failed' = LockAfter
        /\ failed' = LockAfter => lock' > 0 /\ failures'[n + 1] = LockTicks - lock'
      BY <1>2, <1>3, <2>4, LoginGuardAssumption
  <2>7. first' \in 0 .. LockTicks /\ first' < LockTicks
      BY <1>4, <2>3 DEF WindowInv
  <2>8. /\ failed' \in 1 .. Len(failures') /\ failures'[Len(failures') - failed' + 1] = first'
        /\ Len(failures') - failed' <= LockAfter - 2
    <3> DEFINE len == Len(failures')
    <3>0. len = n + 1 /\ n \in Nat /\ failed' \in Nat
        BY <1>1, <1>2, <2>4
    <3> HIDE DEF len
    <3>1. len - failed' + 1 = n + 1 - failed' + 1
        BY <3>0
    <3>2. failures'[len - failed' + 1] = first'
        BY <2>5, <3>1, Zenon
    <3>3. failed' \in 1 .. len /\ len - failed' <= LockAfter - 2
        BY <3>0, <2>4
    <3> QED
        BY <3>2, <3>3, Zenon DEF len
  <2>9. failed' = LockAfter => lock' > 0 /\ failures'[Len(failures')] = LockTicks - lock'
      BY <1>1, <1>2, <2>6
  <2>10. failed' \in 0 .. LockAfter
      BY <2>4, LoginGuardAssumption
  <2> QED
      BY <1>2, <2>6, <2>7, <2>8, <2>9, <2>10 DEF WindowInv
<1>5. CASE first = LockTicks
  <2>1. n = 0 \/ n + 1 <= failed
      BY <1>5 DEF WindowInv, n
  <2>2. n <= LockAfter - 2
      BY <1>1, <1>3, <2>1, LoginGuardAssumption DEF WindowInv, n
  <2>3. failed' = 1 /\ first' = 0 /\ lock' = 0
      BY <1>3, <1>5, LoginGuardAssumption DEF Count
  <2>4. failures'[n + 1 - failed' + 1] = first' /\ failed' # LockAfter /\ failed' \in 1 .. n + 1
      BY <1>1, <1>2, <2>3, LoginGuardAssumption
  <2> QED
      BY <1>1, <1>2, <2>2, <2>3, <2>4, LoginGuardAssumption DEF WindowInv
<1> QED
    BY <1>4, <1>5, LoginGuardAssumption DEF WindowInv

\* The window and the lock end when the failures they began with expire.
LEMMA TickWindow == ASSUME WindowInv, Tick PROVE WindowInv'
<1> DEFINE n == Len(failures)
           old == Older(failures, LockTicks)
<1> USE LoginGuardAssumption
<1>1. n \in Nat /\ \A i \in 1 .. n : failures[i] \in 0 .. LockTicks
    BY LenProperties, ElementOfSeq DEF WindowInv
<1>2. /\ old \in Seq(0 .. LockTicks) /\ Sorted(old) /\ Len(old) = n
      /\ \A i \in 1 .. n : old[i] = IF failures[i] < LockTicks THEN failures[i] + 1 ELSE LockTicks
    BY OlderIs DEF WindowInv
<1>3. failures' = Recent(old, LockTicks)
    BY DEF Tick
<1>4. /\ failed' = failed /\ first' = (IF first < LockTicks THEN first + 1 ELSE first)
      /\ lock' = (IF lock > 0 THEN lock - 1 ELSE 0)
    BY DEF Tick, Locked
<1> HIDE DEF old
<1>5. failures' \in Seq(0 .. LockTicks) /\ Sorted(failures')
    BY <1>2, <1>3, RecentIs
<1>6. PICK d \in 0 .. n : Split(old, LockTicks, d) /\ Rest(failures', old, d)
    BY <1>2, <1>3, RecentIs
<1> HIDE DEF n
<1>7. /\ Len(failures') = n - d /\ \A i \in 1 .. n - d : failures'[i] = old[d + i]
      /\ \A i \in 1 .. d : old[i] >= LockTicks
      /\ \A i \in d + 1 .. n : old[i] < LockTicks
    BY <1>2, <1>6 DEF Split, Rest
<1>8. first' \in 0 .. LockTicks /\ lock' \in 0 .. LockTicks
    BY <1>4 DEF WindowInv
<1>9. lock' > 0 => failed' = LockAfter
    BY <1>4 DEF WindowInv
<1>10. ASSUME failed' = LockAfter, Len(failures') > 0
       PROVE  lock' > 0 /\ failures'[Len(failures')] = LockTicks - lock'
  <2>1. /\ n > 0 /\ d < n /\ n - d \in 1 .. n - d /\ d + (n - d) = n
        /\ n \in d + 1 .. n /\ n \in 1 .. n
      BY <1>1, <1>7, <1>10
  <2>2. lock > 0 /\ failures[n] = LockTicks - lock
      BY <1>4, <1>10, <2>1 DEF WindowInv, n
  <2>3. failures'[Len(failures')] = old[n] /\ old[n] < LockTicks
      BY <1>7, <2>1
  <2>4. old[n] = LockTicks - lock + 1
      BY SMTT(30), <1>2, <2>1, <2>2 DEF WindowInv
  <2>5. lock \in 1 .. LockTicks
      BY <2>2 DEF WindowInv
  <2> QED
      BY <1>4, <2>2, <2>3, <2>4, <2>5
<1>11. ASSUME first < LockTicks
       PROVE  /\ first' < LockTicks =>
                    /\ failed' \in 1 .. Len(failures')
                    /\ failures'[Len(failures') - failed' + 1] = first'
                    /\ Len(failures') - failed' <= LockAfter - 2
              /\ first' = LockTicks => Len(failures') + 1 <= failed'
  <2> DEFINE p == n - failed + 1
  <2>1. /\ failed \in 1 .. n /\ failures[p] = first /\ n - failed <= LockAfter - 2
        /\ failed \in 0 .. LockAfter
      BY <1>11 DEF WindowInv, n
  <2>2. p \in 1 .. n /\ first' = first + 1 /\ old[p] = first + 1
      BY <1>1, <1>2, <1>4, <1>11, <2>1
  <2>3. CASE first' < LockTicks
    <3>1. d < p
        BY <1>6, <1>7, <2>2, <2>3
    <3>2. /\ n - d - failed + 1 \in 1 .. n - d /\ d + (n - d - failed + 1) = p
          /\ failed \in 1 .. n - d /\ n - d - failed <= LockAfter - 2
        BY <1>1, <1>6, <2>1, <2>2, <3>1
    <3>3. failures'[n - d - failed + 1] = old[p]
        BY <1>7, <3>2
    <3> QED
        BY <1>4, <1>7, <2>2, <2>3, <3>2, <3>3
  <2>4. CASE first' = LockTicks
    <3>1. p <= d
        BY <1>6, <1>7, <2>2, <2>4
    <3> QED
        BY <1>1, <1>4, <1>6, <1>7, <2>1, <2>4, <3>1
  <2> QED
      BY <1>4, <1>11, <2>3, <2>4 DEF WindowInv
<1>12. ASSUME first = LockTicks
       PROVE  first' = LockTicks /\ (Len(failures') = 0 \/ Len(failures') + 1 <= failed')
  <2>1. n = 0 \/ n + 1 <= failed
      BY <1>12 DEF WindowInv, n
  <2> QED
      BY <1>1, <1>4, <1>6, <1>7, <1>12, <2>1 DEF WindowInv
<1>13. failed' \in 0 .. LockAfter
    BY <1>4 DEF WindowInv
<1> QED
    BY <1>5, <1>8, <1>9, <1>10, <1>11, <1>12, <1>13 DEF WindowInv

\* The lock takes no notice of other steps.
LEMMA RestWindow == ASSUME WindowInv, UNCHANGED <<lockRow, failures>> PROVE WindowInv'
BY DEF WindowInv, lockRow, Sorted

\* The right password forgives all.
LEMMA SucceedWindow == ASSUME WindowInv, NEW s \in Sources, Succeed(s) PROVE WindowInv'
<1>1. failed' = 0 /\ first' = LockTicks /\ lock' = 0 /\ failures' = <<>>
    BY DEF Succeed
<1>2. Len(failures') = 0 /\ failures' \in Seq(0 .. LockTicks)
    BY <1>1
<1>3. Sorted(failures')
    BY <1>1 DEF Sorted
<1> QED
    BY <1>1, <1>2, <1>3, LoginGuardAssumption DEF WindowInv

-----------------------------------------------------------------------------
(* The limiter.                                                            *)

\* What counts of the limiter's entries h is the last of what has passed, p; before that come
\* at most b, let through before the last restart.
Tells(h, p, b, k, m) ==
    /\ Split(h, RateTicks, k)
    /\ m \in 0 .. Len(p) /\ m <= b
    /\ Len(p) - m = Len(h) - k
    /\ \A i \in 1 .. Len(h) - k : p[m + i] = h[k + i]

RateOK(h, p, b) ==
    /\ h \in Seq(0 .. RateTicks) /\ Sorted(h) /\ Len(h) <= RateMax
    /\ p \in Seq(0 .. RateTicks) /\ Sorted(p) /\ Split(p, RateTicks, 0)
    /\ \E k \in 0 .. Len(h) : \E m \in 0 .. Len(p) : Tells(h, p, b, k, m)

\* Both together are few.
LEMMA RateFew ==
    ASSUME NEW h, NEW p, NEW b \in Nat, RateOK(h, p, b)
    PROVE  Len(p) \in Nat /\ Len(p) <= b + RateMax
<1>1. Len(h) \in Nat /\ Len(p) \in Nat
    BY LenProperties DEF RateOK
<1>2. PICK k \in 0 .. Len(h) : \E m \in 0 .. Len(p) : Tells(h, p, b, k, m)
    BY DEF RateOK
<1>3. PICK m \in 0 .. Len(p) : Tells(h, p, b, k, m)
    BY <1>2
<1> QED
    BY <1>1, <1>3, LoginGuardAssumption DEF RateOK, Tells

\* A restart forgets all entries.
LEMMA RateRestarted ==
    ASSUME NEW h, NEW p, NEW b \in Nat, RateOK(h, p, b)
    PROVE  RateOK(<<>>, p, b + RateMax)
<1>1. Len(p) \in Nat /\ Len(p) <= b + RateMax
    BY RateFew
<1>2. Tells(<<>>, p, b + RateMax, 0, Len(p))
    BY <1>1 DEF Tells, Split
<1>3. 0 \in 0 .. Len(<<>>) /\ Len(p) \in 0 .. Len(p) /\ Len(<<>>) <= RateMax
    BY <1>1, LoginGuardAssumption
<1>4. <<>> \in Seq(0 .. RateTicks) /\ Sorted(<<>>)
    BY DEF Sorted
<1> QED
    BY <1>2, <1>3, <1>4 DEF RateOK

\* Nor does it matter to forget entries that no longer count.
LEMMA RateForgotten ==
    ASSUME NEW h, NEW p, NEW b \in Nat, RateOK(h, p, b),
           \A i \in 1 .. Len(h) : h[i] >= RateTicks
    PROVE  RateOK(<<>>, p, b)
<1>1. Len(h) \in Nat /\ Len(p) \in Nat /\ \A i \in 1 .. Len(h) : h[i] \in 0 .. RateTicks
    BY LenProperties, ElementOfSeq DEF RateOK
<1>2. PICK k \in 0 .. Len(h) : \E m \in 0 .. Len(p) : Tells(h, p, b, k, m)
    BY DEF RateOK
<1>3. PICK m \in 0 .. Len(p) : Tells(h, p, b, k, m)
    BY <1>2
<1>4. k = Len(h)
  <2>1. CASE k < Len(h)
    <3>1. Len(h) \in k + 1 .. Len(h) /\ Len(h) \in 1 .. Len(h)
        BY <1>1, <2>1
    <3>2. h[Len(h)] < RateTicks /\ h[Len(h)] >= RateTicks /\ h[Len(h)] \in Nat
        BY <1>1, <1>3, <3>1 DEF Tells, Split
    <3> QED
        BY <3>2, LoginGuardAssumption
  <2> QED
      BY <1>1, <2>1
<1>5. Tells(<<>>, p, b, 0, m)
    BY <1>1, <1>3, <1>4 DEF Tells, Split
<1>6. 0 \in 0 .. Len(<<>>) /\ Len(<<>>) <= RateMax
    BY LoginGuardAssumption
<1>7. <<>> \in Seq(0 .. RateTicks) /\ Sorted(<<>>)
    BY DEF Sorted
<1> QED
    BY <1>5, <1>6, <1>7 DEF RateOK

\* Nor to pop them; then all entries count.
LEMMA RatePopped ==
    ASSUME NEW h, NEW p, NEW b \in Nat, RateOK(h, p, b)
    PROVE  RateOK(Recent(h, RateTicks), p, b) /\ Split(Recent(h, RateTicks), RateTicks, 0)
<1> DEFINE new == Recent(h, RateTicks)
<1>1. Len(h) \in Nat /\ Len(p) \in Nat /\ \A i \in 1 .. Len(h) : h[i] \in 0 .. RateTicks
    BY LenProperties, ElementOfSeq DEF RateOK
<1>2. PICK k \in 0 .. Len(h) : \E m \in 0 .. Len(p) : Tells(h, p, b, k, m)
    BY DEF RateOK
<1>3. PICK m \in 0 .. Len(p) : Tells(h, p, b, k, m)
    BY <1>2
<1>4. RateTicks \in Nat /\ h \in Seq(0 .. RateTicks) /\ Sorted(h)
    BY LoginGuardAssumption DEF RateOK
<1>5. new \in Seq(0 .. RateTicks) /\ Sorted(new)
    BY <1>4, RecentIs
<1>6. PICK n \in 0 .. Len(h) : Split(h, RateTicks, n) /\ Rest(new, h, n)
    BY <1>4, RecentIs
<1> HIDE DEF new
<1>7. n = k
  <2>1. \A i \in 1 .. Len(h) : (i <= n <=> h[i] >= RateTicks) /\ (i <= k <=> h[i] >= RateTicks)
      BY <1>1, <1>3, <1>4, <1>6 DEF Tells, Split
  <2>2. CASE n < k
      BY <1>1, <2>1, <2>2
  <2>3. CASE k < n
      BY <1>1, <2>1, <2>3
  <2> QED
      BY <1>1, <2>2, <2>3
<1>8. Len(new) = Len(h) - k /\ \A i \in 1 .. Len(h) - k : new[i] = h[k + i]
    BY <1>6, <1>7 DEF Rest
<1>9. Split(new, RateTicks, 0)
  <2>1. ASSUME NEW i \in 1 .. Len(new) PROVE new[i] < RateTicks
    <3>1. new[i] = h[k + i] /\ k + i \in k + 1 .. Len(h)
        BY <1>1, <1>8, <2>1
    <3> QED
        BY <1>3, <3>1 DEF Tells, Split
  <2> QED
      BY <1>1, <1>8, <2>1 DEF Split
<1>10. Tells(new, p, b, 0, m) /\ 0 \in 0 .. Len(new) /\ Len(new) <= RateMax
    BY <1>1, <1>3, <1>8, <1>9, LoginGuardAssumption DEF Tells, RateOK
<1>11. RateOK(new, p, b)
    BY <1>5, <1>10 DEF RateOK
<1> QED
    BY <1>9, <1>11 DEF new

\* All that has passed still counts: it is what is kept of it.
LEMMA PassedIs ==
    ASSUME NEW p \in Seq(0 .. RateTicks), Sorted(p), Split(p, RateTicks, 0)
    PROVE  Recent(p, RateTicks) = p
<1>1. RateTicks \in Nat /\ Len(p) \in Nat /\ \A i \in 1 .. Len(p) : p[i] \in 0 .. RateTicks
    BY LenProperties, ElementOfSeq, LoginGuardAssumption
<1>2. Recent(p, RateTicks) \in Seq(0 .. RateTicks)
    BY <1>1, RecentIs
<1>3. PICK n \in 0 .. Len(p) : Split(p, RateTicks, n) /\ Rest(Recent(p, RateTicks), p, n)
    BY <1>1, RecentIs
<1>4. n = 0
    BY <1>1, <1>3 DEF Split
<1>5. Len(Recent(p, RateTicks)) = Len(p) /\ \A i \in 1 .. Len(p) : Recent(p,
    RateTicks)[i] = p[i]
    BY <1>1, <1>3, <1>4 DEF Rest
<1> QED
    BY <1>2, <1>5, SeqEqual

\* An attempt is let through when fewer than RateMax entries count.
LEMMA RateAdded ==
    ASSUME NEW h, NEW p, NEW b \in Nat, RateOK(h, p, b),
           Split(h, RateTicks, 0), Len(h) < RateMax
    PROVE  RateOK(Append(h, 0), Append(p, 0), b)
<1> DEFINE hh == Append(h, 0)
           pp == Append(p, 0)
<1>1. Len(h) \in Nat /\ Len(p) \in Nat /\ \A i \in 1 .. Len(h) : h[i] \in 0 .. RateTicks
    BY LenProperties, ElementOfSeq DEF RateOK
<1>2. PICK k \in 0 .. Len(h) : \E m \in 0 .. Len(p) : Tells(h, p, b, k, m)
    BY DEF RateOK
<1>3. PICK m \in 0 .. Len(p) : Tells(h, p, b, k, m)
    BY <1>2
<1>4. k = 0
  <2>1. CASE k > 0
    <3>1. 1 \in 1 .. k /\ 1 \in 1 .. Len(h)
        BY <1>1, <2>1
    <3>2. h[1] >= RateTicks /\ h[1] < RateTicks /\ h[1] \in Nat
        BY <1>1, <1>3, <3>1 DEF Tells, Split
    <3> QED
        BY <3>2, LoginGuardAssumption
  <2> QED
      BY <1>1, <2>1
<1>5. /\ hh \in Seq(0 .. RateTicks) /\ Sorted(hh) /\ Len(hh) = Len(h) + 1
      /\ \A i \in 1 .. Len(h) : hh[i] = h[i]
      /\ hh[Len(h) + 1] = 0 /\ Split(hh, RateTicks, 0)
    BY AddedIs, LoginGuardAssumption DEF RateOK
<1>6. /\ pp \in Seq(0 .. RateTicks) /\ Sorted(pp) /\ Len(pp) = Len(p) + 1
      /\ \A i \in 1 .. Len(p) : pp[i] = p[i]
      /\ pp[Len(p) + 1] = 0 /\ Split(pp, RateTicks, 0)
    BY AddedIs, LoginGuardAssumption DEF RateOK
<1> HIDE DEF hh, pp
<1>7. ASSUME NEW i \in 1 .. Len(h) + 1 PROVE pp[m + i] = hh[i]
  <2>1. Len(p) - m = Len(h)
      BY <1>1, <1>3, <1>4 DEF Tells
  <2>2. CASE i = Len(h) + 1
    <3>1. m + i = Len(p) + 1
        BY <1>1, <2>1, <2>2
    <3> QED
        BY <1>5, <1>6, <2>2, <3>1
  <2>3. CASE i # Len(h) + 1
    <3>1. i \in 1 .. Len(h) /\ i \in 1 .. Len(h) - 0 /\ m + i \in 1 .. Len(p) /\ 0 + i = i
        BY <1>1, <2>1, <2>3
    <3>2. p[m + i] = h[i]
        BY <1>3, <1>4, <3>1 DEF Tells
    <3> QED
        BY <1>5, <1>6, <3>1, <3>2
  <2> QED
      BY <2>2, <2>3
<1>8. /\ 0 \in 0 .. Len(hh) /\ m \in 0 .. Len(pp) /\ m <= b
      /\ Len(pp) - m = Len(hh) - 0 /\ Len(hh) <= RateMax
    BY <1>1, <1>3, <1>4, <1>5, <1>6, LoginGuardAssumption DEF Tells
<1>9. \A i \in 1 .. Len(hh) - 0 : pp[m + i] = hh[0 + i]
    BY <1>1, <1>5, <1>7
<1>10. Tells(hh, pp, b, 0, m)
    BY <1>5, <1>8, <1>9 DEF Tells
<1>11. RateOK(hh, pp, b)
    BY <1>5, <1>6, <1>8, <1>10 DEF RateOK
<1> QED
    BY <1>11 DEF hh, pp

\* What expires with a tick are the first entries, and the first of what has passed.
LEMMA RateTicked ==
    ASSUME NEW h, NEW p, NEW b \in Nat, RateOK(h, p, b)
    PROVE  RateOK(Older(h, RateTicks), Recent(Older(p, RateTicks), RateTicks), b)
<1> DEFINE hh == Older(h, RateTicks)
           old == Older(p, RateTicks)
           pp == Recent(old, RateTicks)
<1>1. /\ Len(h) \in Nat /\ Len(p) \in Nat /\ RateTicks \in Nat
      /\ \A i \in 1 .. Len(h) : h[i] \in 0 .. RateTicks
      /\ \A i \in 1 .. Len(p) : p[i] \in 0 .. RateTicks /\ p[i] < RateTicks
    BY SMTT(30), LenProperties, ElementOfSeq, LoginGuardAssumption DEF RateOK, Split
<1>2. PICK k \in 0 .. Len(h) : \E m \in 0 .. Len(p) : Tells(h, p, b, k, m)
    BY DEF RateOK
<1>3. PICK m \in 0 .. Len(p) : Tells(h, p, b, k, m)
    BY <1>2
<1>4. /\ m <= b /\ Len(p) - m = Len(h) - k
      /\ \A i \in 1 .. k : h[i] >= RateTicks
      /\ \A i \in k + 1 .. Len(h) : h[i] < RateTicks
      /\ \A i \in 1 .. Len(h) - k : p[m + i] = h[k + i]
    BY <1>3 DEF Tells, Split
<1>5. /\ hh \in Seq(0 .. RateTicks) /\ Sorted(hh) /\ Len(hh) = Len(h)
      /\ \A i \in 1 .. Len(h) : hh[i] = IF h[i] < RateTicks THEN h[i] + 1 ELSE RateTicks
    BY <1>1, OlderIs DEF RateOK
<1>6. /\ old \in Seq(0 .. RateTicks) /\ Sorted(old) /\ Len(old) = Len(p)
      /\ \A i \in 1 .. Len(p) : old[i] = IF p[i] < RateTicks THEN p[i] + 1 ELSE RateTicks
    BY <1>1, OlderIs DEF RateOK
<1> HIDE DEF hh, old
<1>7. pp \in Seq(0 .. RateTicks) /\ Sorted(pp)
    BY <1>1, <1>6, RecentIs
<1>8. PICK d \in 0 .. Len(p) : Split(old, RateTicks, d) /\ Rest(pp, old, d)
    BY <1>1, <1>6, RecentIs
<1> HIDE DEF pp
<1>9. /\ Len(pp) = Len(p) - d /\ \A i \in 1 .. Len(p) - d : pp[i] = old[d + i]
      /\ \A i \in 1 .. d : old[i] >= RateTicks
      /\ \A i \in d + 1 .. Len(p) : old[i] < RateTicks
    BY <1>6, <1>8 DEF Split, Rest
<1>10. Split(pp, RateTicks, 0)
  <2>1. ASSUME NEW i \in 1 .. Len(p) - d PROVE pp[i] < RateTicks
    <3>1. d + i \in d + 1 .. Len(p)
        BY <1>1, <2>1
    <3> QED
        BY <1>9, <2>1, <3>1
  <2> QED
      BY <1>1, <1>9, <2>1 DEF Split
<1>11. \A i \in 1 .. k : hh[i] >= RateTicks
    BY SMTT(30), <1>1, <1>4, <1>5
<1>12. ASSUME NEW i \in k + 1 .. Len(h)
       PROVE  m + (i - k) \in m + 1 .. Len(p) /\ hh[i] = old[m + (i - k)]
  <2>1. /\ i - k \in 1 .. Len(h) - k /\ k + (i - k) = i /\ i \in 1 .. Len(h)
        /\ m + (i - k) \in m + 1 .. Len(p) /\ m + (i - k) \in 1 .. Len(p)
      BY <1>1, <1>4
  <2>2. p[m + (i - k)] = h[i] /\ h[i] < RateTicks
      BY <1>4, <2>1
  <2> QED
      BY <1>5, <1>6, <2>1, <2>2
<1>13. ASSUME d <= m
       PROVE  \E e \in 0 .. Len(hh) : \E n \in 0 .. Len(pp) : Tells(hh, pp, b, e, n)
  <2>1. \A i \in k + 1 .. Len(h) : hh[i] < RateTicks
    <3>1. ASSUME NEW i \in k + 1 .. Len(h) PROVE hh[i] < RateTicks
      <4>1. m + (i - k) \in d + 1 .. Len(p)
          BY <1>1, <1>12, <1>13
      <4> QED
          BY <1>9, <1>12, <4>1
    <3> QED
        BY <3>1
  <2>2. ASSUME NEW i \in 1 .. Len(h) - k PROVE pp[m - d + i] = hh[k + i]
    <3>1. /\ k + i \in k + 1 .. Len(h) /\ m + (k + i - k) = m + i
          /\ m - d + i \in 1 .. Len(p) - d /\ d + (m - d + i) = m + i
        BY <1>1, <1>4, <1>13
    <3> QED
        BY <1>9, <1>12, <3>1
  <2>3. m - d \in 0 .. Len(pp) /\ m - d <= b /\ Len(pp) - (m - d) = Len(hh) - k
        /\ k \in 0 .. Len(hh)
      BY <1>1, <1>4, <1>5, <1>9, <1>13
  <2>4. Split(hh, RateTicks, k)
      BY <1>5, <1>11, <2>1, <2>3 DEF Split
  <2>5. \A i \in 1 .. Len(hh) - k : pp[m - d + i] = hh[k + i]
      BY <1>5, <2>2
  <2>6. Tells(hh, pp, b, k, m - d)
      BY <2>3, <2>4, <2>5 DEF Tells
  <2> QED
      BY <2>3, <2>6
<1>14. ASSUME m < d
       PROVE  \E e \in 0 .. Len(hh) : \E n \in 0 .. Len(pp) : Tells(hh, pp, b, e, n)
  <2> DEFINE l == k + (d - m)
  <2>1. l \in 0 .. Len(h) /\ l >= k
      BY <1>1, <1>4, <1>14
  <2>2. \A i \in 1 .. l : hh[i] >= RateTicks
    <3>1. ASSUME NEW i \in k + 1 .. l PROVE hh[i] >= RateTicks
      <4>1. i \in k + 1 .. Len(h) /\ m + (i - k) \in 1 .. d
          BY <1>1, <1>14, <2>1
      <4> QED
          BY <1>9, <1>12, <4>1
    <3> QED
        BY <1>1, <1>11, <2>1, <3>1
  <2>3. \A i \in l + 1 .. Len(h) : hh[i] < RateTicks
    <3>1. ASSUME NEW i \in l + 1 .. Len(h) PROVE hh[i] < RateTicks
      <4>1. i \in k + 1 .. Len(h) /\ m + (i - k) \in d + 1 .. Len(p)
          BY <1>1, <1>4, <1>14, <2>1
      <4> QED
          BY <1>9, <1>12, <4>1
    <3> QED
        BY <3>1
  <2>4. ASSUME NEW i \in 1 .. Len(h) - l PROVE pp[0 + i] = hh[l + i]
    <3>1. /\ l + i \in k + 1 .. Len(h) /\ m + (l + i - k) = d + i
          /\ i \in 1 .. Len(p) - d /\ 0 + i = i
        BY <1>1, <1>4, <1>14, <2>1
    <3> QED
        BY <1>9, <1>12, <3>1
  <2>5. 0 \in 0 .. Len(pp) /\ 0 <= b /\ Len(pp) - 0 = Len(hh) - l /\ l \in 0 .. Len(hh)
      BY <1>1, <1>4, <1>5, <1>9, <2>1
  <2> HIDE DEF l
  <2>6. Split(hh, RateTicks, l)
      BY <1>5, <2>2, <2>3, <2>5 DEF Split
  <2>7. \A i \in 1 .. Len(hh) - l : pp[0 + i] = hh[l + i]
      BY <1>5, <2>4
  <2>8. Tells(hh, pp, b, l, 0)
      BY <2>5, <2>6, <2>7 DEF Tells
  <2> QED
      BY <2>5, <2>8
<1>15. \E e \in 0 .. Len(hh) : \E n \in 0 .. Len(pp) : Tells(hh, pp, b, e, n)
    BY <1>1, <1>13, <1>14
<1>16. RateOK(hh, pp, b)
    BY <1>5, <1>7, <1>10, <1>15 DEF RateOK
<1> QED
    BY <1>16 DEF hh, pp, old

-----------------------------------------------------------------------------
(* The invariant.                                                          *)

\* For every source: a restart accounts for another RateMax of what has passed.
RateInv ==
    /\ hits \in [Sources -> Seq(0 .. RateTicks)]
    /\ passed \in [Sources -> Seq(0 .. RateTicks)]
    /\ restarts \in 0 .. MaxRestarts
    /\ \A s \in Sources : RateOK(hits[s], passed[s], restarts * RateMax)

Inv == WindowInv /\ RateInv

\* What the restarts allow is a number.
LEMMA Forgivable == ASSUME RateInv PROVE restarts \in Nat /\ restarts * RateMax \in Nat
BY LoginGuardAssumption DEF RateInv

\* The invariant is strong enough.
LEMMA InvGives == Inv => GuessingIsBounded
<1> SUFFICES ASSUME Inv PROVE GuessingIsBounded
    OBVIOUS
<1>1. WindowInv /\ RateInv
    BY DEF Inv
<1>2. GuessesBounded
    BY <1>1, WindowFew
<1>3. ASSUME NEW s \in Sources PROVE Len(passed[s]) <= (1 + restarts) * RateMax
  <2>1. restarts * RateMax \in Nat /\ restarts \in Nat
      BY <1>1, Forgivable
  <2>2. RateOK(hits[s], passed[s], restarts * RateMax)
      BY <1>1 DEF RateInv
  <2>3. Len(passed[s]) <= restarts * RateMax + RateMax
      BY <2>1, <2>2, RateFew
  <2>4. (1 + restarts) * RateMax = restarts * RateMax + RateMax
      BY <2>1, LoginGuardAssumption
  <2> QED
      BY <2>3, <2>4
<1>4. GuardTypeOK
    BY <1>1 DEF WindowInv, RateInv, RateOK, GuardTypeOK
<1> QED
    BY <1>2, <1>3, <1>4 DEF GuessingIsBounded, RateHolds

\* It holds at first: no failure, no entry.
LEMMA InitInv == GuardInit => Inv
<1> SUFFICES ASSUME GuardInit PROVE Inv
    OBVIOUS
<1> USE LoginGuardAssumption
<1>1. <<>> \in Seq(0 .. RateTicks) /\ <<>> \in Seq(0 .. LockTicks) /\ Sorted(<<>>)
    BY DEF Sorted
<1>2. WindowInv
    BY <1>1 DEF GuardInit, WindowInv
<1>3. Tells(<<>>, <<>>, 0, 0, 0) /\ Split(<<>>, RateTicks, 0)
    BY DEF Tells, Split
<1>4. 0 \in 0 .. Len(<<>>) /\ Len(<<>>) <= RateMax
    OBVIOUS
<1>5. RateOK(<<>>, <<>>, 0)
    BY <1>1, <1>3, <1>4 DEF RateOK
<1>6. restarts * RateMax = 0 /\ restarts \in 0 .. MaxRestarts
    BY DEF GuardInit
<1>7. /\ hits \in [Sources -> Seq(0 .. RateTicks)]
      /\ passed \in [Sources -> Seq(0 .. RateTicks)]
      /\ \A s \in Sources : hits[s] = <<>> /\ passed[s] = <<>>
    BY <1>1 DEF GuardInit
<1> QED
    BY <1>2, <1>5, <1>6, <1>7 DEF Inv, RateInv

\* An idle source has no entry that counts: the last one is the youngest.
LEMMA IdleCounts ==
    ASSUME NEW h \in Seq(0 .. RateTicks), Sorted(h), h # <<>>, h[Len(h)] >= RateTicks
    PROVE  \A i \in 1 .. Len(h) : h[i] >= RateTicks
<1>1. Len(h) \in Nat /\ Len(h) # 0
    BY LenProperties, EmptySeq
<1>2. ASSUME NEW i \in 1 .. Len(h) PROVE h[i] >= RateTicks
  <2>1. \A j \in 1 .. Len(h) : h[j] \in 0 .. RateTicks
      BY ElementOfSeq
  <2>2. Len(h) \in 1 .. Len(h)
      BY <1>1
  <2>3. h[i] >= h[Len(h)] /\ h[i] \in 0 .. RateTicks /\ h[Len(h)] \in 0 .. RateTicks
      BY <1>1, <2>1, <2>2 DEF Sorted
  <2> QED
      BY <2>3, LoginGuardAssumption
<1> QED
    BY <1>2

\* A judgement sweeps, pops and, when it lets the attempt pass, counts it in both.
LEMMA JudgeRate ==
    ASSUME RateInv, NEW s \in Sources, NEW passes \in BOOLEAN, Judge(s, passes),
           UNCHANGED restarts
    PROVE  RateInv'
<1> DEFINE b == restarts * RateMax
           kept == IF Cardinality(Known) > SweepAbove
                   THEN [t \in Sources |-> IF t \in Known /\ Lapsed(t) THEN <<>> ELSE hits[t]]
                   ELSE hits
           swept == Swept(s)
<1>1. b \in Nat
    BY Forgivable
<1>2. swept = [kept EXCEPT ![s] = Recent(@, RateTicks)]
    BY DEF Swept
<1>3. ASSUME NEW t \in Sources PROVE RateOK(kept[t], passed[t], b)
  <2>1. RateOK(hits[t], passed[t], b)
      BY DEF RateInv
  <2>2. CASE kept[t] = hits[t]
      BY <2>1, <2>2, Zenon
  <2>3. CASE kept[t] # hits[t]
    <3>1. kept[t] = <<>> /\ t \in Known /\ Lapsed(t)
        BY <2>3
    <3>2. \A i \in 1 .. Len(hits[t]) : hits[t][i] >= RateTicks
        BY <2>1, <3>1, IdleCounts DEF RateOK, Known, Lapsed
    <3>3. RateOK(<<>>, passed[t], b)
        BY <1>1, <2>1, <3>2, RateForgotten
    <3> QED
        BY <3>1, <3>3, Zenon
  <2> QED
      BY <2>2, <2>3
<1>4. \A t \in Sources : kept[t] \in Seq(0 .. RateTicks)
    BY <1>3 DEF RateOK
<1>5. kept \in [Sources -> Seq(0 .. RateTicks)]
  <2>1. kept = [t \in Sources |-> kept[t]]
      BY DEF RateInv
  <2> HIDE DEF kept
  <2> QED
      BY <1>4, <2>1
<1> HIDE DEF kept, b, swept
<1>6. RateOK(Recent(kept[s], RateTicks), passed[s], b)
      /\ Split(Recent(kept[s], RateTicks), RateTicks, 0)
    BY <1>1, <1>3, RatePopped
<1>7. swept \in [Sources -> Seq(0 .. RateTicks)]
    BY <1>2, <1>5, <1>6 DEF RateOK
<1>8. swept[s] = Recent(kept[s], RateTicks) /\ \A t \in Sources \ {s} : swept[t] = kept[t]
    BY <1>2, <1>5, Zenon
<1>9. RateOK(swept[s], passed[s], b) /\ Split(swept[s], RateTicks, 0)
    BY <1>6, <1>8, Zenon
<1>10. \A t \in Sources \ {s} : RateOK(swept[t], passed[t], b)
    BY <1>3, <1>8, Zenon
<1>11. restarts' \in 0 .. MaxRestarts /\ restarts' * RateMax = b
    BY DEF RateInv, b
<1>12. CASE passes = FALSE
  <2>1. hits' = swept /\ passed' = passed
      BY <1>12 DEF Judge, swept
  <2>2. \A t \in Sources : RateOK(hits'[t], passed'[t], b)
      BY <1>9, <1>10, <2>1, Zenon
  <2>3. passed' \in [Sources -> Seq(0 .. RateTicks)]
      BY <2>1 DEF RateInv
  <2>4. hits' \in [Sources -> Seq(0 .. RateTicks)]
      BY <1>7, <2>1, Zenon
  <2> QED
      BY <1>11, <2>2, <2>3, <2>4, Zenon DEF RateInv
<1>13. CASE passes = TRUE
  <2>1. /\ hits' = [swept EXCEPT ![s] = Append(@, 0)]
        /\ passed' = [passed EXCEPT ![s] = Append(Recent(@, RateTicks), 0)]
        /\ Len(swept[s]) < RateMax
      BY <1>13 DEF Judge, swept
  <2>2. passed \in [Sources -> Seq(0 .. RateTicks)]
      BY DEF RateInv
  <2>3. Recent(passed[s], RateTicks) = passed[s]
      BY <1>9, PassedIs DEF RateOK
  <2>4. RateOK(Append(swept[s], 0), Append(passed[s], 0), b)
      BY <1>1, <1>9, <2>1, RateAdded
  <2>5. /\ hits'[s] = Append(swept[s], 0)
        /\ \A t \in Sources \ {s} : hits'[t] = swept[t]
      BY <1>7, <2>1, Zenon
  <2>6. /\ passed'[s] = Append(Recent(passed[s], RateTicks), 0)
        /\ \A t \in Sources \ {s} : passed'[t] = passed[t]
      BY <2>1, <2>2, Zenon
  <2>7. passed'[s] = Append(passed[s], 0)
      BY <2>3, <2>6, Zenon
  <2>8. \A t \in Sources : RateOK(hits'[t], passed'[t], b)
      BY <1>10, <2>4, <2>5, <2>6, <2>7, Zenon
  <2>9. Append(swept[s], 0) \in Seq(0 .. RateTicks) /\ Append(passed[s],
      0) \in Seq(0 .. RateTicks)
      BY <2>4 DEF RateOK
  <2>10. hits' \in [Sources -> Seq(0 .. RateTicks)]
      BY <1>7, <2>1, <2>9
  <2>11. passed' = [passed EXCEPT ![s] = Append(passed[s], 0)]
      BY <2>1, <2>2, <2>3
  <2>12. passed' \in [Sources -> Seq(0 .. RateTicks)]
      BY <2>2, <2>9, <2>11
  <2> QED
      BY <1>11, <2>8, <2>10, <2>12, Zenon DEF RateInv
<1> QED
    BY <1>12, <1>13

\* Time makes the same entries expire in both, or more of what has passed.
LEMMA TickRate == ASSUME RateInv, Tick PROVE RateInv'
<1> DEFINE b == restarts * RateMax
<1>1. b \in Nat
    BY Forgivable
<1>2. /\ hits' = [s \in Sources |-> Older(hits[s], RateTicks)]
      /\ passed' = [s \in Sources |-> Recent(Older(passed[s], RateTicks), RateTicks)]
      /\ restarts' = restarts
    BY DEF Tick
<1>3. restarts' * RateMax = b /\ restarts' \in 0 .. MaxRestarts
    BY <1>2 DEF RateInv
<1>4. \A s \in Sources : RateOK(hits[s], passed[s], b)
    BY DEF RateInv
<1> HIDE DEF b
<1>5. \A s \in Sources : RateOK(hits'[s], passed'[s], b)
  <2>1. ASSUME NEW s \in Sources PROVE RateOK(hits'[s], passed'[s], b)
    <3>1. RateOK(Older(hits[s], RateTicks), Recent(Older(passed[s], RateTicks), RateTicks), b)
        BY <1>1, <1>4, RateTicked
    <3>2. /\ hits'[s] = Older(hits[s], RateTicks)
          /\ passed'[s] = Recent(Older(passed[s], RateTicks), RateTicks)
        BY <1>2, Zenon
    <3> QED
        BY <3>1, <3>2, Zenon
  <2> QED
      BY <2>1
<1>6. \A s \in Sources : hits'[s] \in Seq(0 .. RateTicks) /\ passed'[s] \in Seq(0 .. RateTicks)
    BY <1>5 DEF RateOK
<1>7. hits' = [s \in Sources |-> hits'[s]] /\ passed' = [s \in Sources |-> passed'[s]]
    BY <1>2, Zenon
<1>8. hits' \in [Sources -> Seq(0 .. RateTicks)] /\ passed' \in [Sources -> Seq(0 .. RateTicks)]
    BY <1>6, <1>7, Zenon
<1> QED
    BY <1>3, <1>5, <1>8, Zenon DEF RateInv

\* A restart empties the limiter for every source.
LEMMA RestartRate == ASSUME RateInv, Restart PROVE RateInv'
<1> DEFINE b == restarts * RateMax
<1>1. b \in Nat /\ restarts \in Nat
    BY Forgivable
<1>2. /\ hits' = [s \in Sources |-> <<>>] /\ passed' = passed /\ restarts' = restarts + 1
      /\ restarts < MaxRestarts
    BY DEF Restart
<1>3. restarts' * RateMax = b + RateMax /\ restarts' \in 0 .. MaxRestarts
    BY <1>1, <1>2, LoginGuardAssumption
<1>4. \A s \in Sources : RateOK(hits[s], passed[s], b)
    BY DEF RateInv
<1> HIDE DEF b
<1>5. \A s \in Sources : RateOK(<<>>, passed[s], b + RateMax)
    BY <1>1, <1>4, RateRestarted
<1>6. \A s \in Sources : RateOK(hits'[s], passed'[s], b + RateMax)
    BY <1>2, <1>5, Zenon
<1>7. hits' \in [Sources -> Seq(0 .. RateTicks)] /\ passed' \in [Sources -> Seq(0 .. RateTicks)]
    BY <1>2 DEF RateInv
<1> QED
    BY <1>3, <1>6, <1>7, Zenon DEF RateInv

\* Every step preserves it: the row by the lemmas on the lock, the entries by those on the limiter.
LEMMA NextInv == Inv /\ [GuardNext]_guardVars => Inv'
<1> SUFFICES ASSUME WindowInv, RateInv, [GuardNext]_guardVars PROVE WindowInv' /\ RateInv'
    BY DEF Inv
<1>1. ASSUME NEW s \in Sources, Limited(s) PROVE WindowInv' /\ RateInv'
  <2>1. UNCHANGED <<lockRow, failures>> /\ UNCHANGED restarts /\ Judge(s, FALSE)
      BY <1>1 DEF Limited
  <2> QED
      BY <2>1, JudgeRate, RestWindow
<1>2. ASSUME NEW s \in Sources, Malformed(s) PROVE WindowInv' /\ RateInv'
  <2>1. UNCHANGED <<lockRow, failures>> /\ UNCHANGED restarts /\ Judge(s, TRUE)
      BY <1>2 DEF Malformed
  <2> QED
      BY <2>1, JudgeRate, RestWindow
<1>3. ASSUME NEW s \in Sources, TryLocked(s) PROVE WindowInv' /\ RateInv'
  <2>1. UNCHANGED <<lockRow, failures>> /\ UNCHANGED restarts /\ Judge(s, TRUE)
      BY <1>3 DEF TryLocked, Refuse
  <2> QED
      BY <2>1, JudgeRate, RestWindow
<1>4. ASSUME NEW s \in Sources, Fail(s) PROVE WindowInv' /\ RateInv'
  <2>1. UNCHANGED restarts /\ Judge(s, TRUE)
      BY <1>4 DEF Fail
  <2> QED
      BY <1>4, <2>1, JudgeRate, FailWindow
<1>5. ASSUME NEW s \in Sources, Succeed(s) PROVE WindowInv' /\ RateInv'
  <2>1. UNCHANGED restarts /\ Judge(s, TRUE)
      BY <1>5 DEF Succeed
  <2> QED
      BY <1>5, <2>1, JudgeRate, SucceedWindow
<1>6. CASE Tick
    BY <1>6, TickWindow, TickRate
<1>7. CASE Restart
  <2>1. UNCHANGED <<lockRow, failures>>
      BY <1>7 DEF Restart
  <2> QED
      BY <1>7, <2>1, RestartRate, RestWindow
<1>8. CASE UNCHANGED guardVars
  <2>1. UNCHANGED <<lockRow, failures>> /\ UNCHANGED <<hits, passed, restarts>>
      BY <1>8 DEF guardVars, lockRow
  <2>2. RateInv'
      BY <2>1 DEF RateInv
  <2> QED
      BY <2>1, <2>2, RestWindow
<1> QED
    BY <1>1, <1>2, <1>3, <1>4, <1>5, <1>6, <1>7, <1>8 DEF GuardNext

\* So it holds always, and what it implies.
LEMMA Always == GuardSpec => []GuessingIsBounded
<1>1. Inv => GuessingIsBounded
    BY InvGives
<1> QED
    BY <1>1, InitInv, NextInv, PTL DEF GuardSpec

-----------------------------------------------------------------------------

\* The counters, the lock and the histories keep their types: no more than LockAfter failures are
\* counted, and the limiter keeps no more than RateMax entries for a source.
THEOREM GuardTypeCorrect == GuardSpec => []GuardTypeOK
<1>1. GuessingIsBounded => GuardTypeOK
    BY DEF GuessingIsBounded
<1> QED
    BY <1>1, Always, PTL

\* Whatever the guessers do, and however often the daemon restarts, the row takes no more than
\* 2 * LockAfter - 2 wrong passwords within the length of a lock.
THEOREM FewGuesses == GuardSpec => []GuessesBounded
<1>1. GuessingIsBounded => GuessesBounded
    BY DEF GuessingIsBounded
<1> QED
    BY <1>1, Always, PTL

\* A source passes the limiter at most RateMax times in its window, and as often again for every
\* restart: the sweep of idle sources forgets nothing that counts.
THEOREM FewAttempts == GuardSpec => []RateHolds
<1>1. GuessingIsBounded => RateHolds
    BY DEF GuessingIsBounded
<1> QED
    BY <1>1, Always, PTL

\* The lock and the limiter together.
THEOREM GuessingBounded == GuardSpec => []GuessingIsBounded
BY Always
=============================================================================
