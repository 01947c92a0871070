------------------------------ MODULE Accounts ------------------------------
(***************************************************************************)
(* Users, their sessions and their tokens in mandraked                     *)
(* (crates/mandraked/src/routes/{users,auth,tokens}.rs and                 *)
(* auth/{session,extract}.rs).                                             *)
(*                                                                         *)
(* A request is several database calls: it authenticates, it may read the  *)
(* user it is about, it writes, and it writes the audit row.  No other     *)
(* runs during a call; between two of them other requests run, and what    *)
(* the request remembers of the earlier ones may no longer be so.  The     *)
(* handler may be dropped (request timeout) between any two, and the       *)
(* daemon may die anywhere: its statements are transactions of their own,  *)
(* so a call of two may be done by half.                                   *)
(*                                                                         *)
(* Abstracted: names, hashes and their check (a password is a number, its  *)
(* version), expiry times (a session may end at any moment), lockout       *)
(* (LoginGuard), the roles below admin (one stands for both).              *)
(***************************************************************************)
EXTENDS Naturals, FiniteSets

CONSTANTS
    Users,        \* ids; an id is never given twice
    Sessions,     \* session hashes, given again once nobody remembers them
    Tokens,       \* token ids, never given twice
    Requests,     \* request handlers that may run at once
    Root,         \* the peer of the root socket
    Nobody,       \* no user
    Patches,      \* the bodies of PATCH that are tried
    MaxRequests,  \* bound: requests that change something
    MaxPassword,  \* bound: versions of a password
    MaxMishaps    \* bound: handlers dropped, deaths of the daemon

Roles == {"admin", "other"}

ASSUME AccountsAssumption ==
    /\ IsFiniteSet(Users)
    /\ Nobody \notin Users \cup Sessions \cup Tokens
    /\ Root \notin Users \cup Sessions \cup Tokens
    /\ Sessions \cap Tokens = {}
    /\ Patches \subseteq [role : Roles \cup {"keep"}, disabled : {"yes", "no", "keep"}]
    /\ MaxRequests \in Nat
    /\ MaxPassword \in Nat
    /\ MaxMishaps \in Nat

VARIABLES
    user,       \* user[u]: the row of u
    session,    \* session[s]: the row of s
    token,      \* token[t]: the owner of t; Nobody before and after
    spent,      \* tokens that have existed
    req,        \* req[r]: what the handler r remembers
    reply,      \* reply[r]: the last answer of r, the last-admin refusal or not
    begun,      \* requests so far
    mishaps,    \* how many of those there have been
    overlapped, \* two requests that change something have overlapped
    torn        \* users whose row was written and whose sessions should have ended with it

vars == <<user, session, token, spent, req, reply, begun, mishaps, overlapped, torn>>

Kinds == {"create", "update", "delete", "password", "token", "revoke"}
Steps == {"idle", "find", "commit", "record"}
NoPatch == [role |-> "keep", disabled |-> "keep"]

\* life: absent, then present, then deleted for good.
User == [life : {"absent", "present", "deleted"}, role : Roles,
         disabled : BOOLEAN, pw : 0 .. MaxPassword]
\* kept: the last change of its user's password was made from this session.
Session == [user : Users \cup {Nobody}, pw : 0 .. MaxPassword, kept : BOOLEAN]
NoSession == [user |-> Nobody, pw |-> 0, kept |-> FALSE]
\* by: the caller, keep: its session; guarded: loses_admin or was_admin.
Request == [at : Steps, kind : Kinds \cup {"none"}, target : Users \cup {Nobody},
            which : Tokens \cup {Nobody}, patch : Patches \cup {NoPatch},
            by : Users \cup {Root, Nobody}, keep : Sessions \cup {Nobody},
            guarded : BOOLEAN]
Idle == [at |-> "idle", kind |-> "none", target |-> Nobody, which |-> Nobody,
         patch |-> NoPatch, by |-> Nobody, keep |-> Nobody, guarded |-> FALSE]
Replies == {"last-admin", "other"}

TypeOK ==
    /\ user \in [Users -> User]
    /\ session \in [Sessions -> Session]
    /\ token \in [Tokens -> Users \cup {Nobody}]
    /\ spent \subseteq Tokens
    /\ req \in [Requests -> Request]
    /\ reply \in [Requests -> Replies]
    /\ begun \in 0 .. MaxRequests
    /\ mishaps \in 0 .. MaxMishaps
    /\ overlapped \in BOOLEAN
    /\ torn \subseteq Users

Present(u) == user[u].life = "present"
EnabledAdmin(u) == Present(u) /\ user[u].role = "admin" /\ ~user[u].disabled
EnabledAdmins == {u \in Users : EnabledAdmin(u)}

\* Some users exist, one of them an enabled admin (first boot sees to it);
\* nobody has logged in.
Init ==
    /\ user \in [Users -> {x \in User : x.life # "deleted" /\ x.pw = 0
                             /\ (x.life = "absent" => x.role = "other" /\ ~x.disabled)}]
    /\ EnabledAdmins # {}
    /\ session = [s \in Sessions |-> NoSession]
    /\ token = [t \in Tokens |-> Nobody]
    /\ spent = {}
    /\ req = [r \in Requests |-> Idle]
    /\ reply = [r \in Requests |-> "other"]
    /\ begun = 0 /\ mishaps = 0 /\ overlapped = FALSE /\ torn = {}

-----------------------------------------------------------------------------
(* Sessions: login, logout, expiry and the sweep.                          *)

\* attempt() checks the password and the disabled flag and makes the session
\* in one call.
Login(s, u) ==
    /\ session[s] = NoSession
    /\ \A r \in Requests : req[r].keep # s
    /\ Present(u) /\ ~user[u].disabled
    /\ session' = [session EXCEPT ![s] = [user |-> u, pw |-> user[u].pw, kept |-> FALSE]]
    /\ UNCHANGED <<user, token, spent, req, reply, begun, mishaps, overlapped, torn>>

EndSession(s) ==
    /\ session[s] # NoSession
    /\ session' = [session EXCEPT ![s] = NoSession]
    /\ UNCHANGED <<user, token, spent, req, reply, begun, mishaps, overlapped, torn>>

\* Mutant of Ended: the sessions stay.
EndedNone(u) == session

\* delete_for_user(u, None)
Ended(u) == [s \in Sessions |-> IF session[s].user = u THEN NoSession ELSE session[s]]

-----------------------------------------------------------------------------
(* Requests.                                                               *)

\* Who a credential speaks for at this moment: lookup_session, lookup_token,
\* the socket.
Caller(c) ==
    CASE c = Root -> Root
      [] c \in Sessions \cup Tokens ->
            LET u == IF c \in Sessions THEN session[c].user ELSE token[c] IN
            IF u # Nobody /\ Present(u) /\ ~user[u].disabled THEN u ELSE Nobody

IsAdmin(caller) == caller = Root \/ (caller \in Users /\ user[caller].role = "admin")

\* The checks a handler makes before its first database call of its own.
Allowed(caller, kind, target, patch) ==
    CASE kind = "create" -> IsAdmin(caller)
      [] kind = "update" -> /\ IsAdmin(caller)
                            /\ caller = target => /\ patch.role # "other"
                                                  /\ patch.disabled # "yes"
      [] kind = "delete" -> IsAdmin(caller) /\ caller # target
      [] OTHER -> caller = target \/ IsAdmin(caller)

Begin(r, c, kind, target, patch) ==
    /\ req[r].at = "idle"
    /\ begun < MaxRequests
    /\ Caller(c) # Nobody
    /\ Allowed(Caller(c), kind, target, patch)
    /\ begun' = begun + 1
    /\ req' = [req EXCEPT ![r] =
                 [at |-> IF kind \in {"create", "token"} THEN "commit" ELSE "find",
                  kind |-> kind, target |-> target, which |-> Nobody, patch |-> patch,
                  by |-> Caller(c), keep |-> IF c \in Sessions THEN c ELSE Nobody,
                  guarded |-> FALSE]]
    /\ reply' = [reply EXCEPT ![r] = "other"]
    /\ overlapped' = (overlapped \/ \E q \in Requests : req[q].at # "idle")
    /\ UNCHANGED <<user, session, token, spent, mishaps, torn>>

Answer(r, what) ==
    /\ req' = [req EXCEPT ![r] = Idle]
    /\ reply' = [reply EXCEPT ![r] = what]

\* The change is made; its audit row is still to be written.
Committed(r) ==
    /\ req' = [req EXCEPT ![r].at = "record"]
    /\ UNCHANGED reply

TakesAdmin(patch) == patch.role = "other" \/ patch.disabled = "yes"

\* The handler reads the row it is about and decides, from that, whether the
\* write needs the last-admin check.
Guarded(r) ==
    LET u == req[r].target IN
    /\ EnabledAdmin(u)
    /\ \/ req[r].kind = "delete"
       \/ req[r].kind = "update" /\ TakesAdmin(req[r].patch)

Find(r) ==
    /\ req[r].at = "find"
    /\ \/ /\ req[r].kind # "revoke"
          /\ Present(req[r].target)
          /\ req' = [req EXCEPT ![r] = [@ EXCEPT !.at = "commit", !.guarded = Guarded(r)]]
          /\ UNCHANGED reply
       \/ /\ req[r].kind = "revoke"
          /\ \E t \in Tokens : /\ token[t] = req[r].target
                               /\ req' = [req EXCEPT ![r] = [@ EXCEPT !.at = "commit", !.which = t]]
          /\ UNCHANGED reply
       \/ /\ IF req[r].kind = "revoke" THEN \A t \in Tokens : token[t] # req[r].target
                                       ELSE ~Present(req[r].target)
          /\ Answer(r, "other")
    /\ UNCHANGED <<user, session, token, spent, begun, mishaps, overlapped, torn>>

Create(r) ==
    LET u == req[r].target IN
    /\ req[r].kind = "create"
    /\ IF user[u].life = "absent"
       THEN /\ \E role \in Roles :
                  user' = [user EXCEPT ![u] = [life |-> "present", role |-> role,
                                               disabled |-> FALSE, pw |-> 0]]
            /\ Committed(r)
       ELSE Answer(r, "other") /\ UNCHANGED user
    /\ UNCHANGED <<session, token, spent>>

\* Mutant of LastAdmin: the count is off by one.
LastAdminOff(r) == req[r].guarded /\ Cardinality(EnabledAdmins) < 1

\* The check inside the write: is it needed, and is nobody else left?
LastAdmin(r) == req[r].guarded /\ Cardinality(EnabledAdmins) <= 1

Patched(row, patch) ==
    [row EXCEPT !.role = IF patch.role = "keep" THEN @ ELSE patch.role,
                !.disabled = CASE patch.disabled = "keep" -> @
                               [] patch.disabled = "yes" -> TRUE
                               [] patch.disabled = "no" -> FALSE]

\* An UPDATE that finds no row changes nothing; the row read back is then
\* missing, and the handler takes that for the last-admin refusal.
Update(r) ==
    LET u == req[r].target
        patch == req[r].patch
    IN
    /\ req[r].kind = "update"
    /\ IF LastAdmin(r)
       THEN Answer(r, "last-admin") /\ UNCHANGED <<user, session>>
       ELSE /\ user' = IF Present(u) THEN [user EXCEPT ![u] = Patched(@, patch)] ELSE user
            /\ session' = IF patch.disabled = "yes" THEN Ended(u) ELSE session
            /\ IF Present(u) THEN Committed(r) ELSE Answer(r, "last-admin")
    /\ UNCHANGED <<token, spent>>

\* Sessions and tokens go with their user (ON DELETE CASCADE).
Delete(r) ==
    LET u == req[r].target IN
    /\ req[r].kind = "delete"
    /\ IF LastAdmin(r)
       THEN Answer(r, "last-admin") /\ UNCHANGED <<user, session, token>>
       ELSE /\ user' = [user EXCEPT ![u].life = "deleted"]
            /\ session' = Ended(u)
            /\ token' = [t \in Tokens |-> IF token[t] = u THEN Nobody ELSE token[t]]
            /\ Committed(r)
    /\ UNCHANGED spent

\* Mutant of Spared: every session of the caller survives, not just the one the
\* request came with.
SparedAll(r, s) == session[s].user = req[r].by

Spared(r, s) == s = req[r].keep

\* Changing one's own password takes the current one: the caller has it right or
\* is refused.  Only the session the request came with survives.
SetPassword(r) ==
    LET u == req[r].target IN
    /\ req[r].kind = "password"
    /\ \/ /\ req[r].by = u
          /\ Answer(r, "other")
          /\ UNCHANGED <<user, session>>
       \/ /\ Present(u)
          /\ user[u].pw < MaxPassword
          /\ user' = [user EXCEPT ![u].pw = @ + 1]
          /\ session' = [s \in Sessions |->
                           IF session[s].user # u THEN session[s]
                           ELSE IF Spared(r, s)
                                THEN [session[s] EXCEPT !.kept = s = req[r].keep]
                                ELSE NoSession]
          /\ Committed(r)
       \/ /\ ~Present(u) /\ req[r].by # u
          /\ Committed(r)
          /\ UNCHANGED <<user, session>>
    /\ UNCHANGED <<token, spent>>

CreateToken(r) ==
    /\ req[r].kind = "token"
    /\ IF Present(req[r].target)
       THEN /\ \E t \in Tokens \ spent :
                  /\ token' = [token EXCEPT ![t] = req[r].target]
                  /\ spent' = spent \cup {t}
            /\ Committed(r)
       ELSE Answer(r, "other") /\ UNCHANGED <<token, spent>>
    /\ UNCHANGED <<user, session>>

Revoke(r) ==
    /\ req[r].kind = "revoke"
    /\ token' = [token EXCEPT ![req[r].which] = Nobody]
    /\ Committed(r)
    /\ UNCHANGED <<user, session, spent>>

Commit(r) ==
    /\ req[r].at = "commit"
    /\ \/ Create(r) \/ Update(r) \/ Delete(r) \/ SetPassword(r)
       \/ CreateToken(r) \/ Revoke(r)
    /\ torn' = IF session' = session THEN torn ELSE torn \ {req[r].target}
    /\ UNCHANGED <<begun, mishaps, overlapped>>

\* The audit row, which nothing here reads: a handler that is dropped before it
\* has written the row takes this step as well.
RecordAudit(r) ==
    /\ req[r].at = "record"
    /\ Answer(r, "other")
    /\ UNCHANGED <<user, session, token, spent, begun, mishaps, overlapped, torn>>

DropHandler(r) ==
    /\ req[r].at \in {"find", "commit"}
    /\ mishaps < MaxMishaps
    /\ mishaps' = mishaps + 1
    /\ Answer(r, "other")
    /\ UNCHANGED <<user, session, token, spent, begun, overlapped, torn>>

\* The first statement of a call that goes on to end sessions.
FirstStatement(r) ==
    LET u == req[r].target
    IN  /\ req[r].at = "commit" /\ Present(u) /\ ~LastAdmin(r)
        /\ \/ /\ req[r].kind = "update" /\ req[r].patch.disabled = "yes"
              /\ user' = [user EXCEPT ![u] = Patched(@, req[r].patch)]
           \/ /\ req[r].kind = "password" /\ user[u].pw < MaxPassword
              /\ user' = [user EXCEPT ![u].pw = @ + 1]
        /\ torn' = torn \cup {u}

\* The daemon dies, between calls or within one, and is started again.
Die ==
    /\ mishaps < MaxMishaps
    /\ mishaps' = mishaps + 1
    /\ req' = [r \in Requests |-> Idle]
    /\ reply' = [r \in Requests |-> "other"]
    /\ UNCHANGED <<user, torn>> \/ \E r \in Requests : FirstStatement(r)
    /\ UNCHANGED <<session, token, spent, begun, overlapped>>

Credentials == {Root} \cup Sessions \cup Tokens

Next ==
    \/ \E s \in Sessions : EndSession(s) \/ \E u \in Users : Login(s, u)
    \/ \E r \in Requests :
          \/ \E c \in Credentials, kind \in Kinds, u \in Users :
                \E patch \in IF kind = "update" THEN Patches ELSE {NoPatch} :
                   Begin(r, c, kind, u, patch)
          \/ Find(r) \/ Commit(r) \/ RecordAudit(r) \/ DropHandler(r)
    \/ Die

Spec == Init /\ [][Next]_vars

-----------------------------------------------------------------------------
(* Properties.                                                             *)

\* A session belongs to a present, enabled user and a token to a present one,
\* however logins and token requests cross disabling and deletion.  Only a death within
\* the call that disables a user leaves one sessions, until the next call that ends them.
CredentialsHaveOwners ==
    /\ TypeOK
    /\ \A s \in Sessions : session[s] # NoSession =>
          LET u == session[s].user
          IN  Present(u) /\ (user[u].disabled => u \in torn)
    /\ \A t \in Tokens : token[t] # Nobody => Present(token[t])

\* No session outlives a change of the password it was opened with, but the one
\* its user made the change from, and those of a change that a death has cut in two.
OldPasswordEndsSessions ==
    \A s \in Sessions : session[s] # NoSession =>
        \/ session[s].pw = user[session[s].user].pw
        \/ session[s].kept
        \/ session[s].user \in torn

AdminRemains == ~overlapped => EnabledAdmins # {}

\* Who is told "this is the last enabled admin" asked about the one enabled admin.
RefusedIsLast ==
    \A r \in Requests :
       ~overlapped /\ reply[r] # "last-admin" /\ reply'[r] = "last-admin" =>
          EnabledAdmins = {req[r].target}

\* The last admin stays, and nobody else is refused as such (routes/users.rs:234, 283), as
\* long as requests do not overlap, handlers dropped half way included.
LastAdminIsKept == [][AdminRemains' /\ RefusedIsLast]_vars
=============================================================================
