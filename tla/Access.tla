-------------------------------- MODULE Access --------------------------------
(***************************************************************************)
(* Users, browser sessions and the personal tokens of the MCP endpoint.    *)
(* Issuing, rotating and revoking a token, editing and deleting its owner  *)
(* are transactions that wait for each other's row locks; a request is     *)
(* answered from what its session lookup finds.                            *)
(***************************************************************************)
EXTENDS Integers, FiniteSets

CONSTANTS
  Users,
  MaxTokens,     \* bound on the token rows created
  Threads,       \* request threads
  None,
  MaxActive,     \* MAX_ACTIVE_TOKENS_PER_OWNER
  Lifetime,      \* expires_in_days of a new token, in units of the clock
  Grace,         \* the grace periods of a rotation
  MaxTime,       \* bound on the clock
  MaxSessions,   \* bound on the sessions alive at a time
  MaxRequests    \* bound on the requests other than the issue of a token

VARIABLES
  now,
  user,          \* user |-> [active], or None once deleted
  token,         \* id |-> [owner, expires, revoked], or None
  session,       \* sessions [user, token, expires]: neither revoked nor removed
  locked,        \* row locks: user or token |-> thread, or None
  job,           \* thread |-> what it does
  requests,
  lived          \* tokens whose revocation or deletion was acknowledged

vars == <<now, user, token, session, locked, job, requests, lived>>

Tokens == 1..MaxTokens

Idle == [op |-> "idle", at |-> "idle", user |-> None, token |-> None, since |-> 0, until |-> 0]

Init ==
  /\ now = 0
  /\ user = [u \in Users |-> [active |-> TRUE]]
  /\ token = [k \in Tokens |-> None]
  /\ session = {}
  /\ locked = [r \in Users \cup Tokens |-> None]
  /\ job = [t \in Threads |-> Idle]
  /\ requests = 0
  /\ lived = {}

Tick ==
  /\ now < MaxTime
  /\ now' = now + 1
  /\ UNCHANGED <<user, token, session, locked, job, requests, lived>>

\* _status
Active(k) == token[k] # None /\ ~token[k].revoked /\ token[k].expires > now

\* count_active
ActiveTokens(u) == {k \in Tokens : Active(k) /\ token[k].owner = u}

Free(r, t) == locked[r] \in {None, t}
Released(t) == [r \in DOMAIN locked |-> IF locked[r] = t THEN None ELSE locked[r]]

\* Commit or rollback: the locks go, the thread answers.
Answered(t) ==
  /\ locked' = Released(t)
  /\ job' = [job EXCEPT ![t] = Idle]

Asked == requests < MaxRequests /\ requests' = requests + 1

Begin(t, op, at, u, k, until) ==
  /\ job[t] = Idle
  /\ job' = [job EXCEPT ![t] = 
       [op |-> op, at |-> at, user |-> u, token |-> k, since |-> now, until |-> until]]
  /\ UNCHANGED <<now, user, token, session, locked, lived>>

\* A refused transaction, or the one the database chooses when two wait for
\* each other (rotate_token locks token then owner, delete_user the reverse).
Refused(t) ==
  /\ Answered(t)
  /\ UNCHANGED <<now, user, token, session, requests, lived>>

\* The row a transaction waits for.
LockWanted(t) ==
  IF job[t].at = "owner" THEN job[t].user ELSE IF job[t].at = "token" THEN job[t].token ELSE None

--------------------------------------------------------------------------------
(* Issue and rotate. *)

BeginCreate(t) == \E u \in Users : Begin(t, "create", "owner", u, None, 0) /\ UNCHANGED requests
BeginRotate(t) ==
  \E k \in Tokens, g \in Grace :
    token[k] # None /\ Begin(t, "rotate", "token", token[k].owner, k, now + g) /\ Asked

\* get_token ... FOR UPDATE OF t, and the status test.
LockToken(t) ==
  LET k == job[t].token
  IN /\ job[t].op = "rotate" /\ job[t].at = "token" /\ Free(k, t)
     /\ IF token[k] # None /\ ~token[k].revoked /\ token[k].expires > job[t].since
        THEN /\ locked' = [locked EXCEPT ![k] = t]
             /\ job' = [job EXCEPT ![t].at = "owner"]
             /\ UNCHANGED <<now, user, token, session, requests, lived>>
        ELSE Refused(t)

\* lock_owner: SELECT ... FOR UPDATE on the owner.
LockOwner(t) ==
  LET u == job[t].user
  IN /\ job[t].op \in {"create", "rotate"} /\ job[t].at = "owner" /\ Free(u, t)
     /\ IF user[u] # None /\ user[u].active
        THEN /\ locked' = [locked EXCEPT ![u] = t]
             /\ job' = [job EXCEPT ![t].at = "count"]
             /\ UNCHANGED <<now, user, token, session, requests, lived>>
        ELSE Refused(t)

Count(t) ==
  /\ job[t].at = "count"
  /\ IF Cardinality(ActiveTokens(job[t].user)) < MaxActive
     THEN job' = [job EXCEPT ![t].at = "insert"] /\ UNCHANGED <<now, user, token, session, locked, requests, lived>>
     ELSE Refused(t)

Earlier(a, b) == IF a < b THEN a ELSE b

\* An id the sequence has not given out.
Unused(k) == token[k] = None /\ k \notin lived

\* insert_token; a rotation also ends the old token, now or after its grace.
Insert(t) ==
  \E k \in Tokens :
    LET old == job[t].token
        new == [owner |-> job[t].user, expires |-> now + Lifetime, revoked |-> FALSE]
    IN /\ job[t].at = "insert" /\ Unused(k) /\ \A l \in 1..(k - 1) : ~Unused(l)
       /\ IF job[t].op = "create"
          THEN /\ token' = [token EXCEPT ![k] = new]
               /\ UNCHANGED <<session, lived>>
          ELSE IF job[t].until = job[t].since
          THEN /\ token' = [token EXCEPT ![k] = new, ![old].revoked = TRUE]
               /\ session' = {s \in session : s.token # old}
               /\ lived' = lived \cup {old}
          ELSE /\ token' = [token EXCEPT ![k] = new, ![old].expires = Earlier(@, job[t].until)]
               /\ session' = {IF s.token = old THEN [s EXCEPT !.expires = Earlier(@, job[t].until)] ELSE s : s \in session}
               /\ UNCHANGED lived
       /\ Answered(t)
       /\ UNCHANGED <<now, user, requests>>

Revoke(k) ==
  /\ token[k] # None /\ ~token[k].revoked /\ locked[k] = None
  /\ token' = [token EXCEPT ![k].revoked = TRUE]
  /\ session' = {s \in session : s.token # k}
  /\ lived' = lived \cup {k}
  /\ UNCHANGED <<now, user, locked, job, requests>>

--------------------------------------------------------------------------------
(* Users. *)

\* update_user: disabling a user or setting a password ends the sessions.
EditUser(u) ==
  /\ Asked
  /\ user[u] # None /\ locked[u] = None
  /\ \E active \in BOOLEAN : user' = [user EXCEPT ![u] = [active |-> active]]
  /\ session' = {s \in session : s.user # u}
  /\ UNCHANGED <<now, token, locked, job, lived>>

BeginDelete(t) ==
  /\ Asked
  /\ \E u \in Users : user[u] # None /\ Begin(t, "delete", "owner", u, None, 0)

LockDeleted(t) ==
  LET u == job[t].user
  IN /\ job[t].op = "delete" /\ job[t].at = "owner" /\ Free(u, t)
     /\ IF user[u] = None THEN Refused(t)
        ELSE /\ locked' = [locked EXCEPT ![u] = t]
             /\ job' = [job EXCEPT ![t].at = "cascade"]
             /\ UNCHANGED <<now, user, token, session, requests, lived>>

\* DELETE FROM app_users cascades to tokens and sessions, and waits for the
\* locks on them.
Cascade(t) ==
  LET u == job[t].user
      owned == {k \in Tokens : token[k] # None /\ token[k].owner = u}
  IN /\ job[t].at = "cascade"
     /\ \A k \in owned : Free(k, t)
     /\ user' = [user EXCEPT ![u] = None]
     /\ token' = [k \in Tokens |-> IF k \in owned THEN None ELSE token[k]]
     /\ session' = {s \in session : s.user # u}
     /\ lived' = lived \cup owned
     /\ Answered(t)
     /\ UNCHANGED <<now, requests>>

CascadeAborts(t) ==
  LET owned == {k \in Tokens : token[k] # None /\ token[k].owner = job[t].user}
  IN /\ job[t].at = "cascade"
     /\ \E k \in owned, u \in Threads \ {t} : locked[k] = u /\ LockWanted(u) = job[t].user
     /\ Refused(t)

--------------------------------------------------------------------------------
(* Sessions of a token. *)

\* authenticate and open_session read the token; create_session, another
\* transaction, inserts the session and drops the expired ones.
OpenSession(t) ==
  \E k \in Tokens :
    /\ Cardinality(session) < MaxSessions
    /\ Active(k) /\ user[token[k].owner] # None /\ user[token[k].owner].active
    /\ Begin(t, "open", "session", token[k].owner, k, token[k].expires) /\ Asked

CreateSession(t) ==
  LET j == job[t]
      row == [user |-> j.user, token |-> j.token, expires |-> j.until]
  IN /\ j.op = "open" /\ Free(j.user, t) /\ Free(j.token, t)
     /\ session' = {s \in session : s.expires > now}
                     \cup (IF user[j.user] # None /\ token[j.token] # None THEN {row} ELSE {})
     /\ Answered(t)
     /\ UNCHANGED <<now, user, token, requests, lived>>

AcceptedBySession(s) ==
  s \in session /\ s.expires > now /\ user[s.user] # None /\ user[s.user].active

\* get_session_user: the session, its user and its token must all be live.
Accepted(s) ==
  /\ s \in session /\ s.expires > now
  /\ user[s.user] # None /\ user[s.user].active
  /\ token[s.token] # None /\ ~token[s.token].revoked /\ token[s.token].expires > now

--------------------------------------------------------------------------------
Next ==
  \/ Tick
  \/ \E t \in Threads :
       \/ BeginCreate(t) \/ BeginRotate(t) \/ LockToken(t) \/ LockOwner(t) \/ Count(t) \/ Insert(t)
       \/ BeginDelete(t) \/ LockDeleted(t) \/ Cascade(t) \/ CascadeAborts(t)
       \/ OpenSession(t) \/ CreateSession(t)
  \/ \E k \in Tokens : Revoke(k)
  \/ \E u \in Users : EditUser(u)

Spec == Init /\ [][Next]_vars

\* Concurrent requests never give one owner more working tokens than the limit,
\* rotations with a grace period included.
TokensWithinLimit ==
  \A u \in Users : Cardinality(ActiveTokens(u)) <= MaxActive

\* A session opened while its token was being revoked answers no request: the
\* acknowledged end of a token ends everything done in its name.
RevocationHolds == \A s \in session : Accepted(s) => s.token \notin lived
================================================================================
