---------------------------- MODULE KeyedLaunch ----------------------------
(***************************************************************************)
(* What the idempotency key of a request promises, whatever the requests   *)
(* do in between: a key belongs to the first request that claims it, only  *)
(* that request starts a scan, at most once, and every successful answer   *)
(* for the key names that request.                                         *)
(***************************************************************************)
CONSTANTS Requests, Keys, KeyOf, None, Failed

VARIABLES
    owner,      \* the request whose operation row holds the key, None while free
    scans,      \* the requests whose scan the remote system accepted
    reply       \* what each request was answered: a request, Failed, None yet

vars == <<owner, scans, reply>>

Init ==
    /\ owner = [k \in Keys |-> None]
    /\ scans = {}
    /\ reply = [r \in Requests |-> None]

Claim(r) ==
    /\ owner[KeyOf[r]] = None
    /\ owner' = [owner EXCEPT ![KeyOf[r]] = r]
    /\ UNCHANGED <<scans, reply>>

Start(r) ==
    /\ owner[KeyOf[r]] = r
    /\ r \notin scans
    /\ scans' = scans \cup {r}
    /\ UNCHANGED <<owner, reply>>

Reply(r) ==
    /\ reply[r] = None
    /\ \E a \in {owner[KeyOf[r]], Failed} : reply' = [reply EXCEPT ![r] = a]
    /\ UNCHANGED <<owner, scans>>

Next == \E r \in Requests : Claim(r) \/ Start(r) \/ Reply(r)

Spec == Init /\ [][Next]_vars

(* One key starts one scan: a client that repeats a request with its key   *)
(* never scans twice.                                                      *)
OneScanPerKey == \A r, s \in scans : KeyOf[r] = KeyOf[s] => r = s
=============================================================================
