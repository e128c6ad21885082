----------------------------- MODULE SnapshotCache -----------------------------
(* The in-process cache of dashboard aggregates: request threads that find an   *)
(* entry of any age, one leading load for those that find none, background      *)
(* refreshes, invalidation after a save, and the limit on the entries.          *)
EXTENDS Naturals, FiniteSets

CONSTANTS
    Keys, Threads,  \* cache keys, request threads
    MaxEntries,     \* max_entries
    MaxRefreshes,   \* bound on the background loads of a key at a time
    None

VARIABLES
    entry,      \* _entries: key |-> [age, refreshing, order], or None
    flight,     \* _flights: key |-> the leading thread, or None
    background, \* key |-> how many background loads run
    pc, key     \* each request thread: point, key it asks for

vars == <<entry, flight, background, pc, key>>

\* Ages: younger than ttl_seconds, than max_stale_seconds, or older.
Ages == <<"fresh", "stale", "old">>

Entries == {k \in Keys : entry[k] # None}

Init ==
    /\ entry = [k \in Keys |-> None] /\ flight = [k \in Keys |-> None]
    /\ background = [k \in Keys |-> 0]
    /\ pc = [t \in Threads |-> "idle"] /\ key = [t \in Threads |-> None]

Enter(t, k, at) == pc[t] = "idle" /\ pc' = [pc EXCEPT ![t] = at] /\ key' = [key EXCEPT ![t] = k]

Aged(k, age) == entry[k] # None /\ entry[k].age = age

GetFresh(t, k) ==
    /\ Aged(k, "fresh") /\ Enter(t, k, "answered")
    /\ UNCHANGED <<entry, flight, background>>

\* The stale value is given at once; the first who finds it starts a refresh.
GetStale(t, k) ==
    /\ Aged(k, "stale") /\ Enter(t, k, "answered")
    /\ \/ entry[k].refreshing /\ UNCHANGED <<entry, background>>
       \/ /\ ~entry[k].refreshing /\ background[k] < MaxRefreshes
          /\ entry' = [entry EXCEPT ![k].refreshing = TRUE]
          /\ background' = [background EXCEPT ![k] = @ + 1]
    /\ UNCHANGED flight

\* Without a usable entry the thread leads a load or waits for the one under way.
GetMissing(t, k) ==
    /\ entry[k] = None \/ Aged(k, "old")
    /\ Enter(t, k, IF flight[k] = None THEN "loading" ELSE "waiting")
    /\ flight' = IF flight[k] = None THEN [flight EXCEPT ![k] = t] ELSE flight
    /\ UNCHANGED <<entry, background>>

\* _store: at the limit the oldest entry of another key goes.
Store(k) ==
    LET oldest == {o \in Entries : \A e \in Entries : entry[o].order <= entry[e].order}
        dropped == IF Cardinality(Entries) >= MaxEntries /\ entry[k] = None THEN oldest ELSE {}
        kept == Entries \ (dropped \cup {k})
    IN entry' = [e \in Keys |->
          CASE e = k       -> [age |-> "fresh", refreshing |-> FALSE, order |-> Cardinality(kept) + 1]
            [] e \in kept  -> [entry[e] EXCEPT !.order = Cardinality({o \in kept : entry[o].order <= entry[e].order})]
            [] OTHER       -> None]

\* The finally block: the flight is popped and everybody who waits for it is woken,
\* with the value or with the error.
Landed(t, k) ==
    /\ flight' = [flight EXCEPT ![k] = None]
    /\ pc' = [u \in Threads |-> IF u = t \/ (pc[u] = "waiting" /\ key[u] = k) THEN "answered" ELSE pc[u]]

Load(t) ==
    /\ pc[t] = "loading" /\ Store(key[t]) /\ Landed(t, key[t])
    /\ UNCHANGED <<background, key>>

LoadFails(t) ==
    /\ pc[t] = "loading" /\ UNCHANGED entry /\ Landed(t, key[t])
    /\ UNCHANGED <<background, key>>

Answer(t) ==
    /\ pc[t] = "answered" /\ pc' = [pc EXCEPT ![t] = "idle"] /\ key' = [key EXCEPT ![t] = None]
    /\ UNCHANGED <<entry, flight, background>>

Refresh(k) ==
    /\ background[k] > 0 /\ background' = [background EXCEPT ![k] = @ - 1]
    /\ \/ Store(k)
       \/ entry' = IF entry[k] = None THEN entry ELSE [entry EXCEPT ![k].refreshing = FALSE]
    /\ UNCHANGED <<flight, pc, key>>

\* invalidate(key), and invalidate() of everything.
Invalidate(S) ==
    /\ S \cap Entries # {}
    /\ entry' = [k \in Keys |-> IF k \in S THEN None ELSE entry[k]]
    /\ UNCHANGED <<flight, background, pc, key>>

Age(k) ==
    /\ \E i \in 1 .. 2 : Aged(k, Ages[i]) /\ entry' = [entry EXCEPT ![k].age = Ages[i + 1]]
    /\ UNCHANGED <<flight, background, pc, key>>

Thread(t) == Load(t) \/ LoadFails(t) \/ Answer(t)

Next ==
    \/ \E t \in Threads :
          \/ Thread(t)
          \/ \E k \in Keys : GetFresh(t, k) \/ GetStale(t, k) \/ GetMissing(t, k)
    \/ \E k \in Keys : Refresh(k) \/ Age(k) \/ Invalidate({k})
    \/ Invalidate(Keys)

\* A query ends, with a result or by its statement timeout.
Fairness == \A t \in Threads : WF_vars(Thread(t))
Spec == Init /\ [][Next]_vars /\ Fairness

\* Nobody waits for a load that is over: every thread that asked is answered, also
\* when the leader of its flight failed and when the key was invalidated meanwhile.
ReadersAnswered == \A t \in Threads : pc[t] # "idle" ~> pc[t] = "idle"
================================================================================
