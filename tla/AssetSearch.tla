----------------------------- MODULE AssetSearch -----------------------------
(* The search index and the software inventory of the stored cards: both are   *)
(* rewritten in the transaction that saves a card, and a background thread     *)
(* fills them for the cards of an older release.                               *)
EXTENDS Naturals, FiniteSets

CONSTANTS
    Assets,
    Contents,   \* what a card can hold: sets of [entity, field, value]
    BatchSize,  \* cards of one batch
    MaxSaves,   \* bound: cards saved
    MaxFaults,  \* bound: database errors in the thread
    None

VARIABLES
    card,      \* asset_cards: content, or None
    index,     \* asset_card_search_fields: the content it was built from, or None
    inventory, \* asset_card_software_inventory and its time stamp, likewise
    running,   \* ASSET_SEARCH_BACKFILL_RUNNING
    bpc, covered, batch, processed, held, \* the thread: point, coverage, ids left, card read
    saves, faults,
    overtaken  \* history: assets saved while the thread held an earlier content

searchVars == <<card, index, inventory, running, bpc, covered, batch, processed, held,
                saves, faults, overtaken>>
threadVars == <<running, bpc, covered, batch, processed, held, faults>>

Cards == {a \in Assets : card[a] # None}

\* After an upgrade: no card is indexed, or none has an inventory, or all have both.
SearchInit ==
    /\ card \in [Assets -> Contents]
    /\ index \in {card, [a \in Assets |-> None]} /\ inventory \in {index, [a \in Assets |-> None]}
    /\ running = FALSE /\ bpc = "idle" /\ covered = [fields |-> FALSE, software |-> FALSE]
    /\ batch = {} /\ processed = FALSE /\ held = None
    /\ saves = 0 /\ faults = 0 /\ overtaken = {}

Coverage == [fields |-> \A a \in Cards : index[a] # None,
             software |-> \A a \in Cards : inventory[a] # None]

IsCovered(coverage) == coverage.fields /\ coverage.software

\* Whoever opens a search page or runs the startup step; one thread at a time.
StartBackfill ==
    /\ ~running /\ ~IsCovered(Coverage)
    /\ running' = TRUE /\ bpc' = "counting"
    /\ UNCHANGED <<card, index, inventory, covered, batch, processed, held, saves, faults, overtaken>>

Count ==
    /\ bpc = "counting" /\ covered' = Coverage
    /\ bpc' = IF IsCovered(Coverage) THEN "ending" ELSE "selecting"
    /\ UNCHANGED <<card, index, inventory, running, batch, processed, held, saves, faults, overtaken>>

\* First the cards without search rows, then those without an inventory.
Select ==
    /\ bpc = "selecting" /\ bpc' = "reading" /\ processed' = FALSE
    /\ LET missing == {a \in Cards : (IF covered.fields THEN inventory ELSE index)[a] = None}
           size == IF Cardinality(missing) < BatchSize THEN Cardinality(missing) ELSE BatchSize
       IN batch' \in {S \in SUBSET missing : Cardinality(S) = size}
    /\ UNCHANGED <<card, index, inventory, running, covered, held, saves, faults, overtaken>>

\* get_asset_card: a card that is gone is skipped.
ReadCard(a) ==
    /\ bpc = "reading" /\ a \in batch /\ batch' = batch \ {a}
    /\ IF card[a] = None
       THEN UNCHANGED <<bpc, held>>
       ELSE bpc' = "writing" /\ held' = [id |-> a, content |-> card[a]]
    /\ UNCHANGED <<card, index, inventory, running, covered, processed, saves, faults, overtaken>>

\* A transaction of its own: what was read is written, whatever was saved meanwhile.
WriteRows ==
    /\ bpc = "writing" /\ card[held.id] # None
    /\ index' = IF covered.fields THEN index ELSE [index EXCEPT ![held.id] = held.content]
    /\ inventory' = [inventory EXCEPT ![held.id] = held.content]
    /\ bpc' = "reading" /\ processed' = TRUE /\ held' = None
    /\ UNCHANGED <<card, running, covered, batch, saves, faults, overtaken>>

EndBatch ==
    /\ bpc = "reading" /\ batch = {}
    /\ bpc' = IF processed THEN "counting" ELSE "ending"
    /\ UNCHANGED <<card, index, inventory, running, covered, batch, processed, held, saves, faults, overtaken>>

Stopped == bpc' = "idle" /\ batch' = {} /\ held' = None /\ UNCHANGED <<covered, processed>>

EndBackfill ==
    /\ bpc = "ending" /\ Stopped /\ running' = FALSE
    /\ UNCHANGED <<card, index, inventory, saves, faults, overtaken>>

FailKeepsFlag ==
    /\ bpc # "idle" /\ Stopped /\ UNCHANGED running
    /\ \/ bpc = "writing" /\ card[held.id] = None /\ UNCHANGED faults
       \/ faults < MaxFaults /\ faults' = faults + 1
    /\ UNCHANGED <<card, index, inventory, saves, overtaken>>

\* A database error, or the card deleted before its rows are written (the foreign key
\* refuses them): the thread ends, and the finally block lowers the flag.
Fail ==
    /\ bpc # "idle" /\ Stopped /\ running' = FALSE
    /\ \/ bpc = "writing" /\ card[held.id] = None /\ UNCHANGED faults
       \/ faults < MaxFaults /\ faults' = faults + 1
    /\ UNCHANGED <<card, index, inventory, saves, overtaken>>

\* The card, its search rows and its inventory in one transaction.
Saved(a, content) ==
    /\ card' = [card EXCEPT ![a] = content] /\ index' = [index EXCEPT ![a] = content]
    /\ inventory' = [inventory EXCEPT ![a] = content]

SaveCard(a, content) ==
    /\ saves < MaxSaves /\ saves' = saves + 1 /\ Saved(a, content)
    /\ overtaken' = IF held # None /\ held.id = a THEN overtaken \cup {a} ELSE overtaken \ {a}
    /\ UNCHANGED threadVars

\* The rows go with the card (ON DELETE CASCADE).
DeleteCard(a) ==
    /\ card[a] # None /\ card' = [card EXCEPT ![a] = None]
    /\ index' = [index EXCEPT ![a] = None] /\ inventory' = [inventory EXCEPT ![a] = None]
    /\ overtaken' = overtaken \ {a} /\ UNCHANGED <<threadVars, saves>>

Backfill ==
    \/ Count \/ Select \/ (\E a \in Assets : ReadCard(a)) \/ WriteRows \/ EndBatch
    \/ EndBackfill \/ Fail

SearchNext ==
    \/ Backfill \/ StartBackfill
    \/ \E a \in Assets : DeleteCard(a) \/ \E content \in Contents : SaveCard(a, content)

SearchSpec == SearchInit /\ [][SearchNext]_searchVars /\ WF_searchVars(Backfill)

\* Search answers from the content of the card as it is stored.  One way to break it is
\* left: a card saved between the thread's read and its write (db.py 6658).
IndexFollowsCards ==
    \A a \in Assets \ overtaken : index[a] \in {None, card[a]} /\ inventory[a] \in {None, card[a]}

\* The thread ends and lowers the flag, after any error and whatever is saved or deleted
\* under it: otherwise no later request could index anything until a restart.
BackfillEnds == running ~> ~running

==============================================================================
