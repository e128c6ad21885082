------------------------------- MODULE Services -------------------------------
(* The recovery of the database, and beside it the build of a card: what the    *)
(* background work promises whatever its constants are.                         *)
EXTENDS DatabaseRecovery, Sequences

CONSTANTS
    Builders, Windows, Kinds, Root, Kind, Refs, Declared, Members, Excluded, Widgets,
    Containers, InImage, Answers, MaxDepth, MaxItems, MaxLost, None

VARIABLES cache, inflight, build, vulns, cancelled, blind

builds == <<cache, inflight, build, vulns, cancelled, blind>>

C == INSTANCE AssetBuilder

\* The data of MP VM: every node has a type, and what it refers to are nodes.
ASSUME NodesTyped ==
    /\ MaxDepth \in Nat /\ MaxItems \in Nat /\ None \notin Nat
    /\ \A b \in Builders : Root[b] \in DOMAIN Kind
    /\ \A n \in DOMAIN Kind :
          /\ Kind[n] \in Kinds /\ Refs[n] \subseteq DOMAIN Kind
          /\ \A c \in Declared[Kind[n]] : Members[<<n, c>>] \subseteq DOMAIN Kind

\* What the vulnerability requests answer.
ASSUME AnswersTyped ==
    \A s \in {"os", "software"} : \A i \in DOMAIN Widgets[s] :
        /\ Len(Widgets[s][i].items) \in Nat /\ DOMAIN Widgets[s][i].items = 1 .. Len(Widgets[s][i].items)
        /\ \A a \in Answers : a.loaded[s][i].n \in Nat \cup {None}

-----------------------------------------------------------------------------
\* Builder: a card that was built without any warning lacks nothing.
UnwarnedIsWhole == C!UnwarnedIsWhole
=============================================================================
