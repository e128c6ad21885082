---------------------------- MODULE DerivedProofs ----------------------------
(* The asset cards and what is derived from them, for any size of the tables: a *)
(* fqdn names one card, the remediation cases match the saved card, findings    *)
(* and cases have the passports they should have, groups have the members that  *)
(* their definitions say, and the totals are those of the findings.             *)
EXTENDS Derived, Integers, FiniteSetTheorems, FunctionTheorems, WellFoundedInduction, TLAPS

-----------------------------------------------------------------------------
(* AssetCardIdentity.                                                          *)

\* Every state of the card table is well typed: the columns only ever hold what
\* some observation reported, or nothing.
THEOREM TypeCorrect == I!Spec => []I!TypeOK
<1>1. I!Init => I!TypeOK
  BY SavesNat DEF I!Init, I!TypeOK, I!Fqdns, I!Addresses, I!HostNames, I!HostsSeen
<1>2. I!TypeOK /\ [I!Next]_I!vars => I!TypeOK'
  <2> SUFFICES ASSUME I!TypeOK, [I!Next]_I!vars PROVE I!TypeOK'
    OBVIOUS
  <2>1. ASSUME NEW o \in Observations, NEW seconds \in {0, 1}, I!Save(o, seconds)
        PROVE  I!TypeOK'
    <3>1. PICK c \in Ids : I!WriteCard(c, o) /\ seen' = [seen EXCEPT ![c] = clock']
      BY <2>1 DEF I!Save
    <3>2. /\ o.fqdn \in I!Fqdns /\ o.ip \in I!Addresses
          /\ o.hostname \in I!HostNames /\ o.host \in I!HostsSeen
      BY DEF I!Fqdns, I!Addresses, I!HostNames, I!HostsSeen
    <3>3. present' \subseteq Ids
      BY <3>1 DEF I!WriteCard, I!TypeOK
    <3>4. fqdn' \in [Ids -> I!Fqdns] /\ ip' \in [Ids -> I!Addresses]
      BY <3>1, <3>2 DEF I!WriteCard, I!TypeOK
    <3>5. hostname' \in [Ids -> I!HostNames] /\ host' \in [Ids -> I!HostsSeen]
      BY <3>1, <3>2 DEF I!WriteCard, I!TypeOK
    <3>6. clock' \in Nat /\ saves' \in 0..MaxSaves
      BY <2>1, SavesNat DEF I!Save, I!TypeOK
    <3>7. saves + 1 \in Nat
      BY SavesNat DEF I!TypeOK
    <3>8. serial' \in [Ids -> Nat]
      BY <3>1, <3>7 DEF I!WriteCard, I!TypeOK
    <3>9. seen' \in [Ids -> Nat]
      BY <3>1, <3>6 DEF I!TypeOK
    <3> QED
      BY <3>3, <3>4, <3>5, <3>6, <3>8, <3>9 DEF I!TypeOK
  <2>2. ASSUME NEW c \in Ids, I!DeleteCard(c) PROVE I!TypeOK'
    BY <2>2 DEF I!DeleteCard, I!TypeOK, I!identity
  <2>3. ASSUME UNCHANGED I!vars PROVE I!TypeOK'
    BY <2>3 DEF I!vars, I!identity, I!TypeOK
  <2> QED
    BY <2>1, <2>2, <2>3 DEF I!Next
<1> QED
  BY <1>1, <1>2, PTL DEF I!Spec

\* A save puts its fqdn into the one other card that already has it, or, if
\* there is none, into the card of the object itself.
LEMMA SaveKeepsFqdnsApart ==
    ASSUME I!TypeOK, I!OneCardPerFqdn,
           NEW o \in Observations, NEW c \in Ids, I!IsCanonical(c, o), I!WriteCard(c, o)
    PROVE  I!OneCardPerFqdn'
<1> SUFFICES ASSUME NEW x \in present', NEW y \in present',
                    fqdn'[x] # Null, fqdn'[x] = fqdn'[y], x # y
             PROVE  FALSE
  BY DEF I!OneCardPerFqdn
<1>1. \A z \in Ids : fqdn'[z] = IF z = c THEN o.fqdn ELSE fqdn[z]
  BY DEF I!WriteCard, I!TypeOK
<1>2. x \in Ids /\ y \in Ids /\ (x # c => x \in present) /\ (y # c => y \in present)
  BY DEF I!WriteCard, I!TypeOK
<1>3. CASE x # c /\ y # c
  BY <1>1, <1>2, <1>3 DEF I!OneCardPerFqdn
<1>4. ASSUME NEW z \in present, z # c, o.fqdn # Null, fqdn[z] = o.fqdn PROVE FALSE
  <2>1. CASE z = o.id
    \* The canonical card is then another one with the same fqdn.
    <3>1. I!Matches(c, o)
      BY <1>4, <2>1 DEF I!IsCanonical
    <3>2. c \in present /\ fqdn[c] = o.fqdn
      BY <3>1, <1>4 DEF I!Matches
    <3> QED
      BY <3>2, <1>4 DEF I!OneCardPerFqdn
  <2>2. CASE z # o.id
    <3>1. I!Matches(z, o) /\ z \in Ids
      BY <1>4, <2>2 DEF I!Matches, I!TypeOK
    <3>2. I!Matches(c, o)
      BY <3>1 DEF I!IsCanonical
    <3>3. c \in present /\ fqdn[c] = o.fqdn
      BY <3>2, <1>4 DEF I!Matches
    <3> QED
      BY <3>3, <1>4 DEF I!OneCardPerFqdn
  <2> QED
    BY <2>1, <2>2
<1>5. CASE x = c
  BY <1>1, <1>2, <1>4, <1>5
<1>6. CASE y = c
  BY <1>1, <1>2, <1>4, <1>6
<1> QED
  BY <1>3, <1>5, <1>6

\* For any objects, reports and order of saves and deletions, no two local cards
\* have the same fqdn.
THEOREM FqdnIdentifiesCard == I!Spec => []OneCardPerFqdn
<1>1. I!Init => I!OneCardPerFqdn
  BY DEF I!Init, I!OneCardPerFqdn
<1>2. I!TypeOK /\ I!OneCardPerFqdn /\ [I!Next]_I!vars => I!OneCardPerFqdn'
  <2> SUFFICES ASSUME I!TypeOK, I!OneCardPerFqdn, [I!Next]_I!vars PROVE I!OneCardPerFqdn'
    OBVIOUS
  <2>1. ASSUME NEW o \in Observations, NEW seconds \in {0, 1}, I!Save(o, seconds)
        PROVE  I!OneCardPerFqdn'
    BY <2>1, SaveKeepsFqdnsApart DEF I!Save
  <2>2. ASSUME NEW c \in Ids, I!DeleteCard(c) PROVE I!OneCardPerFqdn'
    BY <2>2 DEF I!DeleteCard, I!OneCardPerFqdn, I!identity
  <2>3. ASSUME UNCHANGED I!vars PROVE I!OneCardPerFqdn'
    BY <2>3 DEF I!vars, I!identity, I!OneCardPerFqdn
  <2> QED
    BY <2>1, <2>2, <2>3 DEF I!Next
<1> QED
  BY <1>1, <1>2, TypeCorrect, PTL DEF I!Spec, OneCardPerFqdn

\* The hosts of a network: an object belongs to one, and two share no fqdn, address or name.
HostsDistinct == \A o, p \in Observations :
    \/ o.id = p.id
    \/ o.fqdn # Null /\ o.fqdn = p.fqdn
    \/ o.ip # Null /\ o.ip = p.ip
    \/ o.hostname # Null /\ o.hostname = p.hostname
    => o.host = p.host

\* A row holds what one observation of its host said, and its id is of an object of that host.
RowsOfHosts == \A c \in present :
    \E p, q \in Observations :
        /\ p.id = c /\ p.host = host[c]
        /\ q.host = host[c] /\ q.fqdn = fqdn[c] /\ q.ip = ip[c] /\ q.hostname = hostname[c]

\* The row that a save writes is of the same host, or new and under the object's own id.
LEMMA CanonicalIsOfHost ==
    ASSUME HostsDistinct, RowsOfHosts, NEW o \in Observations, NEW c \in Ids,
           I!IsCanonical(c, o)
    PROVE  /\ c \in present => host[c] = o.host
           /\ c \notin present => c = o.id
<1>1. CASE c \in present
    <2>1. PICK p, q \in Observations :
              /\ p.id = c /\ p.host = host[c]
              /\ q.host = host[c] /\ q.fqdn = fqdn[c] /\ q.ip = ip[c] /\ q.hostname = hostname[c]
        BY <1>1 DEF RowsOfHosts
    <2>2. CASE c = o.id
        BY <1>1, <2>1, <2>2 DEF HostsDistinct
    <2>3. CASE I!Matches(c, o)
        BY <1>1, <2>1, <2>3 DEF HostsDistinct, I!Matches
    <2> QED BY <1>1, <2>2, <2>3 DEF I!IsCanonical
<1>2. CASE c \notin present
    BY <1>2 DEF I!IsCanonical, I!Matches
<1> QED BY <1>1, <1>2

\* A saved card never replaces the card of another host, whichever objects report which part
\* of a host's identity in which order.
THEOREM CardsKeepTheirHost == ASSUME HostsDistinct PROVE I!Spec => I!CardsStayWithHost
<1>1. I!Init => RowsOfHosts
    BY DEF I!Init, RowsOfHosts
<1>2. I!TypeOK /\ RowsOfHosts /\ [I!Next]_I!vars
      => RowsOfHosts' /\ \A c \in present \cap present' : host'[c] = host[c]
    <2> SUFFICES ASSUME I!TypeOK, RowsOfHosts, [I!Next]_I!vars
                 PROVE  RowsOfHosts' /\ \A c \in present \cap present' : host'[c] = host[c]
        OBVIOUS
    <2>1. ASSUME NEW o \in Observations, NEW seconds \in {0, 1}, I!Save(o, seconds)
          PROVE  RowsOfHosts' /\ \A c \in present \cap present' : host'[c] = host[c]
        <3>1. PICK c \in Ids : I!IsCanonical(c, o) /\ I!WriteCard(c, o)
            BY <2>1 DEF I!Save
        <3>2. /\ c \in present => host[c] = o.host
              /\ c \notin present => c = o.id
            BY <3>1, CanonicalIsOfHost
        <3>3. /\ present' = present \cup {c}
              /\ fqdn'[c] = o.fqdn /\ ip'[c] = o.ip /\ hostname'[c] = o.hostname /\ host'[c] = o.host
              /\ \A d \in Ids \ {c} : /\ fqdn'[d] = fqdn[d] /\ ip'[d] = ip[d]
                                      /\ hostname'[d] = hostname[d] /\ host'[d] = host[d]
            BY <3>1 DEF I!WriteCard, I!TypeOK
        <3>4. present \subseteq Ids
            BY DEF I!TypeOK
        <3>5. \E p \in Observations : p.id = c /\ p.host = o.host
            BY <3>2 DEF RowsOfHosts
        <3>6. ASSUME NEW d \in present'
              PROVE  \E p, q \in Observations :
                        /\ p.id = d /\ p.host = host'[d] /\ q.host = host'[d]
                        /\ q.fqdn = fqdn'[d] /\ q.ip = ip'[d] /\ q.hostname = hostname'[d]
            <4>1. CASE d = c
                BY <3>3, <3>5, <4>1
            <4>2. CASE d # c
                <5>1. d \in present /\ d \in Ids \ {c}
                    BY <3>3, <3>4, <4>2
                <5> QED BY <3>3, <5>1 DEF RowsOfHosts
            <4> QED BY <4>1, <4>2
        <3>7. \A d \in present \cap present' : host'[d] = host[d]
            BY <3>2, <3>3, <3>4
        <3> QED BY <3>6, <3>7 DEF RowsOfHosts
    <2>2. ASSUME NEW c \in Ids, I!DeleteCard(c)
          PROVE  RowsOfHosts' /\ \A d \in present \cap present' : host'[d] = host[d]
        BY <2>2 DEF I!DeleteCard, I!identity, RowsOfHosts
    <2>3. CASE UNCHANGED I!vars
        BY <2>3 DEF I!vars, I!identity, RowsOfHosts
    <2> QED BY <2>1, <2>2, <2>3 DEF I!Next
<1>3. I!TypeOK /\ RowsOfHosts /\ [I!Next]_I!vars
      => [\A c \in present \cap present' : host'[c] = host[c]]_I!vars
    BY <1>2
<1> QED BY <1>1, <1>2, <1>3, TypeCorrect, PTL DEF I!Spec, I!CardsStayWithHost

-----------------------------------------------------------------------------
(* Remediation.                                                              *)

Statuses == {"open", "in_progress", "risk_accepted", "false_positive", "resolved"}
Dates == {<<>>, <<"manual">>, <<"policy", 0>>, <<"policy", 1>>}
CaseRows == [status : Statuses, version : Nat, due : Dates, manual : BOOLEAN, expires : BOOLEAN]
CardRows == [shot : Shots, fresh : BOOLEAN, no : Nat]
Pages == [key : Keys, row : CaseRows]
Passes == [at : {"idle", "called", "read", "locked"}, found : SUBSET Keys, no : Nat,
           fresh : BOOLEAN, old : SUBSET Keys]

\* The findings of a snapshot have keys, and None is no row.
CasesWellFormed ==
    /\ \A shot \in Shots : R!Stored(shot) \subseteq Keys
    /\ None \notin CaseRows \cup CardRows \cup Pages

CaseTypes ==
    /\ card \in CardRows \cup {None} /\ cardSaves \in Nat
    /\ cases \in [Keys -> CaseRows \cup {None}] /\ absent \in [Keys -> Nat]
    /\ policy \in {0, 1} /\ rec \in [Threads -> Passes] /\ copy \in Pages \cup {None}
    /\ due \in BOOLEAN /\ reconciled \in BOOLEAN

\* A pass that read the saved card knows its findings, and has locked rows only.
Reads ==
    /\ card # None => card.no <= cardSaves
    /\ reconciled => card # None
    /\ \A t \in Threads :
          /\ rec[t].at # "idle" => card # None
          /\ rec[t].no <= cardSaves
          /\ rec[t].at \in {"read", "locked"} /\ rec[t].no = card.no => rec[t].found = R!Stored(card.shot)
          /\ rec[t].at = "locked" => \A k \in rec[t].old : cases[k] # None

\* A confirmed resolution has its event.
Confirmed == \A k \in Keys :
    /\ cases[k] # None /\ cases[k].status = "resolved" => absent[k] > 0
    /\ absent[k] > 0 => cases[k] # None
Covered == reconciled => \A k \in R!Stored(card.shot) : cases[k] # None /\ cases[k].status # "resolved"

\* A case that differs from the page has another version.
Versions == copy # None =>
    LET k == copy.key IN
    /\ cases[k] # None /\ cases[k].version >= copy.row.version
    /\ cases[k].version = copy.row.version => cases[k] = copy.row

CaseInv == CaseTypes /\ Reads /\ Confirmed /\ Covered /\ Versions

-----------------------------------------------------------------------------
(* What the operators on rows do.                                              *)

\* The next version of a row.
NextVersion(c, d) == d \in CaseRows /\ d.version = c.version + 1

LEMMA PolicyDates == ASSUME policy \in {0, 1}, NEW k \in Keys PROVE R!ByPolicy(k) \in Dates
BY DEF R!ByPolicy, Dates

LEMMA OpenAndResolved == "open" \in Statuses /\ "resolved" \in Statuses /\ FALSE \in BOOLEAN
BY DEF Statuses

LEMMA VersionUp ==
    ASSUME NEW v \in CaseRows
    PROVE  LET r == [v EXCEPT !.version = @ + 1] IN
           r \in CaseRows /\ r.version = v.version + 1 /\ r.status = v.status
BY DEF CaseRows

LEMMA StatusSet ==
    ASSUME NEW v \in CaseRows, NEW s \in Statuses
    PROVE  LET r == [v EXCEPT !.status = s] IN
           r \in CaseRows /\ r.version = v.version /\ r.status = s
BY DEF CaseRows

LEMMA StatusAndDate ==
    ASSUME NEW v \in CaseRows, NEW s \in Statuses, NEW d \in Dates
    PROVE  LET r == [v EXCEPT !.status = s, !.due = d] IN
           r \in CaseRows /\ r.version = v.version /\ r.status = s
BY DEF CaseRows

LEMMA StatusAndExpiry ==
    ASSUME NEW v \in CaseRows, NEW s \in Statuses, NEW e \in BOOLEAN
    PROVE  LET r == [v EXCEPT !.status = s, !.expires = e] IN
           r \in CaseRows /\ r.version = v.version /\ r.status = s
BY DEF CaseRows

LEMMA DateByHand ==
    ASSUME NEW v \in CaseRows, NEW d \in Dates, NEW m \in BOOLEAN
    PROVE  LET r == [v EXCEPT !.due = d, !.manual = m] IN
           r \in CaseRows /\ r.version = v.version /\ r.status = v.status
BY DEF CaseRows

LEMMA DateSet ==
    ASSUME NEW v \in CaseRows, NEW d \in Dates
    PROVE  LET r == [v EXCEPT !.due = d] IN
           r \in CaseRows /\ r.version = v.version /\ r.status = v.status
BY DEF CaseRows

LEMMA RowChanges ==
    ASSUME policy \in {0, 1}, NEW k \in Keys, NEW c \in CaseRows
    PROVE  /\ NextVersion(c, R!Changed(c)) /\ R!Changed(c).status = c.status
           /\ NextVersion(c, R!Reappeared(k, c)) /\ R!Reappeared(k, c).status # "resolved"
           /\ NextVersion(c, R!Resolved(c)) /\ R!Resolved(c).status = "resolved"
           /\ NextVersion(c, R!Expired(k, c)) /\ R!Expired(k, c).status = "open"
<1> DEFINE v == R!Changed(c)  d == R!ByPolicy(k)
<1>1. d \in Dates
    BY PolicyDates
<1>2. v \in CaseRows /\ v.version = c.version + 1 /\ v.status = c.status
    BY VersionUp DEF R!Changed
<1>3. /\ R!Reappeared(k, c) = IF c.status = "resolved" THEN [v EXCEPT !.status = "open", !.due = d] ELSE v
      /\ R!Resolved(c) = [v EXCEPT !.status = "resolved"]
      /\ R!Expired(k, c) = [v EXCEPT !.status = "open", !.expires = FALSE, !.due = d, !.manual = FALSE]
    BY DEF R!Reappeared, R!Resolved, R!Expired
<1> HIDE DEF v, d
<1>4. LET r == [v EXCEPT !.status = "open", !.due = d] IN
      r \in CaseRows /\ r.version = v.version /\ r.status = "open"
    BY <1>1, <1>2, OpenAndResolved, StatusAndDate
<1>5. LET r == [v EXCEPT !.status = "resolved"] IN
      r \in CaseRows /\ r.version = v.version /\ r.status = "resolved"
    BY <1>2, OpenAndResolved, StatusSet
<1>6. LET r == [v EXCEPT !.status = "open", !.expires = FALSE, !.due = d, !.manual = FALSE] IN
      r \in CaseRows /\ r.version = v.version /\ r.status = "open"
    <2> DEFINE r == [v EXCEPT !.status = "open", !.expires = FALSE, !.due = d, !.manual = FALSE]
    <2>1. v.version \in Nat /\ "open" \in Statuses
        BY <1>2, OpenAndResolved DEF CaseRows
    <2>2. r \in CaseRows
        BY <1>1, <1>2, <2>1 DEF CaseRows
    <2>3. r.version = v.version /\ r.status = "open"
        BY <1>2 DEF CaseRows
    <2> QED BY <2>2, <2>3
<1> QED BY <1>2, <1>3, <1>4, <1>5, <1>6 DEF NextVersion, v

LEMMA NewCase ==
    ASSUME policy \in {0, 1}, NEW k \in Keys
    PROVE  R!Case(k) \in CaseRows /\ R!Case(k).status = "open" /\ R!Case(k).version = 1
BY PolicyDates DEF R!Case, CaseRows, Statuses

LEMMA EditChanges ==
    ASSUME NEW c \in CaseRows, NEW s \in Statuses \ {"resolved"}, NEW m \in BOOLEAN
    PROVE  NextVersion(c, R!Edited(c, s, m)) /\ R!Edited(c, s, m).status = s
<1> DEFINE x == (s \in R!Exceptions)
           v == [c EXCEPT !.status = s, !.expires = x]
           w == IF m THEN [v EXCEPT !.due = <<"manual">>, !.manual = TRUE] ELSE v
<1>1. <<"manual">> \in Dates
    BY DEF Dates
<1>2. x \in BOOLEAN
    OBVIOUS
<1> HIDE DEF x
<1>3. v \in CaseRows /\ v.version = c.version /\ v.status = s
    BY <1>1, <1>2, StatusAndExpiry
<1> HIDE DEF v
<1>4. w \in CaseRows /\ w.version = c.version /\ w.status = s
    BY <1>1, <1>3, TRUE \in BOOLEAN, DateByHand
<1>5. R!Edited(c, s, m) = [w EXCEPT !.version = @ + 1]
    BY DEF R!Edited, R!Changed, w, v, x
<1> HIDE DEF w
<1> QED BY <1>4, <1>5, VersionUp DEF NextVersion

-----------------------------------------------------------------------------
(* Every step keeps what is claimed of the cases.                              *)

\* Rows appear and get the next version; none disappears.
RowsAdvance ==
    /\ cases' \in [Keys -> CaseRows \cup {None}]
    /\ \A k \in Keys :
          \/ cases'[k] = cases[k]
          \/ cases'[k] \in CaseRows /\ (cases[k] # None => NextVersion(cases[k], cases'[k]))

\* A step of an operator: no case becomes resolved, and the passes do not move.
Edits ==
    /\ RowsAdvance
    /\ \A k \in Keys : cases'[k] = cases[k] \/ cases'[k].status # "resolved"
    /\ UNCHANGED <<card, absent, rec, reconciled, cardSaves>>
    /\ policy' \in {0, 1} /\ due' \in BOOLEAN

LEMMA RowsStay ==
    ASSUME CasesWellFormed, RowsAdvance
    PROVE  \A k \in Keys : cases[k] # None => cases'[k] # None
BY DEF RowsAdvance, CasesWellFormed

LEMMA PageStaysTrue ==
    ASSUME CasesWellFormed, CaseTypes, Versions, RowsAdvance, copy' = copy
    PROVE  Versions'
<1> SUFFICES ASSUME copy # None
             PROVE  LET k == copy.key IN
                    /\ cases'[k] # None /\ cases'[k].version >= copy.row.version
                    /\ cases'[k].version = copy.row.version => cases'[k] = copy.row
    BY DEF Versions
<1> DEFINE k == copy.key
<1>1. k \in Keys /\ copy.row \in CaseRows /\ copy.row.version \in Nat
    BY DEF CaseTypes, Pages, CaseRows
<1>2. /\ cases[k] # None /\ cases[k].version >= copy.row.version
      /\ cases[k].version = copy.row.version => cases[k] = copy.row
    BY DEF Versions
<1>3. cases[k].version \in Nat
    BY <1>1, <1>2 DEF CaseTypes, CaseRows
<1>4. cases'[k] # None /\ (cases'[k] = cases[k] \/ cases'[k].version = cases[k].version + 1)
    BY <1>1, <1>2, RowsStay DEF RowsAdvance, NextVersion
<1> QED BY <1>1, <1>2, <1>3, <1>4

LEMMA StoredHasKeys ==
    ASSUME CasesWellFormed, CaseTypes, card # None
    PROVE  R!Stored(card.shot) \subseteq Keys
BY DEF CasesWellFormed, CaseTypes, CardRows

LEMMA EditsKeepRows ==
    ASSUME CasesWellFormed, CaseInv, Edits
    PROVE  Reads' /\ Confirmed' /\ Covered'
<1>1. \A k \in Keys : cases[k] # None => cases'[k] # None
    BY RowsStay DEF Edits
<1>2. Reads'
    BY <1>1 DEF CaseInv, CaseTypes, Reads, Edits, Passes
<1>3. Confirmed'
    BY <1>1 DEF CaseInv, Confirmed, Edits
<1>4. Covered'
    <2> SUFFICES ASSUME reconciled, NEW k \in R!Stored(card.shot)
                 PROVE  cases'[k] # None /\ cases'[k].status # "resolved"
        BY DEF Covered, Edits
    <2>1. k \in Keys
        BY StoredHasKeys DEF CaseInv, Reads
    <2>2. cases[k] # None /\ cases[k].status # "resolved"
        BY DEF CaseInv, Covered
    <2> QED BY <1>1, <2>1, <2>2 DEF Edits
<1> QED BY <1>2, <1>3, <1>4

LEMMA EditsKeepPage ==
    ASSUME CasesWellFormed, CaseInv, Edits, copy' = copy
    PROVE  CaseInv'
<1>1. Versions'
    BY PageStaysTrue DEF CaseInv, Edits
<1>2. CaseTypes'
    BY DEF CaseInv, CaseTypes, Edits, RowsAdvance
<1> QED BY <1>1, <1>2, EditsKeepRows DEF CaseInv

\* One case is edited.
LEMMA OneRow ==
    ASSUME CasesWellFormed, CaseTypes, NEW k \in Keys, NEW row \in CaseRows,
           cases[k] # None => NextVersion(cases[k], row),
           cases' = [cases EXCEPT ![k] = row]
    PROVE  RowsAdvance /\ \A q \in Keys : cases'[q] = cases[q] \/ (q = k /\ cases'[q] = row)
BY DEF CaseTypes, RowsAdvance

LEMMA ExpiryEdits ==
    ASSUME CasesWellFormed, CaseTypes, cases' = R!AfterExpiry
    PROVE  RowsAdvance /\ \A k \in Keys : cases'[k] = cases[k] \/ cases'[k].status # "resolved"
<1>1. ASSUME NEW k \in Keys
      PROVE  \/ cases'[k] = cases[k]
             \/ /\ cases'[k] \in CaseRows /\ cases'[k].status # "resolved"
                /\ cases[k] # None => NextVersion(cases[k], cases'[k])
    <2>1. CASE R!Expiring(k)
        <3>1. cases[k] \in CaseRows /\ cases'[k] = R!Expired(k, cases[k])
            BY <2>1 DEF R!AfterExpiry, R!Expiring, CaseTypes
        <3>2. NextVersion(cases[k], R!Expired(k, cases[k])) /\ R!Expired(k, cases[k]).status = "open"
            BY <3>1, RowChanges DEF CaseTypes
        <3> QED BY <3>1, <3>2 DEF NextVersion
    <2>2. CASE ~R!Expiring(k)
        BY <2>2 DEF R!AfterExpiry
    <2> QED BY <2>1, <2>2
<1>2. cases' = [k \in Keys |-> cases'[k]]
    BY DEF R!AfterExpiry
<1>3. \A k \in Keys : cases'[k] \in CaseRows \cup {None}
    BY <1>1 DEF CaseTypes
<1>4. cases' \in [Keys -> CaseRows \cup {None}]
    BY <1>2, <1>3
<1> QED BY <1>1, <1>4 DEF RowsAdvance

LEMMA LookEdits ==
    ASSUME CasesWellFormed, CaseInv, R!Look
    PROVE  CaseInv'
<1>1. Edits /\ copy' = copy
    BY ExpiryEdits DEF R!Look, Edits, CaseInv, CaseTypes
<1> QED BY <1>1, EditsKeepPage

LEMMA PageOpens ==
    ASSUME CasesWellFormed, CaseInv, NEW k \in Keys, R!OpenPage(k)
    PROVE  CaseInv'
<1>1. Edits /\ copy' = [key |-> k, row |-> cases'[k]] /\ cases[k] # None
    BY ExpiryEdits DEF R!OpenPage, Edits, CaseInv, CaseTypes
<1>2. cases'[k] # None /\ cases'[k] \in CaseRows
    BY <1>1, RowsStay DEF Edits, RowsAdvance
<1>3. copy' \in Pages /\ copy'.key = k /\ copy'.row = cases'[k]
    BY <1>1, <1>2 DEF Pages
<1>4. cases'[k].version \in Nat
    BY <1>2 DEF CaseRows
<1>5. Versions'
    BY <1>2, <1>3, <1>4 DEF Versions
<1>6. CaseTypes'
    BY <1>1, <1>3 DEF CaseInv, CaseTypes, Edits, RowsAdvance
<1> QED BY <1>1, <1>5, <1>6, EditsKeepRows DEF CaseInv

LEMMA PatchEdits ==
    ASSUME CasesWellFormed, CaseInv, NEW s \in R!Working \cup R!Exceptions, NEW m \in BOOLEAN,
           R!Patch(s, m)
    PROVE  CaseInv'
<1> DEFINE k == copy.key
<1>1. /\ copy # None /\ copy' = None /\ k \in Keys /\ cases[k] # None /\ cases[k] \in CaseRows
      /\ cases' = IF R!VersionMatches(k)
                  THEN [cases EXCEPT ![k] = R!Edited(cases[k], s, m)] ELSE cases
      /\ UNCHANGED <<card, absent, policy, rec, due, reconciled, cardSaves>>
    BY DEF R!Patch, R!Asked, CaseInv, CaseTypes, Versions, Pages
<1>2. NextVersion(cases[k], R!Edited(cases[k], s, m)) /\ R!Edited(cases[k], s, m).status # "resolved"
    <2>1. s \in Statuses \ {"resolved"}
        BY DEF R!Working, R!Exceptions, Statuses
    <2> QED BY <1>1, <2>1, EditChanges
<1>3. RowsAdvance /\ \A q \in Keys : cases'[q] = cases[q] \/ cases'[q].status # "resolved"
    <2>1. CASE R!VersionMatches(k)
        <3> DEFINE row == R!Edited(cases[k], s, m)
        <3>1. cases' = [cases EXCEPT ![k] = row] /\ row \in CaseRows /\ NextVersion(cases[k], row)
            BY <1>1, <1>2, <2>1 DEF NextVersion
        <3> HIDE DEF row
        <3>2. RowsAdvance /\ \A q \in Keys : cases'[q] = cases[q] \/ (q = k /\ cases'[q] = row)
            BY <1>1, <3>1, OneRow DEF CaseInv
        <3> QED BY <1>2, <3>2 DEF row
    <2>2. CASE ~R!VersionMatches(k)
        BY <1>1, <2>2 DEF RowsAdvance, CaseInv, CaseTypes
    <2> QED BY <2>1, <2>2
<1>4. Edits
    BY <1>1, <1>3 DEF Edits, CaseInv, CaseTypes
<1>5. CaseTypes'
    BY <1>1, <1>4 DEF CaseInv, CaseTypes, Edits, RowsAdvance
<1>6. Versions'
    BY <1>1 DEF Versions
<1> QED BY <1>4, <1>5, <1>6, EditsKeepRows DEF CaseInv

LEMMA PolicyEdits ==
    ASSUME CasesWellFormed, CaseInv, NEW apply \in BOOLEAN, R!UpdatePolicy(apply)
    PROVE  CaseInv'
<1> DEFINE Date(k) == IF k \in Rated THEN <<"policy", 1>> ELSE <<>>
           Row(k) == [R!Changed(cases[k]) EXCEPT !.due = Date(k)]
           Hit(k) == apply /\ cases[k] # None /\ cases[k].status \in R!Working /\ ~cases[k].manual
<1>1. ASSUME NEW k \in Keys, Hit(k)
      PROVE  NextVersion(cases[k], Row(k)) /\ Row(k).status # "resolved"
    <2>1. cases[k] \in CaseRows /\ cases[k].status # "resolved" /\ policy \in {0, 1}
        BY <1>1 DEF CaseInv, CaseTypes, R!Working
    <2>2. NextVersion(cases[k], R!Changed(cases[k])) /\ R!Changed(cases[k]).status = cases[k].status
        BY <2>1, RowChanges
    <2>3. Date(k) \in Dates
        BY DEF Dates
    <2> HIDE DEF Date
    <2> QED BY <2>1, <2>2, <2>3, DateSet DEF NextVersion
<1>2. cases' = [k \in Keys |-> IF Hit(k) THEN Row(k) ELSE cases[k]]
    BY DEF R!UpdatePolicy
<1>3. UNCHANGED <<card, absent, rec, copy, due, reconciled, cardSaves>> /\ policy' = 1
    BY DEF R!UpdatePolicy, R!Asked
<1> HIDE DEF Row, Hit
<1>4. ASSUME NEW k \in Keys
      PROVE  \/ cases'[k] = cases[k]
             \/ /\ cases'[k] \in CaseRows /\ cases'[k].status # "resolved"
                /\ cases[k] # None => NextVersion(cases[k], cases'[k])
    BY <1>1, <1>2 DEF NextVersion
<1>5. cases' \in [Keys -> CaseRows \cup {None}]
    <2>1. \A k \in Keys : cases'[k] \in CaseRows \cup {None}
        BY <1>4 DEF CaseInv, CaseTypes
    <2> QED BY <1>2, <2>1
<1>6. Edits
    BY <1>3, <1>4, <1>5 DEF Edits, RowsAdvance, CaseInv, CaseTypes
<1> QED BY <1>3, <1>6, EditsKeepPage

LEMMA StartEdits ==
    ASSUME CasesWellFormed, CaseInv, NEW k \in Keys, NEW manual \in BOOLEAN, NEW resume \in BOOLEAN,
           R!StartForFinding(k, manual, resume)
    PROVE  CaseInv'
<1> DEFINE current == IF cases[k] = None THEN R!Case(k) ELSE cases[k]
           again == (current.status = "resolved")
           v == R!Changed(current)
           date == IF manual THEN <<"manual">> ELSE IF again THEN R!ByPolicy(k) ELSE v.due
           hand == IF manual THEN TRUE ELSE IF again THEN FALSE ELSE v.manual
           row == [v EXCEPT !.status = "in_progress", !.expires = FALSE, !.due = date, !.manual = hand]
<1>1. /\ cases' = [cases EXCEPT ![k] = row]
      /\ UNCHANGED <<card, absent, policy, rec, copy, due, reconciled, cardSaves>>
    BY DEF R!StartForFinding, R!Asked
<1>2. policy \in {0, 1} /\ CaseTypes
    BY DEF CaseInv, CaseTypes
<1>3. current \in CaseRows
    BY <1>2, NewCase DEF CaseTypes
<1> HIDE DEF current
<1>4. v \in CaseRows /\ v.version = current.version + 1
    BY <1>2, <1>3, RowChanges DEF NextVersion
<1> HIDE DEF v, again
<1>5. date \in Dates /\ hand \in BOOLEAN
    <2>1. <<"manual">> \in Dates /\ R!ByPolicy(k) \in Dates
        BY <1>2, PolicyDates DEF Dates
    <2>2. v.due \in Dates /\ v.manual \in BOOLEAN
        BY <1>4 DEF CaseRows
    <2> QED BY <2>1, <2>2
<1> HIDE DEF date, hand
<1>6. row \in CaseRows /\ row.version = v.version /\ row.status = "in_progress"
    BY <1>4, <1>5, "in_progress" \in Statuses DEF CaseRows, Statuses
<1> HIDE DEF row
<1>7. cases[k] # None => NextVersion(cases[k], row)
    BY <1>4, <1>6 DEF NextVersion, current
<1>8. RowsAdvance /\ \A q \in Keys : cases'[q] = cases[q] \/ (q = k /\ cases'[q] = row)
    BY <1>1, <1>2, <1>6, <1>7, OneRow
<1>9. Edits
    BY <1>1, <1>2, <1>6, <1>8 DEF Edits, CaseTypes
<1> QED BY <1>1, <1>9, EditsKeepPage

\* A step that leaves the cases, their events, the page and the history alone.
CasesRest == UNCHANGED <<cases, absent, policy, copy, due>>

LEMMA RestKeeps ==
    ASSUME CasesWellFormed, CaseInv, CasesRest, Reads', Covered',
           card' \in CardRows \cup {None}, cardSaves' \in Nat,
           rec' \in [Threads -> Passes], reconciled' \in BOOLEAN
    PROVE  CaseInv'
BY DEF CasesRest, CaseInv, CaseTypes, Confirmed, Versions

LEMMA SavedCardKeeps ==
    ASSUME CasesWellFormed, CaseInv, NEW t \in Threads, NEW shot \in Shots, R!SaveCard(t, shot)
    PROVE  CaseInv'
<1>1. /\ CasesRest /\ cardSaves' = cardSaves + 1 /\ reconciled' = FALSE
      /\ card' = [shot |-> shot, fresh |-> TRUE, no |-> cardSaves']
      /\ rec' = [rec EXCEPT ![t].at = "called"]
    BY DEF R!SaveCard, CasesRest
<1>2. rec \in [Threads -> Passes] /\ cardSaves \in Nat
    BY DEF CaseInv, CaseTypes
<1>3. /\ card' \in CardRows /\ card'.no = cardSaves + 1 /\ card' # None /\ cardSaves' \in Nat
    <2>1. card' \in CardRows /\ card'.no = cardSaves + 1 /\ cardSaves' \in Nat
        BY <1>1, <1>2 DEF CardRows
    <2> QED BY <2>1 DEF CasesWellFormed
<1>4. rec' \in [Threads -> Passes]
    BY <1>1, <1>2 DEF Passes
<1>5. \A u \in Threads : rec[u].no \in Nat /\ rec[u].no <= cardSaves /\ rec'[u].no = rec[u].no
                         /\ rec'[u].old = rec[u].old
                         /\ (rec'[u].at = "locked" => rec[u].at = "locked")
    BY <1>1, <1>2 DEF CaseInv, Reads, Passes
<1>6. Reads'
    BY <1>1, <1>2, <1>3, <1>5 DEF CaseInv, Reads, CasesRest
<1>7. Covered'
    BY <1>1 DEF Covered
<1> QED BY <1>1, <1>3, <1>4, <1>6, <1>7, RestKeeps

\* A pass takes a step: its record changes, and nothing else.
PassSteps(t, p) ==
    /\ CasesRest /\ UNCHANGED <<card, cardSaves, reconciled>>
    /\ rec' = [rec EXCEPT ![t] = p]

LEMMA PassKeeps ==
    ASSUME CasesWellFormed, CaseInv, NEW t \in Threads, NEW p \in Passes, PassSteps(t, p),
           p.at # "idle" => card # None,
           p.no <= cardSaves,
           p.at \in {"read", "locked"} /\ p.no = card.no => p.found = R!Stored(card.shot),
           p.at = "locked" => \A k \in p.old : cases[k] # None
    PROVE  CaseInv'
<1>1. rec' \in [Threads -> Passes] /\ \A u \in Threads : rec'[u] = IF u = t THEN p ELSE rec[u]
    BY DEF PassSteps, CaseInv, CaseTypes
<1>2. Reads' /\ Covered'
    BY <1>1 DEF PassSteps, CasesRest, CaseInv, Reads, Covered
<1> QED BY <1>1, <1>2, RestKeeps DEF PassSteps, CaseInv, CaseTypes

LEMMA RestingIsAPass ==
    ASSUME CaseInv
    PROVE  R!Resting \in Passes /\ R!Resting.at = "idle" /\ R!Resting.no <= cardSaves
BY DEF R!Resting, Passes, CaseInv, CaseTypes

LEMMA CalledKeeps ==
    ASSUME CasesWellFormed, CaseInv, NEW t \in Threads, R!ReconcileAll(t)
    PROVE  CaseInv'
<1> DEFINE p == [rec[t] EXCEPT !.at = "called"]
<1>1. rec[t] \in Passes /\ rec[t].no <= cardSaves
    BY DEF CaseInv, CaseTypes, Reads
<1>2. p \in Passes /\ p.at = "called" /\ p.no = rec[t].no /\ PassSteps(t, p) /\ card # None
    BY <1>1 DEF R!ReconcileAll, R!Saved, PassSteps, CasesRest, Passes
<1> HIDE DEF p
<1> QED BY <1>1, <1>2, PassKeeps

LEMMA FindingsKeep ==
    ASSUME CasesWellFormed, CaseInv, NEW t \in Threads, R!ReadFindings(t)
    PROVE  CaseInv'
<1> DEFINE p == [at |-> "read", found |-> R!Stored(card.shot), no |-> card.no,
                 fresh |-> card.fresh, old |-> {}]
<1>1. card # None /\ card \in CardRows /\ card.no <= cardSaves
    BY DEF R!ReadFindings, CaseInv, CaseTypes, Reads
<1>2. R!Stored(card.shot) \subseteq Keys
    BY <1>1, StoredHasKeys DEF CaseInv
<1>3. p \in Passes
    BY <1>1, <1>2 DEF Passes, CardRows
<1>4. p.at = "read" /\ p.no = card.no /\ p.found = R!Stored(card.shot)
    OBVIOUS
<1>5. PassSteps(t, p)
    BY DEF R!ReadFindings, PassSteps, CasesRest
<1> HIDE DEF p
<1> QED BY <1>1, <1>3, <1>4, <1>5, PassKeeps

LEMMA LocksKeep ==
    ASSUME CasesWellFormed, CaseInv, NEW t \in Threads, R!LockCases(t)
    PROVE  CaseInv'
<1> DEFINE p == [rec[t] EXCEPT !.at = "locked", !.old = {k \in Keys : cases[k] # None}]
<1>1. /\ rec[t] \in Passes /\ rec[t].no <= cardSaves /\ rec[t].at = "read" /\ card # None
      /\ rec[t].no = card.no => rec[t].found = R!Stored(card.shot)
    BY DEF R!LockCases, CaseInv, CaseTypes, Reads
<1>2. /\ p \in Passes /\ p.at = "locked" /\ p.no = rec[t].no /\ p.found = rec[t].found
      /\ p.old = {k \in Keys : cases[k] # None}
    BY <1>1 DEF Passes
<1>3. PassSteps(t, p)
    BY DEF R!LockCases, PassSteps, CasesRest
<1> HIDE DEF p
<1> QED BY <1>1, <1>2, <1>3, PassKeeps

LEMMA ConflictKeeps ==
    ASSUME CasesWellFormed, CaseInv, NEW t \in Threads, R!InsertConflicts(t)
    PROVE  CaseInv'
<1>1. PassSteps(t, R!Resting)
    BY DEF R!InsertConflicts, PassSteps, CasesRest
<1> QED BY <1>1, RestingIsAPass, PassKeeps

LEMMA CrashKeeps ==
    ASSUME CasesWellFormed, CaseInv, R!Crash
    PROVE  CaseInv'
<1>1. /\ CasesRest /\ UNCHANGED <<card, cardSaves, reconciled>>
      /\ rec' = [t \in Threads |-> R!Resting]
    BY DEF R!Crash, CasesRest
<1>2. Reads' /\ Covered' /\ rec' \in [Threads -> Passes]
    BY <1>1, RestingIsAPass DEF CasesRest, CaseInv, Reads, Covered
<1> QED BY <1>1, <1>2, RestKeeps DEF CaseInv, CaseTypes

LEMMA TimeKeeps ==
    ASSUME CasesWellFormed, CaseInv, R!TimePasses
    PROVE  CaseInv'
<1>1. /\ UNCHANGED <<cases, absent, policy, rec, copy, reconciled, cardSaves>> /\ due' = TRUE
      /\ card' = [card EXCEPT !.fresh = FALSE] /\ card \in CardRows
    BY DEF R!TimePasses, R!Saved, CaseInv, CaseTypes
<1>2. card' \in CardRows /\ card' # None /\ card'.no = card.no /\ card'.shot = card.shot
    BY <1>1 DEF CardRows, CasesWellFormed
<1>3. card # None
    BY DEF R!TimePasses, R!Saved
<1>4. Reads' /\ Covered'
    BY <1>1, <1>2, <1>3 DEF CaseInv, Reads, Covered
<1>5. Confirmed' /\ Versions'
    BY <1>1 DEF CaseInv, Confirmed, Versions
<1>6. CaseTypes'
    BY <1>1, <1>2 DEF CaseInv, CaseTypes
<1> QED BY <1>4, <1>5, <1>6 DEF CaseInv

\* The write of a pass: a row that was found again is open, a row that is gone is resolved
\* and has its event, and the case of a new finding is created.
LEMMA WriteRows ==
    ASSUME CasesWellFormed, CaseInv, NEW t \in Threads, R!WriteCases(t), NEW k \in Keys
    PROVE  /\ \/ cases'[k] = cases[k]
              \/ cases'[k] \in CaseRows /\ (cases[k] # None => NextVersion(cases[k], cases'[k]))
           /\ k \in rec[t].found => cases'[k] # None /\ cases'[k].status # "resolved"
           /\ cases'[k] # None /\ cases'[k].status = "resolved" =>
                 \/ k \in R!Gone(t)
                 \/ cases[k] # None /\ cases[k].status = "resolved"
           /\ k \in R!Gone(t) => cases'[k] # None
<1>1. /\ rec[t] \in Passes /\ rec[t].at = "locked" /\ policy \in {0, 1}
      /\ \A q \in rec[t].old : cases[q] # None
      /\ \A q \in rec[t].found \ rec[t].old : cases[q] = None
      /\ cases[k] \in CaseRows \cup {None}
    BY DEF R!WriteCases, CaseInv, CaseTypes, Reads
<1>2. cases'[k] = CASE k \in R!Back(t)                   -> R!Reappeared(k, cases[k])
                    [] k \in rec[t].found \ rec[t].old   -> R!Case(k)
                    [] k \in R!Gone(t)                   -> R!Resolved(cases[k])
                    [] OTHER                             -> cases[k]
    BY DEF R!WriteCases
<1>3. /\ k \in R!Back(t) <=> k \in rec[t].found /\ k \in rec[t].old
      /\ k \in R!Gone(t) => k \in rec[t].old /\ k \notin rec[t].found
    BY DEF R!Back, R!Gone
<1>4. None \notin CaseRows
    BY DEF CasesWellFormed
<1>5. CASE k \in R!Back(t)
    <2>1. cases[k] \in CaseRows /\ cases'[k] = R!Reappeared(k, cases[k])
        BY <1>1, <1>2, <1>3, <1>5
    <2>2. NextVersion(cases[k], cases'[k]) /\ cases'[k].status # "resolved"
        BY <1>1, <2>1, RowChanges
    <2> QED BY <1>3, <1>4, <1>5, <2>2 DEF NextVersion
<1>6. CASE k \in rec[t].found \ rec[t].old
    <2>1. cases[k] = None /\ cases'[k] = R!Case(k)
        BY <1>1, <1>2, <1>3, <1>6
    <2>2. cases'[k] \in CaseRows /\ cases'[k].status = "open"
        BY <1>1, <2>1, NewCase
    <2> QED BY <1>3, <1>4, <1>6, <2>1, <2>2
<1>7. CASE k \in R!Gone(t)
    <2>1. cases[k] \in CaseRows /\ cases'[k] = R!Resolved(cases[k])
        BY <1>1, <1>2, <1>3, <1>7
    <2>2. NextVersion(cases[k], cases'[k])
        BY <1>1, <2>1, RowChanges
    <2> QED BY <1>3, <1>4, <1>7, <2>2 DEF NextVersion
<1>8. CASE k \notin R!Back(t) /\ k \notin rec[t].found \ rec[t].old /\ k \notin R!Gone(t)
    BY <1>2, <1>3, <1>8
<1> QED BY <1>5, <1>6, <1>7, <1>8

LEMMA WriteKeeps ==
    ASSUME CasesWellFormed, CaseInv, NEW t \in Threads, R!WriteCases(t)
    PROVE  CaseInv'
<1>1. /\ UNCHANGED <<card, policy, copy, due, cardSaves>>
      /\ rec' = [rec EXCEPT ![t] = R!Resting]
      /\ reconciled' = (rec[t].no = card.no)
      /\ absent' = [k \in Keys |-> IF k \in R!Gone(t) THEN absent[k] + 1 ELSE absent[k]]
      /\ rec[t].at = "locked" /\ card # None
    BY DEF R!WriteCases, CaseInv, Reads
<1>2. RowsAdvance
    <2>1. cases' = [k \in Keys |-> cases'[k]]
        BY DEF R!WriteCases
    <2>2. \A k \in Keys : cases'[k] \in CaseRows \cup {None}
        BY WriteRows DEF CaseInv, CaseTypes
    <2>3. cases' \in [Keys -> CaseRows \cup {None}]
        BY <2>1, <2>2
    <2> QED BY <2>3, WriteRows DEF RowsAdvance
<1>3. \A k \in Keys : cases[k] # None => cases'[k] # None
    BY <1>2, RowsStay
<1>4. CaseTypes'
    <2>1. absent' \in [Keys -> Nat] /\ rec' \in [Threads -> Passes] /\ reconciled' \in BOOLEAN
        BY <1>1, RestingIsAPass DEF CaseInv, CaseTypes
    <2> QED BY <1>1, <1>2, <2>1 DEF CaseInv, CaseTypes, RowsAdvance
<1>5. Reads'
    <2>1. \A u \in Threads : rec'[u] = IF u = t THEN R!Resting ELSE rec[u]
        BY <1>1 DEF CaseInv, CaseTypes
    <2>2. \A u \in Threads : rec[u].old \subseteq Keys
        BY DEF CaseInv, CaseTypes, Passes
    <2> QED BY <1>1, <1>3, <2>1, <2>2, RestingIsAPass DEF CaseInv, Reads
<1>6. Confirmed'
    <2> SUFFICES ASSUME NEW k \in Keys
                 PROVE  /\ cases'[k] # None /\ cases'[k].status = "resolved" => absent'[k] > 0
                        /\ absent'[k] > 0 => cases'[k] # None
        BY DEF Confirmed
    <2>1. absent[k] \in Nat /\ absent'[k] = IF k \in R!Gone(t) THEN absent[k] + 1 ELSE absent[k]
        BY <1>1 DEF CaseInv, CaseTypes
    <2>2. /\ cases[k] # None /\ cases[k].status = "resolved" => absent[k] > 0
          /\ absent[k] > 0 => cases[k] # None
        BY DEF CaseInv, Confirmed
    <2> QED BY <1>3, <2>1, <2>2, WriteRows
<1>7. Covered'
    <2> SUFFICES ASSUME rec[t].no = card.no, NEW k \in R!Stored(card.shot)
                 PROVE  cases'[k] # None /\ cases'[k].status # "resolved"
        BY <1>1 DEF Covered
    <2>1. k \in Keys /\ k \in rec[t].found
        BY <1>1, StoredHasKeys DEF CaseInv, Reads
    <2> QED BY <2>1, WriteRows
<1>8. Versions'
    BY <1>1, <1>2, PageStaysTrue DEF CaseInv
<1> QED BY <1>4, <1>5, <1>6, <1>7, <1>8 DEF CaseInv

LEMMA CasesInitially ==
    ASSUME CasesWellFormed, R!Init
    PROVE  CaseInv
<1>1. rec = [t \in Threads |-> R!Resting] /\ R!Resting \in Passes
      /\ R!Resting.at = "idle" /\ R!Resting.no = 0
    BY DEF R!Init, R!Resting, Passes
<1>2. CaseTypes
    BY <1>1 DEF R!Init, CaseTypes
<1>3. Reads /\ Confirmed
    BY <1>1 DEF R!Init, Reads, Confirmed
<1>4. Covered /\ Versions
    BY DEF R!Init, Covered, Versions
<1> QED BY <1>2, <1>3, <1>4 DEF CaseInv

LEMMA CasesStep ==
    ASSUME CasesWellFormed, CaseInv, [R!Next]_R!vars
    PROVE  CaseInv'
<1>1. CASE R!Reconciliation
    BY <1>1, SavedCardKeeps, CalledKeeps, FindingsKeep, LocksKeep, WriteKeeps, ConflictKeeps
    DEF R!Reconciliation
<1>2. CASE R!Operators
    BY <1>2, StartEdits, PageOpens, PatchEdits, PolicyEdits, LookEdits DEF R!Operators
<1>3. CASE R!TimePasses
    BY <1>3, TimeKeeps
<1>4. CASE R!Crash
    BY <1>4, CrashKeeps
<1>5. CASE UNCHANGED R!vars
    BY <1>5, RestKeeps DEF R!vars, CasesRest, CaseInv, CaseTypes, Reads, Covered
<1> QED BY <1>1, <1>2, <1>3, <1>4, <1>5 DEF R!Next

\* After a reconciliation of the saved card every stored finding has a case that is not
\* resolved, and the statistics name exactly the cases that are resolved: for any keys,
\* snapshots and threads, and any number of cards, requests and crashes.
THEOREM CasesAreCovered == ASSUME CasesWellFormed PROVE R!Spec => []CasesMatchCard
<1>1. CaseInv => CasesMatchCard
    <2> SUFFICES ASSUME CaseInv PROVE CasesMatchCard
        OBVIOUS
    <2>1. reconciled => \A k \in R!Stored(card.shot) : cases[k] # None /\ cases[k].status # "resolved"
        BY DEF CaseInv, Covered
    <2>2. R!Stats.currently = {k \in Keys : absent[k] > 0 /\ cases[k].status = "resolved"}
        BY DEF R!Stats
    <2>3. \A k \in Keys : absent[k] > 0 /\ cases[k].status = "resolved"
                          <=> cases[k] # None /\ cases[k].status = "resolved"
        BY DEF CaseInv, Confirmed
    <2> QED BY <2>1, <2>2, <2>3 DEF CasesMatchCard, R!CasesMatchCard
<1> QED BY <1>1, CasesInitially, CasesStep, PTL DEF R!Spec

\* expected_version protects from a concurrent overwrite: an edit is applied only to the
\* case the page showed.
THEOREM EditsAreInformed == ASSUME CasesWellFormed PROVE R!Spec => EditsSeeTheirCase
<1>1. CaseInv /\ [R!Next]_R!vars => [R!EditSeesItsCase]_R!vars
    <2> SUFFICES ASSUME CaseInv, [R!Next]_R!vars, copy # None, copy' = None, cases' # cases
                 PROVE  cases[copy.key] = copy.row
        BY DEF R!EditSeesItsCase
    <2>1. PICK s \in R!Working \cup R!Exceptions, m \in BOOLEAN : R!Patch(s, m)
        BY DEF R!Next, R!vars, R!Reconciliation, R!Operators, R!SaveCard, R!ReconcileAll,
               R!ReadFindings, R!LockCases, R!WriteCases, R!InsertConflicts, R!Crash,
               R!StartForFinding, R!OpenPage, R!UpdatePolicy, R!Look, R!TimePasses
    <2>2. R!VersionMatches(copy.key)
        BY <2>1 DEF R!Patch
    <2> QED BY <2>2 DEF R!VersionMatches, CaseInv, Versions
<1> QED BY <1>1, CasesInitially, CasesStep, PTL DEF R!Spec, EditsSeeTheirCase, R!EditsSeeTheirCase

-----------------------------------------------------------------------------
(* Passports.                                                                *)

\* A nonempty set of natural numbers has a least member.
LEMMA LeastNumber ==
    ASSUME NEW S, S \subseteq Nat, S # {}
    PROVE  \E m \in S : \A n \in S : m <= n
<1> DEFINE Less == {p \in Nat \X Nat : p[1] < p[2]}
<1>1. OpToRel(<, Nat) = Less
    BY Zenon DEF OpToRel
<1>2. IsWellFoundedOn(OpToRel(<, Nat), Nat)
    BY NatLessThanWellFounded, Zenon
<1>3. IsWellFoundedOn(Less, Nat)
    BY <1>1, <1>2, Zenon
<1>4. PICK m \in S : \A n \in S : <<n, m>> \notin Less
    <2> HIDE DEF Less
    <2> QED BY <1>3, WFMin, Zenon
<1>5. \A n \in S : ~(n < m)
    BY <1>4
<1> QED BY <1>4, <1>5

Candidates(t, f) == {i \in DOMAIN t : P!Score(t, f, i) > 0}
Winner(t, f, b) == b \in Candidates(t, f) /\ \A j \in Candidates(t, f) \ {b} : P!Better(t, f, b, j)

LEMMA ScoreIsSmall == \A t, f, i : P!Score(t, f, i) \in 0 .. 1000
<1> SUFFICES ASSUME NEW t, NEW f, NEW i PROVE P!Score(t, f, i) \in 0 .. 1000
    OBVIOUS
<1> DEFINE SameOs == P!Family(t[i]) # None /\ P!Family(t[i]) = Finding[f].os
           Os == IF SameOs THEN 50 ELSE 0
           Rel == IF SameOs /\ Finding[f].rel # None /\ Finding[f].rel = t[i].rel THEN 20 ELSE 0
<1>1. P!Score(t, f, i) = IF Finding[f].vid = i THEN 1000
                         ELSE IF Finding[f].cve \in t[i].cves /\ (P!Family(t[i]) = None \/ SameOs)
                         THEN 100 + Os + Rel ELSE 0
    BY DEF P!Score
<1>2. Os \in {0, 50} /\ Rel \in {0, 20}
    OBVIOUS
<1> HIDE DEF SameOs, Os, Rel
<1> QED BY <1>1, <1>2

\* One of the candidates beats every other: of those with the highest score, and of these the
\* ones with a detail if there are any, the first in the order of the ids.
LEMMA SomeWinner ==
    ASSUME NEW t, NEW f, DOMAIN t \subseteq PassportIds, Candidates(t, f) # {}
    PROVE  \E b \in Candidates(t, f) : Winner(t, f, b)
<1> DEFINE C == Candidates(t, f)
           Lost == {1000 - P!Score(t, f, i) : i \in C}
<1>1. C \subseteq PassportIds
    BY DEF Candidates
<1>2. Lost \subseteq Nat /\ Lost # {}
    BY ScoreIsSmall
<1>3. PICK m \in Lost : \A n \in Lost : m <= n
    BY <1>2, LeastNumber
<1> DEFINE First == {i \in C : 1000 - P!Score(t, f, i) = m}
<1>4. First # {} /\ \A i \in First, j \in C \ First : P!Score(t, f, i) > P!Score(t, f, j)
    <2>1. First # {}
        BY <1>3
    <2>2. ASSUME NEW i \in First, NEW j \in C \ First PROVE P!Score(t, f, i) > P!Score(t, f, j)
        <3>1. 1000 - P!Score(t, f, j) \in Lost /\ 1000 - P!Score(t, f, j) # m
            BY <2>2
        <3>2. m <= 1000 - P!Score(t, f, j) /\ m = 1000 - P!Score(t, f, i)
            BY <1>3, <2>2, <3>1
        <3>3. P!Score(t, f, i) \in Int /\ P!Score(t, f, j) \in Int
            BY ScoreIsSmall
        <3> QED BY <3>1, <3>2, <3>3
    <2> QED BY <2>1, <2>2
<1>5. ASSUME NEW i \in First, NEW j \in First PROVE P!Score(t, f, i) = P!Score(t, f, j)
    <2>1. P!Score(t, f, i) \in Int /\ P!Score(t, f, j) \in Int
        BY ScoreIsSmall
    <2> QED BY <2>1
<1> DEFINE Fetched == {i \in First : t[i].detail # None}
           Last == IF Fetched # {} THEN Fetched ELSE First
           Ranks == {Order[i] : i \in Last}
<1>6. Last # {} /\ Last \subseteq First
    BY <1>4
<1>7. Ranks \subseteq Nat /\ Ranks # {}
    BY <1>1, <1>6, IdsOrdered
<1>8. PICK r \in Ranks : \A n \in Ranks : r <= n
    BY <1>7, LeastNumber
<1>9. PICK b \in Last : Order[b] = r
    BY <1>8
<1>10. b \in C /\ b \in First
    BY <1>6
<1>11. ASSUME NEW j \in C \ {b} PROVE P!Better(t, f, b, j)
    <2>1. CASE j \notin First
        BY <1>4, <1>10, <2>1 DEF P!Better
    <2>2. CASE j \in First /\ j \notin Last
        <3>1. t[b].detail # None /\ t[j].detail = None
            BY <2>2
        <3> QED BY <1>5, <1>10, <2>2, <3>1 DEF P!Better
    <2>3. CASE j \in Last
        <3>1. Order[b] <= Order[j] /\ Order[b] # Order[j]
            BY <1>1, <1>8, <1>9, <1>10, <2>3, IdsOrdered
        <3>2. Order[b] < Order[j]
            BY <1>1, <1>10, <3>1, IdsOrdered
        <3>3. (t[b].detail # None) = (t[j].detail # None)
            BY <2>3
        <3>4. P!Score(t, f, b) = P!Score(t, f, j)
            BY <1>5, <1>6, <1>10, <2>3
        <3> QED BY <3>2, <3>3, <3>4 DEF P!Better
    <2> QED BY <2>1, <2>2, <2>3
<1> QED BY <1>10, <1>11 DEF Winner

\* The winner is the only one, and the best passport is the winner.
LEMMA BestWins ==
    ASSUME NEW t, NEW f, DOMAIN t \subseteq PassportIds
    PROVE  /\ Candidates(t, f) = {} => P!Best(t, f) = None
           /\ Candidates(t, f) # {} => Winner(t, f, P!Best(t, f))
           /\ \A b : Winner(t, f, b) => P!Best(t, f) = b
<1>1. P!Best(t, f) = IF Candidates(t, f) = {} THEN None
                     ELSE CHOOSE i \in Candidates(t, f) : \A j \in Candidates(t, f) \ {i} : P!Better(t, f, i, j)
    BY DEF P!Best, Candidates
<1>2. ASSUME NEW a, NEW b, Winner(t, f, a), Winner(t, f, b) PROVE a = b
    <2> SUFFICES ASSUME a # b PROVE FALSE
        OBVIOUS
    <2>1. P!Better(t, f, a, b) /\ P!Better(t, f, b, a)
        BY <1>2 DEF Winner
    <2>2. a \in PassportIds /\ b \in PassportIds
        BY <1>2 DEF Winner, Candidates
    <2>3. P!Score(t, f, a) \in Int /\ P!Score(t, f, b) \in Int
        BY ScoreIsSmall
    <2>4. Order[a] \in Nat /\ Order[b] \in Nat
        BY <2>2, IdsOrdered
    <2> QED BY <2>1, <2>3, <2>4 DEF P!Better
<1>3. Candidates(t, f) # {} => Winner(t, f, P!Best(t, f))
    BY <1>1, SomeWinner DEF Winner
<1>4. \A b : Winner(t, f, b) => P!Best(t, f) = b
    BY <1>2, <1>3 DEF Winner
<1> QED BY <1>1, <1>3, <1>4

\* What the choice of the best passport reads of a row.
Alike(r, s) == r.os = s.os /\ r.detail = s.detail /\ r.cves = s.cves /\ r.rel = s.rel

LEMMA AlikeScores ==
    ASSUME NEW t, NEW u, NEW f, NEW i, Alike(t[i], u[i])
    PROVE  P!Score(u, f, i) = P!Score(t, f, i)
<1>1. P!Family(u[i]) = P!Family(t[i])
    BY DEF Alike, P!Family
<1> QED BY <1>1 DEF Alike, P!Score

\* A write to the passports S leaves the best passport of a finding as it is when it is not
\* one of S and none of S is a candidate afterwards.
LEMMA StillBest ==
    ASSUME NEW t, NEW u, DOMAIN t \subseteq PassportIds, DOMAIN u \subseteq PassportIds,
           NEW f, NEW S,
           \A i \in DOMAIN u \ S : i \in DOMAIN t /\ Alike(t[i], u[i]),
           \A i \in DOMAIN u \cap S : P!Score(u, f, i) = 0,
           P!Best(t, f) # None => P!Best(t, f) \in DOMAIN u \ S
    PROVE  P!Best(u, f) = P!Best(t, f)
<1> DEFINE b == P!Best(t, f)
<1>1. ASSUME NEW i \in Candidates(u, f)
      PROVE  i \in Candidates(t, f) /\ i \in DOMAIN u \ S /\ P!Score(u, f, i) = P!Score(t, f, i)
    <2>1. i \in DOMAIN u \ S
        BY DEF Candidates
    <2>2. P!Score(u, f, i) = P!Score(t, f, i)
        BY <2>1, AlikeScores
    <2> QED BY <2>1, <2>2 DEF Candidates
<1>2. CASE Candidates(t, f) = {}
    <2>1. b = None
        BY <1>2, BestWins
    <2>2. Candidates(u, f) = {}
        BY <1>1, <1>2
    <2> QED BY <2>1, <2>2, BestWins
<1>3. CASE Candidates(t, f) # {}
    <2>1. Winner(t, f, b)
        BY <1>3, BestWins
    <2>2. b \in PassportIds
        BY <2>1 DEF Winner, Candidates
    <2>3. b \in DOMAIN u \ S
        BY <2>2, IdsOrdered
    <2>4. P!Score(u, f, b) = P!Score(t, f, b)
        BY <2>3, AlikeScores
    <2>5. b \in Candidates(u, f)
        BY <2>1, <2>3, <2>4 DEF Winner, Candidates
    <2>6. ASSUME NEW j \in Candidates(u, f) \ {b} PROVE P!Better(u, f, b, j)
        <3>1. P!Better(t, f, b, j)
            BY <1>1, <2>1 DEF Winner
        <3>2. P!Score(u, f, j) = P!Score(t, f, j) /\ Alike(t[j], u[j]) /\ Alike(t[b], u[b])
            BY <1>1, <2>3
        <3> QED BY <2>4, <3>1, <3>2 DEF P!Better, Alike
    <2>7. Winner(u, f, b)
        BY <2>5, <2>6 DEF Winner
    <2> QED BY <2>7, BestWins
<1> QED BY <1>2, <1>3

\* A write that looks up the findings which the passports S can affect leaves the others
\* with their best passport, as long as it changes no passport that is not in S and removes
\* none that a finding outside is linked to.
LEMMA LinkedAreBest ==
    ASSUME P!LinksAreBest, stored \subseteq Findings, DOMAIN rows \subseteq PassportIds,
           NEW u, DOMAIN u \subseteq PassportIds, NEW links, NEW S,
           P!WriteAndLink(u, links, P!Scope(u, links, S)), stored' = stored,
           \A i \in DOMAIN u \ S : i \in DOMAIN rows /\ Alike(rows[i], u[i]),
           \A f \in stored : links[f] \notin S => links[f] = link[f],
           \A i \in DOMAIN rows \ DOMAIN u, f \in stored : links[f] \notin S => link[f] # i
    PROVE  P!LinksAreBest'
<1> SUFFICES ASSUME NEW f \in stored, f \notin loose' PROVE link'[f] = P!Best(rows', f)
    BY DEF P!LinksAreBest
<1> DEFINE scope == P!Scope(u, links, S)
<1>1. rows' = u /\ link' = P!Relinked(u, links, scope) /\ loose' = loose \ scope
    BY DEF P!WriteAndLink
<1>2. f \in Findings
    OBVIOUS
<1>3. CASE f \in scope
    BY <1>1, <1>2, <1>3 DEF P!Relinked
<1>4. CASE f \notin scope
    <2>1. /\ Finding[f].vid \notin S /\ links[f] \notin S
          /\ \A i \in S \cap DOMAIN u : Finding[f].cve \notin u[i].cves
        BY <1>4 DEF P!Scope
    <2>2. \A i \in DOMAIN u \cap S : P!Score(u, f, i) = 0
        BY <2>1 DEF P!Score
    <2>3. link[f] = P!Best(rows, f) /\ links[f] = link[f]
        BY <1>1, <1>4, <2>1 DEF P!LinksAreBest
    <2>4. P!Best(rows, f) # None => P!Best(rows, f) \in DOMAIN rows
        BY BestWins DEF Winner, Candidates
    <2>5. P!Best(rows, f) # None => P!Best(rows, f) \in DOMAIN u \ S
        BY <2>1, <2>3, <2>4
    <2>6. P!Best(u, f) = P!Best(rows, f)
        BY <2>2, <2>5, StillBest
    <2>7. link'[f] = links[f]
        BY <1>1, <1>2, <1>4 DEF P!Relinked
    <2> QED BY <1>1, <2>3, <2>6, <2>7
<1> QED BY <1>3, <1>4

\* A write that looks up nothing marks what it leaves behind.
LEMMA UnlinkedAreLoose ==
    ASSUME P!LinksAreBest, NEW u, NEW links, P!WriteOnly(u, links), stored' = stored
    PROVE  P!LinksAreBest'
BY DEF P!LinksAreBest, P!WriteOnly

\* A listing changes the rows it names, keeps their details, and leaves the others alone.
LEMMA UpsertedRows ==
    ASSUME NEW l
    PROVE  LET t == P!Upserted(l)
           IN  /\ DOMAIN t = DOMAIN l \cup DOMAIN rows
               /\ \A i \in DOMAIN rows \ DOMAIN l : t[i] = rows[i]
               /\ \A i \in DOMAIN t \ P!Changed(l) : i \in DOMAIN rows /\ Alike(rows[i], t[i])
<1> DEFINE t == P!Upserted(l)
<1>1. DOMAIN t = DOMAIN l \cup DOMAIN rows
    BY DEF P!Upserted, P!Over
<1>2. \A i \in DOMAIN rows \ DOMAIN l : t[i] = rows[i]
    BY DEF P!Upserted, P!Over
<1>3. \A i \in DOMAIN l : t[i] = IF i \in DOMAIN rows THEN P!Row(l[i], rows[i].detail, rows[i].fresh)
                                 ELSE P!Row(l[i], None, FALSE)
    BY DEF P!Upserted, P!Over
<1> HIDE DEF t
<1>4. ASSUME NEW i \in DOMAIN t \ P!Changed(l) PROVE i \in DOMAIN rows /\ Alike(rows[i], t[i])
    <2>1. CASE i \in DOMAIN l
        <3>1. i \in DOMAIN rows /\ P!Entry(rows[i]) = l[i]
            BY <1>4, <2>1 DEF P!Changed
        <3>2. t[i] = P!Row(l[i], rows[i].detail, rows[i].fresh)
            BY <1>3, <2>1, <3>1
        <3> QED BY <3>1, <3>2 DEF P!Row, P!Entry, Alike
    <2>2. CASE i \notin DOMAIN l
        BY <1>1, <1>2, <2>2 DEF Alike
    <2> QED BY <2>1, <2>2
<1> QED BY <1>1, <1>2, <1>4 DEF t

\* A passport that is not listed any more is replaced by a listed one that stays, of the same
\* vulnerability and, as far as both are known, of the same package.
Replaces(t, n, o) == /\ t[n].ext = t[o].ext
                     /\ t[n].pkg # None /\ t[o].pkg # None => t[n].pkg = t[o].pkg

LEMMA ReplacementsFit ==
    ASSUME NEW t, NEW succ, NEW stale, NEW loosely
    PROVE  LET new == P!Replacements(t, succ, stale, loosely)
           IN  /\ DOMAIN new \subseteq stale \ succ
               /\ \A o \in DOMAIN new : new[o] \in succ /\ Replaces(t, new[o], o)
<1> DEFINE olds == stale \ succ
           at1 == [o \in olds |-> P!SuccessorAt(1, t, succ, o)]
           at2 == [o \in olds |-> IF at1[o] # {} \/ ~loosely THEN at1[o]
                                  ELSE P!SuccessorAt(2, t, succ, o)]
           Same(o) == {p \in olds : at2[p] = {} /\ t[p].ext = t[o].ext}
           at3 == [o \in olds |->
                    IF at2[o] # {} \/ ~loosely THEN at2[o]
                    ELSE {n \in P!SuccessorAt(3, t, succ, o) : P!PackageUnknown(t, n, Same(o))}]
           new == [o \in {p \in olds : at3[p] # {}} |-> CHOOSE n \in at3[o] : TRUE]
<1>1. P!Replacements(t, succ, stale, loosely) = new
    BY Zenon DEF P!Replacements
<1>2. ASSUME NEW d, NEW o, NEW n \in P!SuccessorAt(d, t, succ, o)
      PROVE  n \in succ /\ P!SameKey(d, t[o], t[n])
    BY <1>2 DEF P!SuccessorAt
<1>3. ASSUME NEW o \in olds, NEW n \in at1[o] PROVE n \in succ /\ Replaces(t, n, o)
    <2>1. n \in P!SuccessorAt(1, t, succ, o)
        BY <1>3
    <2> QED BY <1>2, <2>1 DEF P!SameKey, Replaces
<1>4. ASSUME NEW o \in olds, NEW n \in at2[o] PROVE n \in succ /\ Replaces(t, n, o)
    <2>1. n \in at1[o] \/ n \in P!SuccessorAt(2, t, succ, o)
        BY <1>4
    <2>2. n \in P!SuccessorAt(2, t, succ, o) => n \in succ /\ Replaces(t, n, o)
        BY <1>2 DEF P!SameKey, Replaces
    <2> HIDE DEF at1
    <2> QED BY <1>3, <2>1, <2>2
<1>5. ASSUME NEW o \in olds, NEW n \in at3[o] PROVE n \in succ /\ Replaces(t, n, o)
    <2>1. CASE n \in at2[o]
        BY <1>4, <2>1
    <2>2. CASE n \notin at2[o]
        <3> HIDE DEF at1, at2
        <3>1. /\ n \in P!SuccessorAt(3, t, succ, o) /\ P!PackageUnknown(t, n, Same(o))
              /\ at2[o] = {}
            BY <1>5, <2>2
        <3>2. o \in Same(o)
            BY <3>1
        <3> HIDE DEF Same
        <3> QED BY <1>2, <3>1, <3>2 DEF P!SameKey, P!PackageUnknown, Replaces
    <2> QED BY <2>1, <2>2
<1> HIDE DEF at3
<1>6. DOMAIN new \subseteq olds /\ \A o \in DOMAIN new : new[o] \in at3[o]
    OBVIOUS
<1>7. /\ DOMAIN new \subseteq stale \ succ
      /\ \A o \in DOMAIN new : new[o] \in succ /\ Replaces(t, new[o], o)
    BY <1>5, <1>6
<1> QED BY <1>1, <1>7, Zenon

LEMMA PlanFits ==
    ASSUME NEW t, NEW l, NEW full, DOMAIN l \subseteq DOMAIN t
    PROVE  LET new == P!Plan(t, l, full)
           IN  /\ DOMAIN new \subseteq DOMAIN t \ DOMAIN l
               /\ \A o \in DOMAIN new : new[o] \in DOMAIN l /\ Replaces(t, new[o], o)
<1> DEFINE incoming == {i \in DOMAIN l : l[i].ext # None}
           succ == IF full THEN incoming ELSE incoming \ DOMAIN rows
           lost == {i \in DOMAIN t \ DOMAIN l : t[i].ext # None}
           stale == IF full THEN lost ELSE {i \in lost : \E n \in succ : t[n].ext = t[i].ext}
           new == P!Plan(t, l, full)
<1>1. new = IF incoming = {} THEN <<>> ELSE P!Replacements(t, succ, stale, full)
    BY Zenon DEF P!Plan
<1>2. succ \subseteq DOMAIN l /\ stale \subseteq DOMAIN t \ DOMAIN l
    OBVIOUS
<1> HIDE DEF succ, stale, incoming
<1>3. CASE incoming = {}
    BY <1>1, <1>3
<1>4. CASE incoming # {}
    <2>1. new = P!Replacements(t, succ, stale, full)
        BY <1>1, <1>4
    <2> QED BY <1>2, <2>1, ReplacementsFit
<1> QED BY <1>3, <1>4

\* The rows that stay keep all but the detail, and the detail too unless they replace others.
LEMMA MergedRows ==
    ASSUME NEW t, NEW new
    PROVE  LET u == P!Merged(t, new)
           IN  /\ DOMAIN u = DOMAIN t \ DOMAIN new
               /\ \A i \in DOMAIN u : u[i].ext = t[i].ext /\ u[i].pkg = t[i].pkg
               /\ \A i \in DOMAIN u : i \notin {new[o] : o \in DOMAIN new} => Alike(t[i], u[i])
<1> DEFINE Olds(n) == {o \in DOMAIN new : new[o] = n /\ t[o].detail # None}
           Detail(i) == IF t[i].detail = None /\ Olds(i) # {}
                        THEN t[CHOOSE o \in Olds(i) : TRUE].detail ELSE t[i].detail
           u == P!Merged(t, new)
<1>1. u = [i \in DOMAIN t \ DOMAIN new |-> P!Row(t[i], Detail(i), t[i].fresh /\ t[i].detail # None)]
    BY Zenon DEF P!Merged
<1>2. ASSUME NEW i, i \notin {new[o] : o \in DOMAIN new} PROVE Detail(i) = t[i].detail
    BY <1>2
<1> HIDE DEF Detail, u
<1>3. DOMAIN u = DOMAIN t \ DOMAIN new
    BY <1>1
<1>4. \A i \in DOMAIN u : u[i].ext = t[i].ext /\ u[i].pkg = t[i].pkg
    BY <1>1 DEF P!Row
<1>5. ASSUME NEW i \in DOMAIN u, i \notin {new[o] : o \in DOMAIN new} PROVE Alike(t[i], u[i])
    BY <1>1, <1>2, <1>5 DEF P!Row, Alike
<1> QED BY <1>3, <1>4, <1>5 DEF u

\* What the write of a listing does to the links and the cases.
LEMMA UpsertKeeps ==
    ASSUME P!LinksAreBest, stored \subseteq Findings, DOMAIN rows \subseteq PassportIds,
           case = [k \in Cases |-> case[k]],
           NEW l, DOMAIN l \subseteq PassportIds, NEW full, P!Upsert(l, full)
    PROVE  /\ P!LinksAreBest' /\ DOMAIN rows' \subseteq PassportIds /\ stored' = stored
           /\ P!CaseFollows
<1> DEFINE t == P!Upserted(l)
           new == P!Plan(t, l, full)
           u == P!Merged(t, new)
           links == [f \in Findings |-> P!Follow(new, link[f])]
           S == P!Changed(l) \cup {new[o] : o \in DOMAIN new}
<1>1. /\ P!WriteAndLink(u, links, P!Scope(u, links, S))
      /\ case' = P!MoveCases(new) /\ stored' = stored
    BY DEF P!Upsert
<1>2. /\ DOMAIN t = DOMAIN l \cup DOMAIN rows
      /\ \A i \in DOMAIN rows \ DOMAIN l : t[i] = rows[i]
      /\ \A i \in DOMAIN t \ P!Changed(l) : i \in DOMAIN rows /\ Alike(rows[i], t[i])
    BY UpsertedRows
<1> HIDE DEF t
<1>3. /\ DOMAIN new \subseteq DOMAIN t \ DOMAIN l
      /\ \A o \in DOMAIN new : new[o] \in DOMAIN l /\ Replaces(t, new[o], o)
    BY <1>2, PlanFits
<1> HIDE DEF new
<1>4. /\ DOMAIN u = DOMAIN t \ DOMAIN new
      /\ \A i \in DOMAIN u : u[i].ext = t[i].ext /\ u[i].pkg = t[i].pkg
      /\ \A i \in DOMAIN u : i \notin {new[o] : o \in DOMAIN new} => Alike(t[i], u[i])
    BY MergedRows
<1> HIDE DEF u
<1>5. rows' = u
    BY <1>1 DEF P!WriteAndLink
<1>6. \A i \in DOMAIN u \ S : i \in DOMAIN rows /\ Alike(rows[i], u[i])
    BY <1>2, <1>4 DEF Alike
<1>7. ASSUME NEW f \in stored, links[f] \notin S
      PROVE  links[f] = link[f] /\ link[f] \notin DOMAIN new
    <2>1. links[f] = P!Follow(new, link[f])
        OBVIOUS
    <2> HIDE DEF links
    <2> QED BY <1>7, <2>1 DEF P!Follow
<1>8. DOMAIN rows \ DOMAIN u \subseteq DOMAIN new
    BY <1>2, <1>4
<1>9. DOMAIN u \subseteq PassportIds
    BY <1>2, <1>4
<1>10. P!LinksAreBest'
    <2> HIDE DEF links, S
    <2> QED BY <1>1, <1>6, <1>7, <1>8, <1>9, LinkedAreBest
<1>11. ASSUME NEW k \in Cases, case[k] # None, case'[k] # case[k]
       PROVE  LET n == case'[k] IN
              /\ n # None
              /\ rows'[n].ext = rows[case[k]].ext
              /\ rows'[n].pkg # None /\ rows[case[k]].pkg # None => rows'[n].pkg = rows[case[k]].pkg
    <2>1. case'[k] = P!Follow(new, case[k])
        BY <1>1 DEF P!MoveCases
    <2>2. case[k] \in DOMAIN new /\ case'[k] = new[case[k]]
        BY <1>11, <2>1 DEF P!Follow
    <2>3. case[k] \in DOMAIN rows \ DOMAIN l /\ t[case[k]] = rows[case[k]]
        BY <1>2, <1>3, <2>2
    <2>4. case'[k] \in DOMAIN l /\ Replaces(t, case'[k], case[k])
        BY <1>3, <2>2
    <2>5. case'[k] \in DOMAIN u /\ case'[k] # None
        BY <1>2, <1>3, <1>4, <2>4, IdsOrdered
    <2> QED BY <1>4, <1>5, <2>3, <2>4, <2>5 DEF Replaces
<1>12. P!CaseFollows
    BY <1>11 DEF P!CaseFollows
<1> QED BY <1>1, <1>5, <1>9, <1>10, <1>12

\* What the threads and requests hold: listings of the catalogue and ids of passports.
Held ==
    /\ era \in 1 .. Len(Catalogs)
    /\ rpc = [at |-> rpc.at, list |-> rpc.list] /\ DOMAIN rpc.list \subseteq PassportIds
    /\ query # <<>> => DOMAIN query[1] \subseteq PassportIds
    /\ reader # None => reader \in PassportIds
    /\ dpc = [at |-> dpc.at, todo |-> dpc.todo, batch |-> dpc.batch, loaded |-> dpc.loaded]
    /\ dpc.todo \subseteq PassportIds /\ dpc.batch \subseteq PassportIds

\* The tables, with the best passport of every finding.
Linked ==
    /\ DOMAIN rows \subseteq PassportIds /\ stored \subseteq Findings
    /\ link = [f \in Findings |-> link[f]] /\ case = [k \in Cases |-> case[k]]
    /\ P!LinksAreBest

\* The job has its thread from its row on; the refresh hands it over before it ends.
Worked == P!ActiveMeansWorked /\ (detailJob \in P!ActiveStatuses => dpc.at # "none")

LEMMA PassportsInitially == P!Init => Held /\ Linked /\ Worked
<1> SUFFICES ASSUME P!Init PROVE Held /\ Linked /\ Worked
    OBVIOUS
<1>1. Held
    BY ListingsTyped DEF P!Init, Held, P!Idle, P!NoWork
<1>2. Linked
    BY ListingsTyped DEF P!Init, Linked, P!LinksAreBest
<1>3. Worked
    BY DEF P!Init, Worked, P!ActiveMeansWorked, P!ActiveStatuses
<1> QED BY <1>1, <1>2, <1>3

LEMMA HeldStays ==
    ASSUME Held, DOMAIN rows \subseteq PassportIds, [P!Next]_P!vars PROVE Held'
<1> USE DEF Held, P!refresh, P!details, P!bounds, P!Asked
<1>1. CASE \/ P!RequestRefresh \/ P!RefreshStops \/ P!RefreshFails \/ P!BeginRefresh \/ P!SaveCatalog
           \/ P!SyncTrends \/ P!CancelRefresh \/ P!CancelReads \/ P!CancelWrites
    <2>1. UNCHANGED <<era, query, reader>> /\ dpc' = dpc
        BY <1>1 DEF P!RequestRefresh, P!RefreshStops, P!RefreshFails, P!BeginRefresh, P!SaveCatalog,
                    P!SyncTrends, P!CancelRefresh, P!CancelReads, P!CancelWrites
    <2>2. \/ rpc' = rpc \/ rpc' = P!Idle \/ rpc' = [P!Idle EXCEPT !.at = "queued"]
          \/ \E to \in {"querying", "saved", "trended"} : rpc' = [rpc EXCEPT !.at = to]
        BY <1>1 DEF P!RequestRefresh, P!RefreshStops, P!RefreshFails, P!BeginRefresh, P!SaveCatalog,
                    P!SyncTrends, P!CancelRefresh, P!CancelReads, P!CancelWrites, P!Step, P!EndRefresh
    <2>3. rpc' = [at |-> rpc'.at, list |-> rpc'.list] /\ DOMAIN rpc'.list \subseteq PassportIds
        BY <2>2 DEF P!Idle
    <2> QED BY <2>1, <2>3
<1>2. CASE P!FetchCatalog \/ P!EndOfRefresh
    BY <1>2, ListingsTyped DEF P!FetchCatalog, P!EndOfRefresh, P!EndRefresh, P!Idle
<1>3. CASE P!CreateDetailJob
    BY <1>3 DEF P!CreateDetailJob, P!Step, P!NoWork, P!Eligible
<1>4. CASE P!RefreshTrends \/ P!SavePart \/ P!SaveDetail
    BY <1>4 DEF P!RefreshTrends, P!SavePart, P!SaveDetail
<1>5. ASSUME NEW S \in Parts, P!QueryPart(S) PROVE Held'
    BY <1>5, ListingsTyped DEF P!QueryPart
<1>6. ASSUME NEW i \in PassportIds, P!ReadDetail(i) \/ P!DeletePassport(i) PROVE Held'
    BY <1>6 DEF P!ReadDetail, P!DeletePassport
<1>7. ASSUME NEW i \in PassportIds, P!FetchDetail(i) PROVE Held'
    BY <1>7 DEF P!FetchDetail, P!DetailFrame
<1>8. ASSUME NEW f \in Findings, P!SaveCard(f) \/ \E k \in Cases : P!StartCase(k, f) PROVE Held'
    BY <1>8 DEF P!SaveCard, P!StartCase
<1>9. CASE P!StartDetails \/ P!FlushDetails \/ P!LinkDetails \/ P!EndDetails \/ P!DetailsRaise
    <2>1. UNCHANGED <<era, rpc, query, reader>>
        BY <1>9 DEF P!StartDetails, P!FlushDetails, P!LinkDetails, P!EndDetails, P!DetailsRaise,
                    P!DetailFrame
    <2>2. \/ dpc' = P!NoWork \/ dpc' = [dpc EXCEPT !.batch = {}, !.loaded = TRUE]
          \/ \E to \in {"fetching", "linked"} : dpc' = [dpc EXCEPT !.at = to]
        BY <1>9 DEF P!StartDetails, P!FlushDetails, P!LinkDetails, P!EndDetails, P!DetailsRaise,
                    P!FinishDetails
    <2>3. /\ dpc' = [at |-> dpc'.at, todo |-> dpc'.todo, batch |-> dpc'.batch, loaded |-> dpc'.loaded]
          /\ dpc'.todo \subseteq PassportIds /\ dpc'.batch \subseteq PassportIds
        <3>1. CASE dpc' = P!NoWork
            BY <3>1 DEF P!NoWork
        <3>2. CASE dpc' = [dpc EXCEPT !.batch = {}, !.loaded = TRUE]
            BY <3>2
        <3>3. ASSUME NEW to, dpc' = [dpc EXCEPT !.at = to]
              PROVE  /\ dpc' = [at |-> dpc'.at, todo |-> dpc'.todo, batch |-> dpc'.batch,
                                loaded |-> dpc'.loaded]
                     /\ dpc'.todo \subseteq PassportIds /\ dpc'.batch \subseteq PassportIds
            BY <3>3
        <3>4. CASE dpc' = dpc
            BY <3>4
        <3> QED BY <2>2, <3>1, <3>2, <3>3, <3>4, Zenon
    <2> QED BY <2>1, <2>3
<1>10. CASE P!CancelDetails \/ P!DetailsAge
    BY <1>10 DEF P!CancelDetails, P!DetailsAge
<1>11. CASE P!Reissue
    <2>1. era + 1 \in 1 .. Len(Catalogs)
        BY <1>11, ListingsTyped DEF P!Reissue
    <2> QED BY <1>11, <2>1 DEF P!Reissue
<1>12. CASE P!Restart
    BY <1>12 DEF P!Restart, P!Idle, P!NoWork
<1>13. CASE UNCHANGED P!vars
    BY <1>13 DEF P!vars
<1> QED BY <1>1, <1>2, <1>3, <1>4, <1>5, <1>6, <1>7, <1>8, <1>9, <1>10, <1>11, <1>12, <1>13
       DEF P!Next

\* Trends and a detail touch the rows they name only.
LEMMA OverRows ==
    ASSUME NEW new, NEW t
    PROVE  /\ DOMAIN P!Over(new, t) = DOMAIN new \cup DOMAIN t
           /\ \A i \in DOMAIN P!Over(new, t) \ DOMAIN new :
                 i \in DOMAIN t /\ Alike(t[i], P!Over(new, t)[i])
BY DEF P!Over, Alike

LEMMA TrendRows ==
    ASSUME NEW l, NEW S
    PROVE  LET u == P!TrendParents(l, S)
           IN  /\ DOMAIN u = S \cup DOMAIN rows
               /\ \A i \in DOMAIN u \ S : i \in DOMAIN rows /\ Alike(rows[i], u[i])
<1>1. ASSUME NEW new, DOMAIN new = S
      PROVE  LET u == P!Over(new, rows)
             IN  /\ DOMAIN u = S \cup DOMAIN rows
                 /\ \A i \in DOMAIN u \ S : i \in DOMAIN rows /\ Alike(rows[i], u[i])
    BY <1>1, OverRows
<1> QED BY <1>1 DEF P!TrendParents

LEMMA DetailRows ==
    ASSUME NEW t, NEW S
    PROVE  LET u == P!Detailed(t, S)
           IN  /\ DOMAIN u = S \cup DOMAIN t
               /\ \A i \in DOMAIN u \ S : i \in DOMAIN t /\ Alike(t[i], u[i])
<1>1. ASSUME NEW new, DOMAIN new = S
      PROVE  LET u == P!Over(new, t)
             IN  /\ DOMAIN u = S \cup DOMAIN t
                 /\ \A i \in DOMAIN u \ S : i \in DOMAIN t /\ Alike(t[i], u[i])
    BY <1>1, OverRows
<1> QED BY <1>1 DEF P!Detailed

\* A write without the cases that adds passports and keeps the links but for what it looks up.
LEMMA GrowthKeeps ==
    ASSUME Linked, NEW u, NEW S, S \subseteq PassportIds, DOMAIN u = S \cup DOMAIN rows,
           \A i \in DOMAIN u \ S : i \in DOMAIN rows /\ Alike(rows[i], u[i]),
           UNCHANGED <<stored, case>>,
           P!WriteAndLink(u, link, P!Scope(u, link, S)) \/ P!WriteOnly(u, link)
    PROVE  Linked'
<1>1. DOMAIN rows' \subseteq PassportIds /\ link' = [f \in Findings |-> link'[f]]
    BY DEF Linked, P!WriteAndLink, P!WriteOnly, P!Relinked
<1>2. P!LinksAreBest'
    <2>1. CASE P!WriteOnly(u, link)
        BY <2>1, UnlinkedAreLoose DEF Linked
    <2>2. CASE P!WriteAndLink(u, link, P!Scope(u, link, S))
        BY <2>2, LinkedAreBest DEF Linked
    <2> QED BY <2>1, <2>2
<1> QED BY <1>1, <1>2 DEF Linked

LEMMA NoCaseMoves == ASSUME case' = case PROVE P!CaseFollows
BY DEF P!CaseFollows

\* A listing of the whole catalogue or of a part of it.
LEMMA ListingKeeps ==
    ASSUME Linked, NEW l, DOMAIN l \subseteq PassportIds, NEW full, P!Upsert(l, full)
    PROVE  Linked' /\ P!CaseFollows
<1>1. link' = [f \in Findings |-> link'[f]] /\ case' = [k \in Cases |-> case'[k]]
    BY DEF P!Upsert, P!WriteAndLink, P!Relinked, P!MoveCases
<1> QED BY <1>1, UpsertKeeps DEF Linked

LEMMA TrendsKeep ==
    ASSUME Held, Linked, NEW relink, P!ReplaceTrends(relink)
    PROVE  Linked' /\ P!CaseFollows
<1> DEFINE S == Trending \cap DOMAIN Catalogs[era]
           u == P!TrendParents(Catalogs[era], S)
<1>1. UNCHANGED <<stored, case>> /\ (P!WriteAndLink(u, link, P!Scope(u, link, S)) \/ P!WriteOnly(u, link))
    BY DEF P!ReplaceTrends
<1>2. S \subseteq PassportIds
    BY ListingsTyped DEF Held
<1> HIDE DEF S
<1>3. /\ DOMAIN u = S \cup DOMAIN rows
      /\ \A i \in DOMAIN u \ S : i \in DOMAIN rows /\ Alike(rows[i], u[i])
    BY TrendRows
<1> HIDE DEF u
<1> QED BY <1>1, <1>2, <1>3, GrowthKeeps, NoCaseMoves

\* One detail, or the details of a batch.
LEMMA DetailsKeep ==
    ASSUME Linked, NEW S, S \subseteq PassportIds, UNCHANGED <<stored, case>>,
           LET u == P!Detailed(rows, S)
           IN  P!WriteAndLink(u, link, P!Scope(u, link, S)) \/ P!WriteOnly(u, link)
    PROVE  Linked' /\ P!CaseFollows
<1> DEFINE u == P!Detailed(rows, S)
<1>1. P!WriteAndLink(u, link, P!Scope(u, link, S)) \/ P!WriteOnly(u, link)
    OBVIOUS
<1>2. /\ DOMAIN u = S \cup DOMAIN rows
      /\ \A i \in DOMAIN u \ S : i \in DOMAIN rows /\ Alike(rows[i], u[i])
    BY DetailRows
<1> HIDE DEF u
<1> QED BY <1>1, <1>2, GrowthKeeps, NoCaseMoves

LEMMA DeletionKeeps ==
    ASSUME Linked, NEW i \in PassportIds, P!DeletePassport(i)
    PROVE  Linked' /\ P!CaseFollows
<1> DEFINE u == [j \in DOMAIN rows \ {i} |-> rows[j]]
           links == [f \in Findings |-> IF link[f] = i THEN None ELSE link[f]]
<1>1. /\ P!WriteOnly(u, links) /\ stored' = stored
      /\ case' = [k \in Cases |-> IF case[k] = i THEN None ELSE case[k]]
    BY DEF P!DeletePassport
<1>2. DOMAIN rows' \subseteq PassportIds /\ link' = [f \in Findings |-> link'[f]]
    BY <1>1 DEF Linked, P!WriteOnly
<1>3. P!LinksAreBest'
    <2> HIDE DEF u, links
    <2> QED BY <1>1, UnlinkedAreLoose DEF Linked
<1>4. \A k \in Cases : case'[k] # case[k] => case[k] = i
    BY <1>1
<1>5. P!CaseFollows
    BY <1>4 DEF P!CaseFollows
<1> QED BY <1>1, <1>2, <1>3, <1>5 DEF Linked

LEMMA CardKeeps ==
    ASSUME Linked, NEW f \in Findings, P!SaveCard(f)
    PROVE  Linked' /\ P!CaseFollows
<1>1. /\ stored' = stored \cup {f} /\ link' = [link EXCEPT ![f] = P!Best(rows, f)]
      /\ loose' = loose \ {f} /\ rows' = rows /\ case' = case
    BY DEF P!SaveCard
<1>2. link' = [g \in Findings |-> link'[g]]
      /\ \A g \in Findings : link'[g] = IF g = f THEN P!Best(rows, f) ELSE link[g]
    BY <1>1 DEF Linked
<1>3. P!LinksAreBest'
    BY <1>1, <1>2 DEF Linked, P!LinksAreBest
<1> QED BY <1>1, <1>2, <1>3, NoCaseMoves DEF Linked

\* A detail that grows old is still the detail.
LEMMA AgeKeeps ==
    ASSUME Linked, P!DetailsAge
    PROVE  Linked' /\ P!CaseFollows
<1>1. /\ rows' = [i \in DOMAIN rows |-> P!Row(rows[i], rows[i].detail, FALSE)]
      /\ UNCHANGED <<link, stored, case, loose>>
    BY DEF P!DetailsAge
<1>2. DOMAIN rows' = DOMAIN rows /\ \A i \in DOMAIN rows : Alike(rows[i], rows'[i])
    BY <1>1 DEF P!Row, Alike
<1>3. ASSUME NEW f \in stored PROVE P!Best(rows', f) = P!Best(rows, f)
    <2>1. P!Best(rows, f) # None => P!Best(rows, f) \in DOMAIN rows
        BY BestWins DEF Linked, Winner, Candidates
    <2> DEFINE u == rows'
               S == {}
    <2>2. /\ DOMAIN u \subseteq PassportIds /\ DOMAIN rows \subseteq PassportIds
          /\ \A i \in DOMAIN u \ S : i \in DOMAIN rows /\ Alike(rows[i], u[i])
          /\ \A i \in DOMAIN u \cap S : P!Score(u, f, i) = 0
          /\ P!Best(rows, f) # None => P!Best(rows, f) \in DOMAIN u \ S
        BY <1>2, <2>1 DEF Linked
    <2> HIDE DEF u, S
    <2>3. P!Best(u, f) = P!Best(rows, f)
        BY <2>2, StillBest
    <2> QED BY <2>3 DEF u
<1> QED BY <1>1, <1>2, <1>3, NoCaseMoves DEF Linked, P!LinksAreBest

LEMMA LinkedStays ==
    ASSUME Held, Linked, [P!Next]_P!vars
    PROVE  Linked' /\ P!CaseFollows
<1>1. CASE UNCHANGED P!catalogue
    BY <1>1, NoCaseMoves DEF P!catalogue, Linked, P!LinksAreBest
<1>2. CASE P!SaveCatalog \/ P!SavePart
    <2>1. CASE P!SaveCatalog
        BY <2>1, ListingKeeps DEF P!SaveCatalog, Held
    <2>2. CASE P!SavePart
        BY <2>2, ListingKeeps DEF P!SavePart, Held
    <2> QED BY <1>2, <2>1, <2>2
<1>3. CASE P!SyncTrends \/ P!RefreshTrends
    <2>1. UNCHANGED P!catalogue \/ P!ReplaceTrends(TRUE) \/ P!ReplaceTrends(FALSE)
        BY <1>3 DEF P!SyncTrends, P!RefreshTrends
    <2> QED BY <1>1, <2>1, TrendsKeep
<1>4. CASE P!SaveDetail
    <2>1. {reader} \subseteq PassportIds
        BY <1>4 DEF P!SaveDetail, Held
    <2>2. /\ UNCHANGED <<stored, case>>
          /\ P!WriteAndLink(P!Detailed(rows, {reader}), link,
                            P!Scope(P!Detailed(rows, {reader}), link, {reader}))
        BY <1>4 DEF P!SaveDetail
    <2> QED BY <2>1, <2>2, DetailsKeep
<1>5. CASE P!FlushDetails
    <2>1. dpc.batch \subseteq PassportIds /\ UNCHANGED <<stored, case>>
          /\ P!WriteOnly(P!Detailed(rows, dpc.batch), link)
        BY <1>5 DEF P!FlushDetails, Held
    <2> QED BY <2>1, DetailsKeep
<1>6. CASE P!LinkDetails
    <2>1. CASE dpc.loaded
        <3>1. P!WriteAndLink(rows, link, stored) /\ UNCHANGED <<stored, case>>
            BY <1>6, <2>1 DEF P!LinkDetails
        <3>2. DOMAIN rows' \subseteq PassportIds /\ link' = [f \in Findings |-> link'[f]]
            BY <3>1 DEF Linked, P!WriteAndLink, P!Relinked
        <3>3. P!LinksAreBest'
            BY <3>1 DEF Linked, P!WriteAndLink, P!Relinked, P!LinksAreBest
        <3> QED BY <3>1, <3>2, <3>3, NoCaseMoves DEF Linked
    <2>2. CASE ~dpc.loaded
        BY <1>1, <1>6, <2>2 DEF P!LinkDetails, P!catalogue
    <2> QED BY <2>1, <2>2
<1>7. ASSUME NEW i \in PassportIds, P!DeletePassport(i) PROVE Linked' /\ P!CaseFollows
    BY <1>7, DeletionKeeps
<1>8. ASSUME NEW f \in Findings, P!SaveCard(f) PROVE Linked' /\ P!CaseFollows
    BY <1>8, CardKeeps
<1>9. ASSUME NEW f \in Findings, NEW k \in Cases, P!StartCase(k, f) PROVE Linked' /\ P!CaseFollows
    <2>1. /\ UNCHANGED <<rows, link, stored, loose>>
          /\ case[k] = None /\ case' = [case EXCEPT ![k] = link[f]]
        BY <1>9 DEF P!StartCase
    <2>2. Linked' /\ \A j \in Cases : case'[j] # case[j] => case[j] = None
        BY <2>1 DEF Linked, P!LinksAreBest
    <2> QED BY <2>2 DEF P!CaseFollows
<1>10. CASE P!DetailsAge
    BY <1>10, AgeKeeps
<1>11. CASE \/ P!RequestRefresh \/ P!RefreshStops \/ P!RefreshFails \/ P!BeginRefresh \/ P!FetchCatalog
            \/ P!CreateDetailJob \/ P!EndOfRefresh \/ P!CancelRefresh \/ P!CancelReads \/ P!CancelWrites
            \/ P!StartDetails \/ P!EndDetails \/ P!DetailsRaise \/ P!CancelDetails \/ P!Reissue \/ P!Restart
            \/ (\E S \in Parts : P!QueryPart(S))
            \/ (\E i \in PassportIds : P!ReadDetail(i) \/ P!FetchDetail(i))
            \/ UNCHANGED P!vars
    <2>1. UNCHANGED P!catalogue
        BY <1>11 DEF P!RequestRefresh, P!RefreshStops, P!RefreshFails, P!BeginRefresh, P!FetchCatalog,
            P!CreateDetailJob, P!EndOfRefresh, P!CancelRefresh, P!CancelReads, P!CancelWrites,
            P!StartDetails, P!EndDetails, P!DetailsRaise, P!CancelDetails, P!Reissue, P!Restart,
            P!QueryPart, P!ReadDetail, P!FetchDetail, P!vars
    <2> QED BY <1>1, <2>1
<1> QED
    BY <1>2, <1>3, <1>4, <1>5, <1>6, <1>7, <1>8, <1>9, <1>10, <1>11, Zenon DEF P!Next

\* The row of the refresh is active while its thread is at work, and the one of the details
\* from its creation by the refresh to the end of its thread.
LEMMA WorkedStays == ASSUME Held, Worked, [P!Next]_P!vars PROVE Worked'
<1> USE DEF Held, Worked, P!ActiveMeansWorked, P!ActiveStatuses, P!refresh, P!details
<1>1. CASE P!RequestRefresh \/ P!FetchCatalog
    BY <1>1 DEF P!RequestRefresh, P!FetchCatalog, P!Idle
<1>2. CASE P!RefreshStops \/ P!RefreshFails
    BY <1>2 DEF P!RefreshStops, P!RefreshFails, P!DetailsAbandoned, P!EndRefresh, P!Idle
<1>3. CASE P!BeginRefresh \/ P!SaveCatalog \/ P!SyncTrends
    BY <1>3 DEF P!BeginRefresh, P!SaveCatalog, P!SyncTrends, P!Step
<1>4. CASE P!CreateDetailJob
    BY <1>4 DEF P!CreateDetailJob, P!Step, P!NoWork
<1>5. CASE P!EndOfRefresh
    BY <1>5 DEF P!EndOfRefresh, P!EndRefresh, P!Idle
<1>6. CASE P!CancelRefresh \/ P!CancelReads \/ P!CancelWrites
    BY <1>6 DEF P!CancelRefresh, P!CancelReads, P!CancelWrites
<1>7. CASE P!StartDetails \/ P!FlushDetails \/ P!LinkDetails
    BY <1>7 DEF P!StartDetails, P!FlushDetails, P!LinkDetails, P!FinishDetails, P!DetailFrame, P!NoWork
<1>8. CASE P!EndDetails \/ P!DetailsRaise \/ P!CancelDetails
    BY <1>8 DEF P!EndDetails, P!DetailsRaise, P!CancelDetails, P!FinishDetails, P!DetailFrame, P!NoWork
<1>9. ASSUME NEW i \in PassportIds, P!FetchDetail(i) PROVE Worked'
    BY <1>9 DEF P!FetchDetail, P!DetailFrame
<1>10. CASE P!Restart
    BY <1>10 DEF P!Restart, P!Idle, P!NoWork
<1>11. CASE \/ P!RefreshTrends \/ P!SavePart \/ P!SaveDetail \/ P!Reissue \/ P!DetailsAge
            \/ (\E S \in Parts : P!QueryPart(S))
            \/ (\E i \in PassportIds : P!ReadDetail(i) \/ P!DeletePassport(i))
            \/ (\E f \in Findings : P!SaveCard(f) \/ \E k \in Cases : P!StartCase(k, f))
            \/ UNCHANGED P!vars
    <2>1. UNCHANGED <<P!refresh, P!details>>
        BY <1>11 DEF P!RefreshTrends, P!SavePart, P!SaveDetail, P!Reissue, P!DetailsAge, P!QueryPart,
            P!ReadDetail, P!DeletePassport, P!SaveCard, P!StartCase, P!vars
    <2> QED BY <2>1
<1> QED BY <1>1, <1>2, <1>3, <1>4, <1>5, <1>6, <1>7, <1>8, <1>9, <1>10, <1>11 DEF P!Next

\* Whatever the catalogue lists and whatever is asked in which order, a stored finding has
\* its best passport, unless a write that does not look it up touched it, and an active row
\* has somebody working on it, outside the two windows of ActiveMeansWorked.
THEOREM FindingsHaveTheirPassport == P!Spec => []PassportsHold
<1>1. Held /\ Linked /\ Worked /\ [P!Next]_P!vars => Held' /\ Linked' /\ Worked'
    BY HeldStays, LinkedStays, WorkedStays DEF Linked
<1>2. Linked /\ Worked => PassportsHold
    BY DEF PassportsHold, Linked, Worked
<1> HIDE DEF Held, Linked, Worked
<1> QED BY PassportsInitially, <1>1, <1>2, PTL DEF P!Spec

\* A case keeps its vulnerability, and its package as far as that is known.
THEOREM CasesKeepTheirPassport == P!Spec => P!CasesFollowPassport
<1>1. Held /\ Linked /\ [P!Next]_P!vars => Held' /\ Linked' /\ [P!CaseFollows]_P!vars
    BY HeldStays, LinkedStays DEF Linked
<1>2. P!Init => Held /\ Linked
    BY PassportsInitially
<1> HIDE DEF Held, Linked
<1> QED BY <1>1, <1>2, PTL DEF P!Spec, P!CasesFollowPassport

\* Both halves at once: what the next save reports of a host replaces no other host's card,
\* and what the next listing calls a passport moves no case to another vulnerability.
THEOREM SubjectsAreKept == ASSUME HostsDistinct PROVE I!Spec /\ P!Spec => RowsKeepTheirSubject
<1>1. [\A c \in present \cap present' : host'[c] = host[c]]_I!vars /\ [P!CaseFollows]_P!vars
      => [/\ \A c0 \in present \cap present' : host'[c0] = host[c0]
          /\ P!CaseFollows]_<<identity, passports>>
    <2> SUFFICES ASSUME [\A c \in present \cap present' : host'[c] = host[c]]_I!vars,
                        [P!CaseFollows]_P!vars
                 PROVE  /\ \A c0 \in present \cap present' : host'[c0] = host[c0]
                        /\ P!CaseFollows
        OBVIOUS
    <2>1. UNCHANGED I!vars => host' = host
        BY DEF I!vars, I!identity
    <2>2. UNCHANGED P!vars => P!CaseFollows
        BY NoCaseMoves DEF P!vars, P!catalogue
    <2> QED BY <2>1, <2>2
<1> QED BY <1>1, CardsKeepTheirHost, CasesKeepTheirPassport, PTL
        DEF I!CardsStayWithHost, P!CasesFollowPassport, RowsKeepTheirSubject
-----------------------------------------------------------------------------
(* The tree of the groups.                                                     *)

TreeTypes ==
    /\ parent \in [TreeGroups -> TreeGroups \cup {None}] /\ DOMAIN standing = TreeGroups
    /\ editing = [e \in Editors |-> editing[e]]
    /\ target \in [Editors -> TreeGroups \cup {None}] /\ wish \in [Editors -> TreeGroups \cup {None}]
    /\ candidate \in [Editors -> TreeGroups \cup {None}] /\ walked \in [Editors -> SUBSET TreeGroups]
    /\ overlapped \in BOOLEAN
    /\ \A e \in Editors : editing[e] # "idle" =>
          target[e] \in walked[e] /\ wish[e] # target[e]

\* Every set of live groups has one whose parent is outside.
Acyclic == \A C \in SUBSET H!live : C # {} => \E q \in C : parent[q] \notin C

\* A walk that began at the new parent has seen a chain of parents up to the candidate.
Passed(e) == walked[e] \ {target[e]}
Walks ==
    \A e \in Editors : editing[e] # "idle" =>
        /\ wish[e] \in Passed(e) \/ candidate[e] = wish[e]
        /\ \A q \in Passed(e) : parent[q] \in Passed(e) \cup {candidate[e]}

TreeInv == TreeTypes /\ (overlapped \/ (Acyclic /\ Walks))

\* What is not shown would be a set of groups whose parents are all in it.
LEMMA AllAreShown == ASSUME Acyclic PROVE H!Shown = H!live
<1>1. SUFFICES ASSUME NEW q \in H!live, NEW S \in SUBSET H!live, H!Closed(S), q \notin S
               PROVE  FALSE
    BY DEF H!Shown
<1>2. PICK p \in H!live \ S : parent[p] \notin H!live \ S
    BY <1>1 DEF Acyclic
<1>3. p \notin H!Roots
    BY <1>1, <1>2 DEF H!Closed
<1>4. parent[p] \in S
    BY <1>2, <1>3 DEF H!Roots
<1> QED
    BY <1>1, <1>2, <1>4 DEF H!Closed

LEMMA TreeInitially == H!Init => TreeInv
<1> SUFFICES ASSUME H!Init PROVE TreeInv
    OBVIOUS
<1>1. TreeTypes /\ Walks
    BY DEF H!Init, TreeTypes, Walks
<1>2. \A q \in TreeGroups : parent[q] = None
    BY DEF H!Init
<1>3. Acyclic
    BY <1>2, NoneIsNothing DEF Acyclic, H!live
<1> QED
    BY <1>1, <1>3 DEF TreeInv

\* The groups of a cycle that the new parent would close were all seen on the way up.
LEMMA WriteKeepsAcyclic ==
    ASSUME TreeTypes, Acyclic, Walks, NEW e \in Editors, H!WriteParent(e)
    PROVE  Acyclic'
<1>1. SUFFICES ASSUME NEW C \in SUBSET H!live', C # {}, \A q \in C : parent'[q] \in C
               PROVE  FALSE
    BY DEF Acyclic
<1> DEFINE t == target[e]
           D == C \cap Passed(e)
<1>2. candidate[e] = None /\ editing[e] # "idle" /\ None \notin C
    BY <1>1, NoneIsNothing DEF H!WriteParent, H!live
<1>3. /\ \A q \in TreeGroups : q # t => parent'[q] = parent[q]
      /\ H!live' \subseteq H!live \cup {t}
    BY DEF H!WriteParent, TreeTypes, H!live
<1>4. t \in C /\ parent'[t] = wish[e]
  <2>1. ASSUME t \notin C PROVE FALSE
    <3>1. C \in SUBSET H!live /\ \A q \in C : parent[q] \in C
        BY <1>1, <1>3, <2>1 DEF H!live
    <3> QED
        BY <1>1, <3>1 DEF Acyclic
  <2>2. CASE t \in H!live
    <3> QED
        BY <1>2, <2>1, <2>2 DEF H!WriteParent, TreeTypes, H!live
  <2>3. CASE t \notin H!live
    <3>1. standing'[t] = "live" /\ t \in TreeGroups
        BY <2>1 DEF H!live
    <3>2. editing[e] = "creating"
        BY <2>3, <3>1 DEF H!WriteParent, H!live
    <3> QED
        BY <2>1, <3>1, <3>2 DEF H!WriteParent, TreeTypes
  <2> QED
    BY <2>2, <2>3
<1>5. D # {}
  <2>1. wish[e] \in C
    BY <1>1, <1>4
  <2> QED
    BY <1>2, <2>1 DEF Walks
<1>6. D \in SUBSET H!live
    BY <1>1, <1>3 DEF Passed
<1>7. ASSUME NEW q \in D PROVE parent[q] \in D
  <2>1. q \in TreeGroups /\ q # t
    BY DEF Passed, H!live
  <2>2. parent[q] \in C
    BY <1>1, <1>3, <2>1
  <2> QED
    BY <1>2, <2>2 DEF Walks
<1> QED
    BY <1>5, <1>6, <1>7 DEF Acyclic

LEMMA TreeStays == ASSUME TreeInv, [H!Next]_H!vars PROVE TreeInv'
<1> USE DEF TreeInv
<1>1. ASSUME NEW e \in Editors, H!Refused(e) PROVE TreeInv'
  <2>1. TreeTypes'
    BY <1>1 DEF H!Refused, H!Done, TreeTypes
  <2>2. ASSUME Acyclic, Walks PROVE Acyclic' /\ Walks'
    BY <1>1, <2>2 DEF H!Refused, H!Done, TreeTypes, Acyclic, Walks, Passed, H!live
  <2> QED
    BY <1>1, <2>1, <2>2 DEF H!Refused
<1>2. ASSUME NEW e \in Editors, H!Ascend(e) PROVE TreeInv'
  <2>1. TreeTypes'
    BY <1>2 DEF H!Ascend, TreeTypes, H!live
  <2>2. ASSUME Acyclic, Walks PROVE Acyclic'
    BY <1>2, <2>2 DEF H!Ascend, Acyclic, H!live
  <2>3. ASSUME Acyclic, Walks, NEW o \in Editors, editing'[o] # "idle"
        PROVE  /\ (wish[o] \in Passed(o) \/ candidate[o] = wish[o])'
               /\ \A q \in Passed(o)' : parent'[q] \in Passed(o)' \cup {candidate'[o]}
    <3>1. CASE o # e
      BY <1>2, <2>3, <3>1 DEF H!Ascend, TreeTypes, Walks, Passed
    <3>2. CASE o = e
      <4>1. candidate[e] # target[e] /\ Passed(e)' = Passed(e) \cup {candidate[e]}
        BY <1>2 DEF H!Ascend, TreeTypes, Passed
      <4>2. candidate'[e] = parent[candidate[e]]
        BY <1>2 DEF H!Ascend, TreeTypes
      <4> QED
        BY <1>2, <2>3, <3>2, <4>1, <4>2 DEF H!Ascend, Walks
    <3> QED
      BY <3>1, <3>2
  <2> QED
    BY <1>2, <2>1, <2>2, <2>3 DEF H!Ascend, Walks
<1>3. ASSUME NEW e \in Editors, H!WriteParent(e) PROVE TreeInv'
  <2>1. TreeTypes'
    BY <1>3 DEF H!WriteParent, H!Done, TreeTypes, H!live
  <2>2. ASSUME ~overlapped' PROVE Acyclic' /\ Walks'
    <3>1. Acyclic /\ Walks
      BY <1>3, <2>2 DEF H!WriteParent, TreeTypes
    <3>2. \A o \in Editors : editing'[o] = "idle"
      BY <1>3, <2>2 DEF H!WriteParent, H!Done, TreeTypes
    <3> QED
      BY <1>3, <3>1, <3>2, WriteKeepsAcyclic DEF Walks
  <2> QED
    BY <2>1, <2>2
<1>4. ASSUME NEW e \in Editors, NEW q \in TreeGroups, NEW p \in TreeGroups \cup {None},
             H!BeginEdit(e, q, p) \/ H!BeginCreate(e, q, p)
      PROVE  TreeInv'
  <2>1. H!Begin(e, "editing", q, p) \/ H!Begin(e, "creating", q, p)
    BY <1>4 DEF H!BeginEdit, H!BeginCreate
  <2>2. TreeTypes'
    BY <2>1 DEF H!Begin, TreeTypes
  <2>3. ASSUME Acyclic, Walks PROVE Acyclic' /\ Walks'
    BY <2>1, <2>3 DEF H!Begin, TreeTypes, Acyclic, Walks, Passed, H!live
  <2> QED
    BY <2>1, <2>2, <2>3 DEF H!Begin
<1>5. ASSUME NEW q \in TreeGroups, H!ArchiveGroup(q) PROVE TreeInv'
  <2>1. TreeTypes' /\ H!live' \subseteq H!live
    BY <1>5 DEF H!ArchiveGroup, H!walk, TreeTypes, H!live
  <2>2. ASSUME Acyclic, Walks PROVE Acyclic' /\ Walks'
    BY <1>5, <2>1, <2>2 DEF H!ArchiveGroup, H!walk, Acyclic, Walks, Passed
  <2> QED
    BY <1>5, <2>1, <2>2 DEF H!ArchiveGroup
<1>6. ASSUME UNCHANGED H!vars PROVE TreeInv'
    BY <1>6 DEF H!vars, TreeTypes, Acyclic, Walks, Passed, H!live
<1> QED
    BY <1>1, <1>2, <1>3, <1>4, <1>5, <1>6 DEF H!Next

-----------------------------------------------------------------------------
(* The index and the groups that are evaluated from it.                        *)

IndexTypes ==
    /\ content \in [Indexed -> Contents \cup {None}] /\ DOMAIN index = Indexed /\ DOMAIN inventory = Indexed
    /\ overtaken \subseteq Indexed

\* What the backfill has read is what is stored, unless the card was saved meanwhile; a
\* card that is gone is not written.
Carried ==
    /\ bpc = "writing" => held # None
    /\ held # None =>
          held.id \in Indexed /\ (held.id \in overtaken \/ content[held.id] \in {None, held.content})

IndexInv == IndexTypes /\ Carried /\ G!IndexFollowsCards

LEMMA IndexInitially == G!Init => IndexInv
BY DEF G!Init, G!SearchInit, IndexInv, IndexTypes, Carried, G!IndexFollowsCards

LEMMA IndexStays == ASSUME IndexInv, G!SearchNext PROVE IndexInv'
<1> USE DEF IndexInv, IndexTypes, Carried
<1>1. ASSUME G!StartBackfill \/ G!Count \/ G!Select \/ G!EndBatch \/ G!EndBackfill \/ G!Fail
      PROVE  IndexInv'
  <2>1. UNCHANGED <<content, index, inventory, overtaken>> /\ (held' = held \/ held' = None)
       /\ bpc' # "writing"
    BY <1>1 DEF G!StartBackfill, G!Count, G!Select, G!EndBatch, G!EndBackfill, G!Fail, G!Stopped
  <2> QED
    BY <2>1 DEF G!IndexFollowsCards
<1>2. ASSUME NEW a \in Indexed, G!ReadCard(a) PROVE IndexInv'
  <2>1. UNCHANGED <<content, index, inventory, overtaken>>
    BY <1>2 DEF G!ReadCard
  <2>2. held' = held \/ (held'.id = a /\ held'.content = content[a] /\ held' # None)
    <3>1. CASE content[a] = None
      BY <1>2, <3>1 DEF G!ReadCard
    <3>2. CASE content[a] # None
      <4>1. [id |-> a, content |-> content[a]] # None
        BY <3>2, NoneIsNothing
      <4> QED
        BY <1>2, <3>2, <4>1 DEF G!ReadCard
    <3> QED
      BY <3>1, <3>2
  <2>3. bpc' = "writing" => held' # None
    <3>1. content[a] # None => [id |-> a, content |-> content[a]] # None
      BY NoneIsNothing
    <3> QED
      BY <1>2, <3>1 DEF G!ReadCard
  <2> QED
    BY <2>1, <2>2, <2>3 DEF G!IndexFollowsCards
<1>3. ASSUME G!WriteRows PROVE IndexInv'
  <2>1. held # None
    BY <1>3 DEF G!WriteRows
  <2> QED
    BY <1>3, <2>1 DEF G!WriteRows, G!IndexFollowsCards
<1>4. ASSUME NEW a \in Indexed, NEW rows0 \in Contents, G!SaveCard(a, rows0) PROVE IndexInv'
  <2>1. UNCHANGED <<held, bpc>> /\ G!Saved(a, rows0)
    BY <1>4 DEF G!SaveCard, G!threadVars
  <2>2. overtaken' = IF held # None /\ held.id = a THEN overtaken \cup {a} ELSE overtaken \ {a}
    BY <1>4 DEF G!SaveCard
  <2> QED
    BY <2>1, <2>2 DEF G!Saved, G!IndexFollowsCards
<1>5. ASSUME NEW a \in Indexed, G!DeleteCard(a) PROVE IndexInv'
    BY <1>5 DEF G!DeleteCard, G!threadVars, G!IndexFollowsCards
<1> QED
    BY <1>1, <1>2, <1>3, <1>4, <1>5 DEF G!SearchNext, G!Backfill

GroupTypes ==
    /\ override \in [Indexed -> {"include", "exclude", None}]
    /\ epc = [e \in Evaluators |-> epc[e]] /\ read = [e \in Evaluators |-> read[e]]
    /\ matched = [e \in Evaluators |-> matched[e]]

\* An evaluation that nothing overtook knows the definition, and the cards it selects.
Evaluated(e) ==
    /\ read[e].query = rule
    /\ epc[e] = "writing" => matched[e] = G!Matched(rule)
Evaluations == \A e \in Evaluators : epc[e] # "idle" /\ e \notin crossed => Evaluated(e)

\* The members that the search gives the definition and the exceptions.
Due == {a \in G!Cards : override[a] = "include" \/ (override[a] # "exclude" /\ a \in G!Matched(rule))}
ReadyIsDue == status = "ready" /\ ~doubtful => members = Due

GroupInv == GroupTypes /\ Evaluations /\ ReadyIsDue

\* The search selects the cards that it is documented to select, by their content.
SearchMeans == \A rows0 \in Contents, q \in Definitions : Accepts(q) => (Finds(rows0, q) <=> Satisfies(rows0, q))

LEMMA GroupInitially == G!Init => GroupInv /\ rule \in Definitions /\ Accepts(rule)
BY DEF G!Init, GroupInv, GroupTypes, Evaluations, ReadyIsDue

LEMMA GroupStaysReady == ASSUME GroupInv, [G!Next]_<<G!searchVars, G!groupVars>> PROVE GroupInv'
<1> USE DEF GroupInv
<1>1. ASSUME NEW q \in Definitions, G!UpdateQuery(q) PROVE GroupInv'
  <2>1. UNCHANGED <<override, epc, read, matched>> /\ status' = "stale" /\ crossed' = G!Evaluating
    BY <1>1 DEF G!UpdateQuery, G!Edited, G!evaluation
  <2> QED
    BY <2>1 DEF GroupTypes, Evaluations, ReadyIsDue, G!Evaluating
<1>2. ASSUME NEW a \in Indexed, NEW action \in {"include", "exclude"},
             G!SetOverride(a, action) \/ G!DropOverride(a)
      PROVE  GroupInv'
  <2>1. UNCHANGED <<epc, read, matched>> /\ status' = "stale" /\ crossed' = G!Evaluating
    BY <1>2 DEF G!SetOverride, G!DropOverride, G!Edited, G!evaluation
  <2>2. override' \in [Indexed -> {"include", "exclude", None}]
    BY <1>2 DEF G!SetOverride, G!DropOverride, GroupTypes
  <2> QED
    BY <2>1, <2>2 DEF GroupTypes, Evaluations, ReadyIsDue, G!Evaluating
<1>3. ASSUME G!Archive \/ UNCHANGED <<G!searchVars, G!groupVars>> PROVE GroupInv'
  <2>1. UNCHANGED <<content, index, rule, status, override, members, epc, read, matched, crossed, doubtful>>
    BY <1>3 DEF G!Archive, G!evaluation, G!searchVars, G!groupVars
  <2> QED
    BY <2>1 DEF GroupTypes, Evaluations, Evaluated, ReadyIsDue, Due, G!Matched, G!Cards
<1>4. ASSUME NEW e \in Evaluators, G!ReadGroup(e) PROVE GroupInv'
  <2>1. UNCHANGED <<content, index, rule, status, override, members, matched, doubtful>>
    BY <1>4 DEF G!ReadGroup, G!searchVars
  <2>2. GroupTypes' /\ epc'[e] = "marking" /\ read'[e].query = rule /\ crossed' = crossed \ {e}
    BY <1>4 DEF G!ReadGroup, GroupTypes
  <2>3. \A o \in Evaluators : o # e => epc'[o] = epc[o] /\ read'[o] = read[o]
    BY <1>4 DEF G!ReadGroup, GroupTypes
  <2> QED
    BY <2>1, <2>2, <2>3 DEF Evaluations, Evaluated, ReadyIsDue, Due, G!Matched, G!Cards
<1>5. ASSUME NEW e \in Evaluators, G!MarkEvaluating(e) PROVE GroupInv'
  <2>1. UNCHANGED <<content, index, rule, override, members, read, matched, crossed, doubtful>> /\ status' = "evaluating"
    BY <1>5 DEF G!MarkEvaluating, G!searchVars
  <2>2. GroupTypes' /\ epc[e] # "idle" /\ epc'[e] = "querying"
        /\ \A o \in Evaluators : o # e => epc'[o] = epc[o]
    BY <1>5 DEF G!MarkEvaluating, GroupTypes
  <2> QED
    BY <2>1, <2>2 DEF Evaluations, Evaluated, ReadyIsDue, G!Matched, G!Cards
<1>6. ASSUME NEW e \in Evaluators, G!QueryCards(e) PROVE GroupInv'
  <2>1. UNCHANGED <<content, index, rule, status, override, members, read, crossed, doubtful>>
    BY <1>6 DEF G!QueryCards, G!searchVars
  <2>2. GroupTypes' /\ epc[e] # "idle" /\ matched'[e] = G!Matched(read[e].query)
        /\ \A o \in Evaluators : o # e => epc'[o] = epc[o] /\ matched'[o] = matched[o]
    BY <1>6 DEF G!QueryCards, GroupTypes
  <2> QED
    BY <2>1, <2>2 DEF Evaluations, Evaluated, ReadyIsDue, Due, G!Matched, G!Cards
<1>7. ASSUME NEW e \in Evaluators, G!WriteMembers(e) PROVE GroupInv'
  <2>1. UNCHANGED <<content, index, rule, override, crossed>>
    BY <1>7 DEF G!WriteMembers, G!searchVars
  <2>2. GroupTypes' /\ epc'[e] = "idle"
        /\ \A o \in Evaluators : o # e => epc'[o] = epc[o] /\ matched'[o] = matched[o] /\ read'[o] = read[o]
    BY <1>7 DEF G!WriteMembers, G!Idle, GroupTypes
  <2>3. Evaluations'
    BY <2>1, <2>2 DEF Evaluations, Evaluated, G!Matched, G!Cards
  <2>4. ASSUME ~doubtful' PROVE members' = Due'
    <3>1. epc[e] = "writing" /\ e \notin crossed
      BY <1>7, <2>4 DEF G!WriteMembers
    <3>2. matched[e] = G!Matched(rule)
      BY <3>1 DEF Evaluations, Evaluated
    <3>3. members' = {a \in matched[e] : override[a] # "exclude"} \cup {a \in G!Cards : override[a] = "include"}
      BY <1>7 DEF G!WriteMembers
    <3> QED
      BY <2>1, <3>2, <3>3 DEF Due, G!Matched, G!Cards
  <2> QED
    BY <2>2, <2>3, <2>4 DEF ReadyIsDue
<1>8. ASSUME NEW e \in Evaluators, G!EvaluationFails(e) PROVE GroupInv'
  <2>1. UNCHANGED <<content, index, rule, override, members, crossed, doubtful>> /\ status' = "error"
    BY <1>8 DEF G!EvaluationFails, G!searchVars
  <2>2. GroupTypes' /\ epc'[e] = "idle"
        /\ \A o \in Evaluators : o # e => epc'[o] = epc[o] /\ matched'[o] = matched[o] /\ read'[o] = read[o]
    BY <1>8 DEF G!EvaluationFails, G!Idle, GroupTypes
  <2> QED
    BY <2>1, <2>2 DEF Evaluations, Evaluated, ReadyIsDue, G!Matched, G!Cards
<1>9. ASSUME G!Crash PROVE GroupInv'
  <2>1. UNCHANGED <<content, index, rule, status, override, members, crossed, doubtful>>
    BY <1>9 DEF G!Crash, G!searchVars
  <2>2. GroupTypes' /\ \A e \in Evaluators : epc'[e] = "idle"
    BY <1>9 DEF G!Crash, GroupTypes
  <2> QED
    BY <2>1, <2>2 DEF Evaluations, ReadyIsDue, Due, G!Matched, G!Cards
<1>10. ASSUME G!CardsChange PROVE GroupInv'
  <2>1. UNCHANGED <<rule, status, epc, read, matched>>
        /\ override' = [a \in Indexed |-> IF content'[a] = None THEN None ELSE override[a]]
        /\ members' = members \ {a \in Indexed : content'[a] = None}
    BY <1>10 DEF G!CardsChange, G!evaluation
  <2>2. GroupTypes'
    BY <2>1 DEF GroupTypes
  <2>3. CASE index' # index \/ content' # content
    <3>1. crossed' = G!Evaluating /\ doubtful'
      BY <1>10, <2>3 DEF G!CardsChange
    <3> QED
      BY <2>1, <2>2, <3>1 DEF Evaluations, ReadyIsDue, G!Evaluating
  <2>4. CASE index' = index /\ content' = content
    <3>1. UNCHANGED <<crossed, doubtful>>
      BY <1>10, <2>4 DEF G!CardsChange
    <3>2. Evaluations'
      BY <2>1, <2>4, <3>1 DEF Evaluations, Evaluated, G!Matched, G!Cards
    <3>3. \A a \in G!Cards : override'[a] = override[a]
      BY <2>1, <2>4 DEF G!Cards
    <3>4. Due' = Due /\ Due \cap {a \in Indexed : content'[a] = None} = {}
      BY <2>1, <2>4, <3>3 DEF Due, G!Matched, G!Cards
    <3> QED
      BY <2>1, <2>2, <3>1, <3>2, <3>4 DEF ReadyIsDue
  <2> QED
    BY <2>3, <2>4
<1> QED
    BY <1>1, <1>2, <1>3, <1>4, <1>5, <1>6, <1>7, <1>8, <1>9, <1>10 DEF G!Next

Defined == rule \in Definitions /\ Accepts(rule)

LEMMA IndexAndGroupStay ==
    ASSUME IndexInv, GroupInv, Defined, [G!Next]_<<G!searchVars, G!groupVars>>
    PROVE  IndexInv' /\ GroupInv' /\ Defined'
<1>1. GroupInv'
    BY GroupStaysReady
<1>2. ASSUME UNCHANGED G!searchVars PROVE IndexInv'
    BY <1>2 DEF G!searchVars, IndexInv, IndexTypes, Carried, G!IndexFollowsCards
<1>3. G!SearchNext \/ UNCHANGED G!searchVars
  <2>1. CASE G!CardsChange
    BY <2>1 DEF G!CardsChange
  <2>2. CASE G!Next /\ ~G!CardsChange
    BY <2>2 DEF G!Next, G!Archive, G!Crash, G!UpdateQuery, G!DropOverride, G!SetOverride, G!ReadGroup,
          G!MarkEvaluating, G!QueryCards, G!WriteMembers, G!EvaluationFails
  <2> QED
    BY <2>1, <2>2
<1>4. Defined'
    BY DEF Defined, G!Next, G!CardsChange, G!Archive, G!Crash, G!UpdateQuery, G!DropOverride,
           G!SetOverride, G!ReadGroup, G!MarkEvaluating, G!QueryCards, G!WriteMembers,
           G!EvaluationFails, G!groupVars
<1> QED
    BY <1>1, <1>2, <1>3, <1>4, IndexStays

LEMMA ReadyIsRight == ASSUME SearchMeans, IndexInv, ReadyIsDue, Defined PROVE G!ReadyGroupIsRight
<1>1. SUFFICES ASSUME status = "ready", ~doubtful, \A a \in G!Cards : index[a] = content[a]
      PROVE members = {a \in G!Cards : override[a] = "include"
                          \/ (override[a] # "exclude" /\ Satisfies(content[a], rule))}
    BY DEF G!ReadyGroupIsRight
<1>2. \A a \in G!Cards : a \in G!Matched(rule) <=> Satisfies(content[a], rule)
    BY <1>1 DEF SearchMeans, Defined, IndexInv, IndexTypes, G!Matched, G!Cards
<1> QED
    BY <1>1, <1>2 DEF ReadyIsDue, Due

\* Evaluations, edits and the backfill interleave as they like, and so do edits of parents:
\* what a page or a group scan reads is what was defined, the three races excepted that
\* `overtaken`, `doubtful` and `overlapped` stand for.
THEOREM GroupsAreRight == ASSUME SearchMeans PROVE G!Spec /\ H!Spec => []GroupsHold
<1>1. G!Init => IndexInv /\ GroupInv /\ Defined
    BY IndexInitially, GroupInitially DEF Defined
<1>2. IndexInv /\ GroupInv /\ Defined /\ [G!Next]_<<G!searchVars, G!groupVars>>
      => IndexInv' /\ GroupInv' /\ Defined'
    BY IndexAndGroupStay
<1>3. IndexInv /\ GroupInv /\ Defined /\ TreeInv => GroupsHold
    BY ReadyIsRight, AllAreShown DEF GroupsHold, IndexInv, GroupInv, TreeInv, H!EveryGroupShown
<1>4. TreeInv /\ [H!Next]_H!vars => TreeInv'
    BY TreeStays
<1> HIDE DEF IndexInv, GroupInv, Defined, TreeInv
<1> QED
    BY <1>1, <1>2, <1>3, <1>4, TreeInitially, PTL DEF G!Spec, H!Spec

-----------------------------------------------------------------------------
(* The history of the totals.                                                  *)

\* Ids count the snapshots; what was pruned is older than the retention before one of them.
HistoryInv ==
    /\ day \in Nat /\ snapshots \subseteq history /\ IsFiniteSet(history)
    /\ \A c \in captures : c.at \in 0 .. day
    /\ \A s \in history : s.at \in 0 .. day /\ s.id \in 1 .. Cardinality(history)
    /\ \A s, t \in history : s.id = t.id => s = t
    /\ \A s \in history \ snapshots : \E t \in history : s.at < t.at - HistoryDays

LEMMA SameCount == \A S : T!Cardinality(S) = Cardinality(S)
BY DEF Cardinality, T!Cardinality, IsFiniteSet, T!IsFiniteSet

\* A set of snapshots has a last one.
IsLast(s, S) == s \in S /\ \A t \in S \ {s} : T!Later(s, t)

LEMMA LastIsLatest ==
    ASSUME HistoryInv, NEW S \in SUBSET history
    PROVE  /\ S # {} => IsLast(T!Latest(S), S)
           /\ \A s : IsLast(s, S) => s = T!Latest(S)
<1>1. \A s \in S : s.at \in Int /\ s.id \in Int
    BY DEF HistoryInv
<1>2. ASSUME S # {} PROVE \E s : IsLast(s, S)
  <2> DEFINE Ages == {day - s.at : s \in S}
  <2>1. Ages \subseteq Nat /\ Ages # {}
    BY <1>2 DEF HistoryInv
  <2>2. PICK a \in Ages : \A b \in Ages : a <= b
    BY <2>1, LeastNumber
  <2> DEFINE Newest == {s \in S : day - s.at = a}
             Ranks == {Cardinality(history) - s.id : s \in Newest}
  <2>3. Cardinality(history) \in Nat
    BY FS_CardinalityType DEF HistoryInv
  <2>4. Ranks \subseteq Nat /\ Ranks # {}
    BY <2>2, <2>3 DEF HistoryInv
  <2>5. PICK r0 \in Ranks : \A b \in Ranks : r0 <= b
    <3> HIDE DEF Ranks
    <3> QED BY <2>4, LeastNumber
  <2>6. PICK s \in Newest : r0 = Cardinality(history) - s.id
    BY <2>5
  <2>7. ASSUME NEW t \in S \ {s} PROVE T!Later(s, t)
    <3>1. day - t.at \in Ages /\ a = day - s.at /\ day \in Nat /\ s.at \in Nat /\ t.at \in Nat
      BY <2>6 DEF HistoryInv
    <3>2. s.at >= t.at
      <4>1. a <= day - t.at
        BY <2>2, <3>1
      <4> QED BY <3>1, <4>1
    <3>3. ASSUME t.at = s.at PROVE s.id > t.id
      <4>1. t \in Newest
        BY <2>6, <3>3
      <4>2. r0 <= Cardinality(history) - t.id
        BY <2>5, <4>1
      <4>3. s.id # t.id
        BY <2>6, <2>7 DEF HistoryInv
      <4>4. s.id \in Nat /\ t.id \in Nat
        BY <2>6 DEF HistoryInv
      <4> QED
        BY <2>3, <2>6, <4>2, <4>3, <4>4
    <3> QED
      BY <3>1, <3>2, <3>3 DEF T!Later
  <2> QED
    BY <2>6, <2>7 DEF IsLast
<1>3. ASSUME NEW s, NEW t, IsLast(s, S), IsLast(t, S) PROVE s = t
    BY <1>1, <1>3 DEF IsLast, T!Later
<1>4. \A s : IsLast(s, S) => IsLast(T!Latest(S), S)
    BY DEF T!Latest, IsLast
<1> QED
    BY <1>2, <1>3, <1>4

\* The row of a day is the last snapshot up to the end of that day, wherever the range
\* of the request begins.
UpTo(S, d) == {s \in S : s.at <= d}

LEMMA RowOfDay ==
    ASSUME HistoryInv, NEW S \in SUBSET history, NEW b \in 0 .. day, NEW e \in 0 .. day,
           NEW d \in 0 .. day, b <= d, d <= e
    PROVE  T!TrendRow(S, b, e, d) = IF UpTo(S, d) = {} THEN None ELSE T!Latest(UpTo(S, d))
<1> DEFINE Prior == {s \in S : s.at < b}
           Chosen == {s \in T!Selected(S, b, e) : s.at <= d}
<1>1. T!TrendRow(S, b, e, d) = IF Chosen = {} THEN None ELSE T!Latest(Chosen)
    BY DEF T!TrendRow
<1>2. \A s \in S : s.at \in Int /\ s.id \in Int
    BY DEF HistoryInv
<1>3. T!Selected(S, b, e) = {s \in S : b <= s.at /\ s.at <= e} \cup (IF Prior = {} THEN {} ELSE {T!Latest(Prior)})
    BY DEF T!Selected
<1>4. Prior # {} => IsLast(T!Latest(Prior), Prior)
    BY LastIsLatest
<1>5. Chosen \subseteq UpTo(S, d)
    BY <1>3, <1>4 DEF UpTo, IsLast
<1>6. ASSUME NEW s, IsLast(s, UpTo(S, d)) PROVE IsLast(s, Chosen)
  <2>1. CASE s.at < b
    <3>1. IsLast(s, Prior)
      BY <1>2, <1>6, <2>1 DEF IsLast, UpTo
    <3>2. s = T!Latest(Prior)
      BY <3>1, LastIsLatest
    <3> QED
      BY <1>3, <1>5, <1>6, <3>1, <3>2 DEF IsLast, UpTo
  <2>2. CASE b <= s.at
    <3>1. s \in Chosen
      BY <1>2, <1>3, <1>6, <2>2 DEF IsLast, UpTo
    <3> QED
      BY <1>5, <1>6, <3>1 DEF IsLast
  <2> QED
    BY <1>2, <1>6, <2>1, <2>2 DEF IsLast, UpTo
<1>7. CASE UpTo(S, d) = {}
    BY <1>1, <1>5, <1>7
<1>8. CASE UpTo(S, d) # {}
  <2>1. UpTo(S, d) \in SUBSET history
    BY DEF UpTo
  <2>2. IsLast(T!Latest(UpTo(S, d)), Chosen)
    BY <1>6, <1>8, <2>1, LastIsLatest
  <2>3. Chosen \in SUBSET history
    BY <1>5, <2>1
  <2>4. T!Latest(UpTo(S, d)) = T!Latest(Chosen)
    BY <2>2, <2>3, LastIsLatest
  <2> QED
    BY <1>1, <1>8, <2>2, <2>4 DEF IsLast
<1> QED
    BY <1>7, <1>8

\* The last snapshot up to a day is kept once the retention holds one up to that day.
LEMMA LatestIsKept ==
    ASSUME HistoryInv, NEW d \in 0 .. day,
           NEW s \in history, T!Latest(history).at - HistoryDays <= s.at, s.at <= d
    PROVE  /\ UpTo(snapshots, d) # {} /\ UpTo(history, d) # {}
           /\ T!Latest(UpTo(snapshots, d)) = T!Latest(UpTo(history, d))
<1> DEFINE newest == T!Latest(history).at
           last == T!Latest(UpTo(history, d))
<1>1. s \in UpTo(history, d)
    BY DEF UpTo
<1>2. IsLast(last, UpTo(history, d)) /\ UpTo(snapshots, d) \subseteq UpTo(history, d)
    BY <1>1, LastIsLatest DEF UpTo, HistoryInv
<1>3. \A t \in history : t.at <= newest /\ t.at \in Int /\ newest \in Int
  <2>1. IsLast(T!Latest(history), history)
    BY LastIsLatest
  <2> QED
    BY <2>1 DEF IsLast, T!Later, HistoryInv
<1>4. last \in snapshots
  <2>1. last \in history /\ last.at >= s.at
    BY <1>1, <1>2, <1>3 DEF IsLast, T!Later, UpTo
  <2>2. last.at >= newest - HistoryDays
    BY <1>3, <2>1, HistoryDaysNat
  <2>3. ASSUME NEW t \in history PROVE ~(last.at < t.at - HistoryDays)
    BY <1>3, <2>1, <2>2, HistoryDaysNat
  <2> QED
    BY <2>1, <2>3 DEF HistoryInv
<1>5. IsLast(last, UpTo(snapshots, d))
    BY <1>2, <1>4 DEF IsLast, UpTo
<1>6. UpTo(snapshots, d) \in SUBSET history
    BY DEF UpTo, HistoryInv
<1>7. last = T!Latest(UpTo(snapshots, d))
    BY <1>5, <1>6, LastIsLatest
<1> QED
    BY <1>1, <1>5, <1>7 DEF IsLast

\* Whatever is kept, a row of it is the history's or an older one.
LEMMA KeptIsNeverNewer ==
    ASSUME HistoryInv, NEW d \in 0 .. day, UpTo(snapshots, d) # {}
    PROVE  LET true == T!Latest(UpTo(history, d))
               kept == T!Latest(UpTo(snapshots, d))
           IN UpTo(history, d) # {} /\ (kept = true \/ T!Later(true, kept))
<1>1. UpTo(snapshots, d) \subseteq UpTo(history, d) /\ UpTo(history, d) \in SUBSET history
    BY DEF UpTo, HistoryInv
<1>2. UpTo(snapshots, d) \in SUBSET history /\ UpTo(history, d) # {}
    BY <1>1
<1>3. /\ IsLast(T!Latest(UpTo(snapshots, d)), UpTo(snapshots, d))
      /\ IsLast(T!Latest(UpTo(history, d)), UpTo(history, d))
    BY <1>1, <1>2, LastIsLatest
<1> QED
    BY <1>1, <1>2, <1>3 DEF IsLast

LEMMA PruningIsInvisible == ASSUME HistoryInv PROVE T!TrendIsHistory
<1> DEFINE newest == T!Latest(history).at
<1>1. SUFFICES ASSUME NEW b \in 0 .. day, NEW e \in 0 .. day, NEW d \in 0 .. day, b <= d, d <= e
               PROVE  IF \E s \in history : newest - HistoryDays <= s.at /\ s.at <= d
                      THEN T!TrendRow(snapshots, b, e, d) = T!TrendRow(history, b, e, d)
                      ELSE \/ T!TrendRow(snapshots, b, e, d) \in {None, T!TrendRow(history, b, e, d)}
                           \/ T!Later(T!TrendRow(history, b, e, d), T!TrendRow(snapshots, b, e, d))
    BY DEF T!TrendIsHistory
<1>2. snapshots \in SUBSET history
    BY DEF HistoryInv
<1>3. T!TrendRow(snapshots, b, e, d) = IF UpTo(snapshots, d) = {} THEN None ELSE T!Latest(UpTo(snapshots, d))
    BY <1>1, <1>2, RowOfDay
<1>4. T!TrendRow(history, b, e, d) = IF UpTo(history, d) = {} THEN None ELSE T!Latest(UpTo(history, d))
    BY <1>1, RowOfDay
<1>5. CASE \E s \in history : newest - HistoryDays <= s.at /\ s.at <= d
  <2>1. PICK s \in history : newest - HistoryDays <= s.at /\ s.at <= d
    BY <1>5
  <2> QED
    BY <1>3, <1>4, <1>5, <2>1, LatestIsKept
<1>6. CASE ~ \E s \in history : newest - HistoryDays <= s.at /\ s.at <= d
    BY <1>3, <1>4, <1>6, KeptIsNeverNewer
<1> QED
    BY <1>5, <1>6

LEMMA HistoryStays == ASSUME HistoryInv, [T!Next]_T!vars PROVE HistoryInv'
<1> USE DEF HistoryInv
<1>1. CASE T!Tick \/ UNCHANGED T!vars
    BY <1>1 DEF T!Tick, T!vars
<1>2. ASSUME NEW t \in Triggers, T!BeginCapture(t) PROVE HistoryInv'
    BY <1>2 DEF T!BeginCapture
<1>3. ASSUME NEW c \in captures, T!CaptureFails(c) PROVE HistoryInv'
    BY <1>3 DEF T!CaptureFails
<1>4. ASSUME NEW c \in captures, T!Capture(c) PROVE HistoryInv'
  <2> DEFINE n == Cardinality(history)
             new == [trigger |-> c.trigger, at |-> c.at, id |-> n + 1]
  <2>1. CASE UNCHANGED <<snapshots, history>>
    BY <1>4, <2>1 DEF T!Capture
  <2>2. CASE /\ snapshots' \in {T!Kept(snapshots, c) \cup {new}, snapshots \cup {new}}
             /\ history' = history \cup {new}
    <3>1. day' = day /\ captures' \subseteq captures /\ n \in Nat
      BY <1>4, FS_CardinalityType DEF T!Capture
    <3>2. new \notin history
      BY <3>1
    <3>3. IsFiniteSet(history') /\ Cardinality(history') = n + 1
      BY <2>2, <3>2, FS_AddElement
    <3>4. T!Kept(snapshots, c) \subseteq snapshots
      BY DEF T!Kept
    <3>5. \A s \in history' : s.at \in 0 .. day /\ s.id \in 1 .. n + 1
      BY <2>2, <3>1
    <3>6. \A s, t \in history' : s.id = t.id => s = t
      BY <2>2, <3>1
    <3>7. ASSUME NEW s \in history' \ snapshots' PROVE \E t \in history' : s.at < t.at - HistoryDays
      <4>1. s \in history /\ s \notin T!Kept(snapshots, c)
        BY <2>2, <3>4, <3>7
      <4>2. CASE s \notin snapshots
        BY <2>2, <4>1, <4>2
      <4>3. CASE s \in snapshots
        <5>1. ~(s.at >= c.at - HistoryDays)
          BY <4>1, <4>3 DEF T!Kept
        <5>2. s.at < new.at - HistoryDays /\ new \in history'
          BY <2>2, <4>1, <5>1, HistoryDaysNat
        <5> QED BY <5>2
      <4> QED BY <4>2, <4>3
    <3>8. snapshots' \subseteq history'
      BY <2>2, <3>4
    <3>9. \A x0 \in captures' : x0.at \in 0 .. day'
      BY <3>1
    <3> HIDE DEF new
    <3> QED
      BY <3>1, <3>3, <3>5, <3>6, <3>7, <3>8, <3>9
  <2> QED
    BY <1>4, <2>1, <2>2, SameCount DEF T!Capture
<1> QED
    BY <1>1, <1>2, <1>3, <1>4 DEF T!Next

LEMMA HistoryInitially == T!Init => HistoryInv
BY FS_EmptySet DEF T!Init, HistoryInv

\* Whatever captures begin, fail or commit in which order, and whether or not each one prunes:
\* pruning is not seen in a trend from the first day on that has a snapshot in the retention,
\* and on the days before it the trend shows nothing newer than the history does.
THEOREM PruningIsUnseen == T!Spec => []T!TrendIsHistory
<1>1. HistoryInv /\ [T!Next]_T!vars => HistoryInv'
    BY HistoryStays
<1>2. HistoryInv => T!TrendIsHistory
    BY PruningIsInvisible
<1> HIDE DEF HistoryInv
<1> QED BY HistoryInitially, <1>1, <1>2, PTL DEF T!Spec

-----------------------------------------------------------------------------
(* Sums as cardinalities.                                                      *)

\* A one-to-one map of a finite set gives a set of its size.
LEMMA ImageSize ==
    ASSUME NEW S, IsFiniteSet(S), NEW V, NEW F \in [S -> V],
           \A a, b \in S : F[a] = F[b] => a = b,
           \A v \in V : \E a \in S : F[a] = v
    PROVE  IsFiniteSet(V) /\ Cardinality(V) = Cardinality(S)
<1>1. F \in Bijection(S, V)
    BY DEF Bijection, Injection, Surjection, IsInjective
<1> QED BY <1>1, FS_Bijection DEF ExistsBijection

Units(X, F) == UNION {{k} \X (1 .. Cardinality(F[k])) : k \in X}
Members(X, F) == UNION {{k} \X F[k] : k \in X}

\* Counting the members of disjoint sets is adding up their sizes.
LEMMA SumOfSizes ==
    ASSUME NEW X, IsFiniteSet(X), NEW D, IsFiniteSet(D), NEW F \in [X -> SUBSET D]
    PROVE  IsFiniteSet(Members(X, F)) /\ Cardinality(Units(X, F)) = Cardinality(Members(X, F))
<1>1. \A k \in X : IsFiniteSet(F[k]) /\ Cardinality(F[k]) \in Nat
    BY FS_Subset, FS_CardinalityType
<1>2. \A k \in X : Bijection(F[k], 1 .. Cardinality(F[k])) # {}
  <2> TAKE k \in X
  <2>1. ExistsBijection(1 .. Cardinality(F[k]), F[k])
    BY <1>1, FS_CardinalityType
  <2> QED
    BY <2>1, Fun_ExistsBijSymmetric DEF ExistsBijection
<1> DEFINE number == [k \in X |-> CHOOSE h : h \in Bijection(F[k], 1 .. Cardinality(F[k]))]
<1>3. \A k \in X : number[k] \in Bijection(F[k], 1 .. Cardinality(F[k]))
    BY <1>2
<1>4. \A k \in X : /\ number[k] \in [F[k] -> 1 .. Cardinality(F[k])]
                   /\ \A a, b \in F[k] : number[k][a] = number[k][b] => a = b
                   /\ \A n \in 1 .. Cardinality(F[k]) : \E a \in F[k] : number[k][a] = n
  <2> TAKE k \in X
  <2> DEFINE h == number[k]
             C == 1 .. Cardinality(F[k])
  <2>1. h \in Bijection(F[k], C)
    BY <1>3
  <2> HIDE DEF h, C, number
  <2>2. h \in [F[k] -> C] /\ IsInjective(h) /\ \A n \in C : \E a \in F[k] : h[a] = n
    BY <2>1 DEF Bijection, Injection, Surjection
  <2>3. \A a, b \in F[k] : h[a] = h[b] => a = b
    BY <2>2 DEF IsInjective
  <2> QED BY <2>2, <2>3 DEF h, C
<1> HIDE DEF number
<1>5. IsFiniteSet(Members(X, F))
  <2>1. Members(X, F) \in SUBSET (X \X D)
    BY DEF Members
  <2>2. IsFiniteSet(X \X D)
    BY FS_Product
  <2> QED
    BY <2>1, <2>2, FS_Subset
<1> DEFINE map == [m \in Members(X, F) |-> <<m[1], number[m[1]][m[2]]>>]
<1>6. \A m \in Members(X, F) : m[1] \in X /\ m[2] \in F[m[1]] /\ m = <<m[1], m[2]>>
    BY DEF Members
<1>7. map \in [Members(X, F) -> Units(X, F)]
  <2>1. ASSUME NEW m \in Members(X, F) PROVE <<m[1], number[m[1]][m[2]]>> \in Units(X, F)
    BY <1>4, <1>6 DEF Units
  <2> QED BY <2>1
<1>8. \A a, b \in Members(X, F) : map[a] = map[b] => a = b
  <2> TAKE a, b \in Members(X, F)
  <2> HAVE map[a] = map[b]
  <2>1. a[1] = b[1] /\ number[a[1]][a[2]] = number[b[1]][b[2]]
    OBVIOUS
  <2>2. a[2] = b[2]
    BY <1>4, <1>6, <2>1
  <2> QED BY <1>6, <2>1, <2>2
<1>9. ASSUME NEW u \in Units(X, F) PROVE \E a \in Members(X, F) : map[a] = u
  <2>0. PICK k \in X : u \in {k} \X (1 .. Cardinality(F[k]))
    BY DEF Units
  <2>1. PICK n \in 1 .. Cardinality(F[k]) : u = <<k, n>>
    BY <2>0
  <2>2. PICK a \in F[k] : number[k][a] = n
    BY <1>4
  <2>3. <<k, a>> \in Members(X, F)
    BY DEF Members
  <2> WITNESS <<k, a>> \in Members(X, F)
  <2> QED BY <2>1, <2>2, <2>3
<1> HIDE DEF map
<1> QED BY <1>5, <1>7, <1>8, <1>9, ImageSize

-----------------------------------------------------------------------------
(* The rollups.                                                                *)

Tables == [Assets -> SUBSET Detections]
PerSelector(table) == U!SelectorRows(table, U!Selectors)
PerHost(table) == U!HostRows(table, Assets)

LEMMA SameNumber == \A S : U!Cardinality(S) = Cardinality(S)
BY DEF Cardinality, U!Cardinality, IsFiniteSet, U!IsFiniteSet

LEMMA PairsOfTable ==
    ASSUME NEW t \in Tables
    PROVE  /\ \A p : p \in U!All(t) <=> \E a \in Assets : \E d \in t[a] : U!Valid(d) /\ p = <<a, d>>
           /\ \A s, p : p \in U!Of(t, s) <=>
                 \E a \in Assets : \E d \in t[a] : U!Valid(d) /\ p = <<a, d>> /\ U!Selector(d) = s
<1>1. U!All(t) = UNION {{<<a, d>> : d \in {e \in t[a] : U!Valid(e)}} : a \in Assets}
    BY DEF U!All, Tables
<1>2. ASSUME NEW p
      PROVE  p \in U!All(t) <=> \E a \in Assets : \E d \in t[a] : U!Valid(d) /\ p = <<a, d>>
  <2>1. \A a \in Assets : p \in {<<a, d>> : d \in {e \in t[a] : U!Valid(e)}}
                          <=> \E d \in t[a] : U!Valid(d) /\ p = <<a, d>>
    OBVIOUS
  <2> QED
    BY <1>1, <2>1
<1>3. \A s, p : p \in U!Of(t, s) <=> p \in U!All(t) /\ U!Selector(p[2]) = s
    BY DEF U!Of
<1>4. ASSUME NEW s, NEW p
      PROVE  p \in U!Of(t, s) <=>
                 \E a \in Assets : \E d \in t[a] : U!Valid(d) /\ p = <<a, d>> /\ U!Selector(d) = s
    BY <1>2, <1>3
<1> QED BY <1>2, <1>4

LEMMA SelectorsOfFindings == \A d \in Detections : U!Valid(d) => U!Selector(d) \in U!Selectors
BY DEF U!Selectors

\* What a trigger refreshes is all that a statement changed.
LEMMA SelectorsRefreshed ==
    ASSUME NEW t \in Tables, NEW a \in Assets, NEW after \in SUBSET Detections
    PROVE  LET new == [t EXCEPT ![a] = after]
               changed == U!Touched(t[a], after)
           IN U!Refreshed(PerSelector(t), changed, U!SelectorRows(new, changed)) = PerSelector(new)
<1> DEFINE new == [t EXCEPT ![a] = after]
           changed == U!Touched(t[a], after)
           fresh == U!SelectorRows(new, changed)
<1>1. new \in Tables /\ new[a] = after /\ \A b \in Assets \ {a} : new[b] = t[b]
    BY DEF Tables
<1>2. changed \subseteq U!Selectors
    BY SelectorsOfFindings DEF U!Touched, Tables
<1>3. ASSUME NEW s \in U!Selectors \ changed PROVE U!Of(t, s) = U!Of(new, s)
  <2>1. ASSUME NEW d \in t[a] \cup after, U!Valid(d) PROVE U!Selector(d) # s
    BY <1>3, <2>1 DEF U!Touched
  <2>2. ASSUME NEW b \in Assets, NEW d, U!Valid(d), U!Selector(d) = s
        PROVE  d \in t[b] <=> d \in new[b]
    BY <1>1, <2>1, <2>2
  <2>3. ASSUME NEW p PROVE p \in U!Of(t, s) <=> p \in U!Of(new, s)
    <3>1. p \in U!Of(t, s) <=>
             \E b \in Assets : \E d \in t[b] : U!Valid(d) /\ p = <<b, d>> /\ U!Selector(d) = s
      BY PairsOfTable
    <3>2. p \in U!Of(new, s) <=>
             \E b \in Assets : \E d \in new[b] : U!Valid(d) /\ p = <<b, d>> /\ U!Selector(d) = s
      <4> HIDE DEF new
      <4> QED BY <1>1, PairsOfTable
    <3> HIDE DEF new
    <3> QED
      BY <2>2, <3>1, <3>2
  <2> QED BY <2>3
<1>4. \A s \in U!Selectors \ changed : U!SelectorRow(t, s) = U!SelectorRow(new, s)
    BY <1>3 DEF U!SelectorRow
<1>5. /\ PerSelector(t) = [s \in {u \in U!Selectors : U!Of(t, u) # {}} |-> U!SelectorRow(t, s)]
      /\ PerSelector(new) = [s \in {u \in U!Selectors : U!Of(new, u) # {}} |-> U!SelectorRow(new, s)]
      /\ fresh = [s \in {u \in changed : U!Of(new, u) # {}} |-> U!SelectorRow(new, s)]
    BY DEF PerSelector, U!SelectorRows
<1> HIDE DEF new, changed, fresh
<1>6. U!Refreshed(PerSelector(t), changed, fresh)
      = [k \in (DOMAIN PerSelector(t) \ changed) \cup DOMAIN fresh |->
            IF k \in DOMAIN fresh THEN fresh[k] ELSE PerSelector(t)[k]]
    BY DEF U!Refreshed
<1>7. (DOMAIN PerSelector(t) \ changed) \cup DOMAIN fresh = DOMAIN PerSelector(new)
    BY <1>2, <1>3, <1>5
<1>8. \A k \in DOMAIN PerSelector(new) :
         (IF k \in DOMAIN fresh THEN fresh[k] ELSE PerSelector(t)[k]) = PerSelector(new)[k]
    BY <1>2, <1>3, <1>4, <1>5
<1>9. PerSelector(new) = [k \in DOMAIN PerSelector(new) |-> PerSelector(new)[k]]
    BY <1>5
<1> QED BY <1>6, <1>7, <1>8, <1>9 DEF new, changed, fresh

LEMMA HostsRefreshed ==
    ASSUME NEW t \in Tables, NEW a \in Assets, NEW after \in SUBSET Detections, NEW changed,
           changed = IF t[a] = after THEN {} ELSE {a}
    PROVE  LET new == [t EXCEPT ![a] = after]
           IN U!Refreshed(PerHost(t), changed, U!HostRows(new, changed)) = PerHost(new)
<1> DEFINE new == [t EXCEPT ![a] = after]
           fresh == U!HostRows(new, changed)
           Has(s, b) == \E d \in s[b] : U!Valid(d)
<1>1. new \in Tables /\ new[a] = after /\ \A b \in Assets \ changed : new[b] = t[b]
    BY DEF Tables
<1>2. \A b \in Assets \ changed : U!HostRow(t, b) = U!HostRow(new, b)
    BY <1>1 DEF U!HostRow
<1>3. /\ PerHost(t) = [b \in {c \in Assets : Has(t, c)} |-> U!HostRow(t, b)]
      /\ PerHost(new) = [b \in {c \in Assets : Has(new, c)} |-> U!HostRow(new, b)]
      /\ fresh = [b \in {c \in changed : Has(new, c)} |-> U!HostRow(new, b)]
    BY DEF PerHost, U!HostRows
<1>4. changed \subseteq Assets /\ \A b \in Assets \ changed : Has(t, b) <=> Has(new, b)
    BY <1>1
<1> HIDE DEF new, fresh, Has
<1>5. U!Refreshed(PerHost(t), changed, fresh)
      = [k \in (DOMAIN PerHost(t) \ changed) \cup DOMAIN fresh |->
            IF k \in DOMAIN fresh THEN fresh[k] ELSE PerHost(t)[k]]
    BY DEF U!Refreshed
<1>6. (DOMAIN PerHost(t) \ changed) \cup DOMAIN fresh = DOMAIN PerHost(new)
    BY <1>3, <1>4
<1>7. \A k \in DOMAIN PerHost(new) :
         (IF k \in DOMAIN fresh THEN fresh[k] ELSE PerHost(t)[k]) = PerHost(new)[k]
    BY <1>2, <1>3, <1>4
<1>8. PerHost(new) = [k \in DOMAIN PerHost(new) |-> PerHost(new)[k]]
    BY <1>3
<1> QED BY <1>5, <1>6, <1>7, <1>8 DEF new, fresh

\* The rows of a transaction are those of its one card; the rest is as committed.
Written(w) ==
    /\ w.kind \in {"save", "delete"} /\ w.step \in {"cleared", "insert", "commit"}
    /\ w.asset \in Assets /\ w.new \in SUBSET Detections
    /\ w.cards = IF w.kind = "save" THEN stock \cup {w.asset} ELSE stock \ {w.asset}
    /\ w.rows \in Tables /\ w.sel = PerSelector(w.rows) /\ w.host = PerHost(w.rows)
    /\ \A a \in Assets \ {w.asset} : w.rows[a] = detected[a]
    /\ w.kind = "delete" => w.step # "insert" /\ (w.step = "commit" => w.rows[w.asset] = {})

\* The rollups are what their source views give for the rows beside them, committed or
\* not, and every finding is of a card.
RollupInv ==
    /\ stock \subseteq Assets /\ detected \in Tables
    /\ \A a \in Assets : detected[a] # {} => a \in stock
    /\ perSelector = PerSelector(detected) /\ perHost = PerHost(detected)
    /\ writer # None => Written(writer)

LEMMA RollupInitially == U!Init => RollupInv
<1> SUFFICES ASSUME U!Init PROVE RollupInv
    OBVIOUS
<1>1. /\ stock = {} /\ writer = None /\ detected = [a \in Assets |-> {}]
      /\ DOMAIN perSelector = {} /\ DOMAIN perHost = {}
      /\ perSelector = [s \in {} |-> None] /\ perHost = [a \in {} |-> None]
    BY DEF U!Init, U!NoRows
<1>2. detected \in Tables
    BY <1>1 DEF Tables
<1>3. \A s : U!Of(detected, s) = {}
    BY <1>1, <1>2, PairsOfTable
<1>4. PerSelector(detected) = [s \in {} |-> U!SelectorRow(detected, s)]
    BY <1>3 DEF PerSelector, U!SelectorRows
<1>5. PerHost(detected) = [a \in {} |-> U!HostRow(detected, a)]
    BY <1>1 DEF PerHost, U!HostRows
<1>6. perSelector = PerSelector(detected) /\ perHost = PerHost(detected)
    BY <1>1, <1>4, <1>5
<1> QED BY <1>1, <1>2, <1>6 DEF RollupInv

LEMMA StatementKeeps ==
    ASSUME Written(writer), NEW after \in SUBSET Detections, NEW next,
           next \in {"insert", "commit"}, U!Statement(after, next), UNCHANGED <<stock, detected>>,
           writer.kind = "delete" => after = {} /\ next = "commit"
    PROVE  Written(writer)'
<1> DEFINE a == writer.asset
           table == [writer.rows EXCEPT ![a] = after]
           changed == U!Touched(writer.rows[a], after)
           hosts == IF writer.rows[a] = after THEN {} ELSE {a}
           sel == U!Refreshed(writer.sel, changed, U!SelectorRows(table, changed))
           host0 == U!Refreshed(writer.host, hosts, U!HostRows(table, hosts))
<1>1. writer' = [writer EXCEPT !.rows = table, !.step = next, !.sel = sel, !.host = host0]
    BY Zenon DEF U!Statement
<1>2. a \in Assets /\ writer.rows \in Tables /\ writer.sel = PerSelector(writer.rows)
      /\ writer.host = PerHost(writer.rows)
    BY DEF Written
<1>3. sel = PerSelector(table)
    BY <1>2, SelectorsRefreshed
<1>4. host0 = PerHost(table)
  <2>1. hosts = IF writer.rows[a] = after THEN {} ELSE {a}
    OBVIOUS
  <2> HIDE DEF hosts, a
  <2>2. U!Refreshed(PerHost(writer.rows), hosts, U!HostRows([writer.rows EXCEPT ![a] = after], hosts))
        = PerHost([writer.rows EXCEPT ![a] = after])
    BY <1>2, <2>1, HostsRefreshed
  <2> QED BY <1>2, <2>2
<1>5. table \in Tables /\ table[a] = after /\ \A b \in Assets \ {a} : table[b] = writer.rows[b]
    BY <1>2 DEF Tables
<1> HIDE DEF table, sel, host0, a
<1>6. /\ writer'.kind = writer.kind /\ writer'.asset = writer.asset /\ writer'.new = writer.new
      /\ writer'.cards = writer.cards
      /\ writer'.step = next /\ writer'.rows = table /\ writer'.sel = sel /\ writer'.host = host0
    BY <1>1
<1> QED
    BY <1>3, <1>4, <1>5, <1>6 DEF Written, a

LEMMA RollupStays == ASSUME RollupInv, [U!Next]_U!vars PROVE RollupInv'
<1>1. ASSUME NEW kind \in {"save", "delete"}, NEW a \in Assets, NEW new \in SUBSET Detections,
             U!Begin(kind, a, new)
      PROVE  RollupInv'
  <2>1. UNCHANGED <<stock, detected, perSelector, perHost>>
    BY <1>1 DEF U!Begin
  <2>2. Written(writer')
    BY <1>1 DEF U!Begin, Written, RollupInv
  <2> QED
    BY <2>1, <2>2 DEF RollupInv, Written
<1>2. CASE U!DeleteRows
  <2>1. /\ writer # None /\ U!Statement({}, IF writer.kind = "save" THEN "insert" ELSE "commit")
        /\ UNCHANGED <<stock, detected, perSelector, perHost>>
    BY <1>2 DEF U!DeleteRows
  <2>2. Written(writer)'
    <3>1. CASE writer.kind = "save"
      BY <2>1, <3>1, StatementKeeps DEF RollupInv
    <3>2. CASE writer.kind = "delete"
      BY <2>1, <3>2, StatementKeeps DEF RollupInv
    <3> QED BY <2>1, <3>1, <3>2 DEF RollupInv, Written
  <2> QED BY <2>1, <2>2 DEF RollupInv
<1>3. CASE U!InsertRows
  <2>1. /\ writer # None /\ writer.step = "insert" /\ U!Statement(writer.new, "commit")
        /\ UNCHANGED <<stock, detected, perSelector, perHost>>
    BY <1>3 DEF U!InsertRows
  <2>2. writer.kind # "delete" /\ writer.new \in SUBSET Detections
    BY <2>1 DEF RollupInv, Written
  <2>3. Written(writer)'
    BY <2>1, <2>2, StatementKeeps DEF RollupInv
  <2> QED BY <2>1, <2>3 DEF RollupInv
<1>4. CASE U!Commit
  <2>1. /\ Written(writer) /\ writer.step = "commit" /\ writer' = None /\ stock' = writer.cards
        /\ detected' = writer.rows /\ perSelector' = writer.sel /\ perHost' = writer.host
    BY <1>4 DEF U!Commit, RollupInv
  <2>2. stock' \subseteq Assets
    BY <2>1 DEF RollupInv, Written
  <2>3. \A a \in Assets : detected'[a] # {} => a \in stock'
    BY <2>1 DEF RollupInv, Written
  <2> QED
    BY <2>1, <2>2, <2>3 DEF RollupInv, Written
<1>5. CASE U!Rollback
    BY <1>5 DEF U!Rollback, RollupInv
<1>6. CASE UNCHANGED U!vars
    BY <1>6 DEF U!vars, RollupInv, Written
<1>7. CASE U!BeginSave
    BY <1>1, <1>7, DetectionsTyped DEF U!BeginSave
<1>8. CASE U!BeginDelete
    BY <1>1, <1>8 DEF U!BeginDelete, RollupInv
<1> QED
    BY <1>2, <1>3, <1>4, <1>5, <1>6, <1>7, <1>8 DEF U!Next

\* The rows that the summary joins, and those of them with one of these ranks.
FoundRows == {p \in U!All(detected) : p[1] \in stock}
OfRanks(ranks) == {p \in FoundRows : p[2].rank \in ranks}

LEMMA FoundAreStored ==
    ASSUME RollupInv
    PROVE  \A p : p \in FoundRows <=> \E a \in Assets : \E d \in detected[a] : U!Valid(d) /\ p = <<a, d>>
<1>1. \A p : p \in U!All(detected) <=> \E a \in Assets : \E d \in detected[a] : U!Valid(d) /\ p = <<a, d>>
    BY PairsOfTable DEF RollupInv
<1>2. \A a \in Assets : \A d \in detected[a] : a \in stock
    BY DEF RollupInv
<1> QED BY <1>1, <1>2 DEF FoundRows

LEMMA HostRowsRead ==
    ASSUME RollupInv
    PROVE  /\ DOMAIN perHost = {a \in Assets : \E d \in detected[a] : U!Valid(d)}
           /\ \A a \in DOMAIN perHost : perHost[a] = U!HostRow(detected, a)
BY DEF RollupInv, PerHost, U!HostRows

LEMMA HostFields ==
    ASSUME RollupInv, NEW a \in DOMAIN perHost
    PROVE  /\ \A r \in 1 .. 5 :
                 perHost[a].byRank[r] = U!Cardinality({d \in {e \in detected[a] : U!Valid(e)} : d.rank = r})
           /\ perHost[a].worst = U!Min({d.rank : d \in {e \in detected[a] : U!Valid(e)}})
<1> DEFINE rows0 == {e \in detected[a] : U!Valid(e)}
           Of(r) == U!Cardinality({d \in rows0 : d.rank = r})
           ranks == U!Min({d.rank : d \in rows0})
           sels == U!Cardinality({U!Selector(d) : d \in rows0})
<1>1. perHost[a] = [byRank |-> [r \in 1 .. 5 |-> Of(r)], selectors |-> sels, worst |-> ranks]
    BY HostRowsRead, Zenon DEF U!HostRow
<1> HIDE DEF Of, ranks, sels
<1>2. perHost[a].byRank = [r \in 1 .. 5 |-> Of(r)] /\ perHost[a].worst = ranks
    BY <1>1
<1>3. \A r \in 1 .. 5 : perHost[a].byRank[r] = Of(r)
    BY <1>2
<1> QED BY <1>2, <1>3 DEF Of, ranks

LEMMA SelectorRowsRead ==
    ASSUME RollupInv
    PROVE  /\ DOMAIN perSelector = {s \in U!Selectors : U!Of(detected, s) # {}}
           /\ \A s \in DOMAIN perSelector : perSelector[s] = U!SelectorRow(detected, s)
           /\ \A s, p : p \in U!Of(detected, s) <=> p \in FoundRows /\ U!Selector(p[2]) = s
           /\ DOMAIN perSelector = {U!Selector(p[2]) : p \in FoundRows}
<1>1. /\ DOMAIN perSelector = {s \in U!Selectors : U!Of(detected, s) # {}}
      /\ \A s \in DOMAIN perSelector : perSelector[s] = U!SelectorRow(detected, s)
    BY DEF RollupInv, PerSelector, U!SelectorRows
<1>2. ASSUME NEW s, NEW p PROVE p \in U!Of(detected, s) <=> p \in FoundRows /\ U!Selector(p[2]) = s
  <2>1. p \in U!Of(detected, s) <=> \E a \in Assets : \E d \in detected[a] :
                                       U!Valid(d) /\ p = <<a, d>> /\ U!Selector(d) = s
    BY PairsOfTable DEF RollupInv
  <2> QED BY <2>1, FoundAreStored
<1>3. ASSUME NEW p \in FoundRows PROVE U!Selector(p[2]) \in U!Selectors
  <2>0. PICK a \in Assets : \E d \in detected[a] : U!Valid(d) /\ p = <<a, d>>
    BY FoundAreStored
  <2>1. PICK d \in detected[a] : U!Valid(d) /\ p = <<a, d>>
    BY <2>0
  <2>2. d \in Detections
    BY DEF RollupInv, Tables
  <2> QED BY <2>1, <2>2, SelectorsOfFindings
<1> QED BY <1>1, <1>2, <1>3

LEMMA RanksOfFindings ==
    ASSUME RollupInv PROVE \A p \in FoundRows : p[2] \in Detections /\ p[2].rank \in 1 .. 5 /\ p[1] \in Assets
BY FoundAreStored, DetectionsTyped DEF RollupInv, Tables

LEMMA LeastRank ==
    ASSUME NEW S, S \subseteq 1 .. 5, S # {}
    PROVE  U!Min(S) \in S /\ \A r \in S : U!Min(S) <= r
<1>1. S \subseteq Nat
    OBVIOUS
<1>2. \E m \in S : \A n \in S : m <= n
    BY <1>1, LeastNumber
<1> QED BY <1>2, Zenon DEF U!Min

\* The counts of the hosts add up to the findings.
LEMMA RanksAddUp ==
    ASSUME RollupInv, NEW ranks \in SUBSET (1 .. 5)
    PROVE  U!SumOfRanks(ranks) = U!Cardinality(OfRanks(ranks))
<1>0. PICK hosts : hosts = DOMAIN perHost
    OBVIOUS
<1> DEFINE X == hosts \X ranks
           F == [k \in X |-> {d \in detected[k[1]] : U!Valid(d) /\ d.rank = k[2]}]
<1>00. hosts \in SUBSET Assets
    BY <1>0, HostRowsRead
<1>1. IsFiniteSet(X)
  <2> DEFINE last == 5
  <2>1. IsFiniteSet(hosts)
    BY <1>00, DetectionsTyped, FS_Subset
  <2>2. IsFiniteSet(1 .. last)
    <3>1. 1 \in Int /\ last \in Int
      OBVIOUS
    <3> HIDE DEF last
    <3> QED BY <3>1, FS_Interval
  <2>3. IsFiniteSet(ranks)
    BY <2>2, FS_Subset
  <2> QED BY <2>1, <2>3, FS_Product
<1>2. \A k \in X : k[1] \in Assets /\ k[1] \in hosts /\ k[2] \in ranks /\ k[2] \in 1 .. 5
    BY <1>00
<1>3. F \in [X -> SUBSET Detections]
    BY <1>2 DEF RollupInv, Tables
<1>4. ASSUME NEW k \in X PROVE perHost[k[1]].byRank[k[2]] = Cardinality(F[k])
  <2>1. perHost[k[1]].byRank[k[2]]
        = U!Cardinality({d \in {e \in detected[k[1]] : U!Valid(e)} : d.rank = k[2]})
    BY <1>0, <1>2, HostFields
  <2>2. {d \in {e \in detected[k[1]] : U!Valid(e)} : d.rank = k[2]} = F[k]
    OBVIOUS
  <2> QED BY <2>1, <2>2, SameNumber
<1>5. UNION {{k} \X (1 .. perHost[k[1]].byRank[k[2]]) : k \in X} = Units(X, F)
  <2>1. \A k \in X : {k} \X (1 .. perHost[k[1]].byRank[k[2]]) = {k} \X (1 .. Cardinality(F[k]))
    BY <1>4
  <2> HIDE DEF X, F
  <2> QED BY <2>1 DEF Units
<1>6. U!SumOfRanks(ranks) = Cardinality(Units(X, F))
  <2> DEFINE Sum(Y) == U!Cardinality(UNION {{k} \X (1 .. perHost[k[1]].byRank[k[2]]) : k \in Y})
  <2>0. U!SumOfRanks(ranks) = Sum((DOMAIN perHost) \X ranks)
    BY DEF U!SumOfRanks
  <2>1. U!SumOfRanks(ranks)
        = U!Cardinality(UNION {{k} \X (1 .. perHost[k[1]].byRank[k[2]]) : k \in X})
    <3>1. (DOMAIN perHost) \X ranks = X
      BY <1>0
    <3>2. U!SumOfRanks(ranks) = Sum(X)
      <4> HIDE DEF Sum, X
      <4> QED BY <2>0, <3>1
    <3> QED BY <3>2
  <2> HIDE DEF X, F
  <2> QED BY <1>5, <2>1, SameNumber
<1>7. IsFiniteSet(Members(X, F)) /\ Cardinality(Units(X, F)) = Cardinality(Members(X, F))
  <2> HIDE DEF X, F
  <2> QED BY <1>1, <1>3, DetectionsTyped, SumOfSizes
<1>8. ASSUME NEW m \in Members(X, F)
      PROVE  m = <<m[1], m[2]>> /\ m[1] \in X /\ m[1] = <<m[1][1], m[1][2]>> /\ m[2] \in detected[m[1][1]]
             /\ U!Valid(m[2]) /\ m[2].rank = m[1][2]
  <2>1. PICK k \in X : m \in {k} \X F[k]
    BY DEF Members
  <2> QED BY <2>1
<1> DEFINE flat == [m \in Members(X, F) |-> <<m[1][1], m[2]>>]
<1>9. flat \in [Members(X, F) -> OfRanks(ranks)]
  <2>1. ASSUME NEW m \in Members(X, F) PROVE <<m[1][1], m[2]>> \in OfRanks(ranks)
    <3>1. <<m[1][1], m[2]>> \in FoundRows
      BY <1>2, <1>8, FoundAreStored
    <3> QED BY <1>2, <1>8, <3>1 DEF OfRanks
  <2> QED BY <2>1
<1>10. \A a, b \in Members(X, F) : flat[a] = flat[b] => a = b
  <2> TAKE a, b \in Members(X, F)
  <2> HAVE flat[a] = flat[b]
  <2>1. a[1][1] = b[1][1] /\ a[2] = b[2]
    OBVIOUS
  <2> HIDE DEF X, F, flat
  <2> QED BY <1>8, <2>1
<1>11. ASSUME NEW p \in OfRanks(ranks) PROVE \E m \in Members(X, F) : flat[m] = p
  <2>0. PICK a \in Assets : \E d \in detected[a] : U!Valid(d) /\ p = <<a, d>> /\ d.rank \in ranks
    BY FoundAreStored DEF OfRanks
  <2>1. PICK d \in detected[a] : U!Valid(d) /\ p = <<a, d>> /\ d.rank \in ranks
    BY <2>0
  <2> DEFINE m0 == <<<<a, d.rank>>, d>>
  <2>2. <<a, d.rank>> \in X
    BY <1>0, <2>1, HostRowsRead
  <2>3. d \in F[<<a, d.rank>>]
    BY <2>1, <2>2
  <2>4. m0 \in Members(X, F)
    <3> HIDE DEF X, F
    <3> QED BY <2>2, <2>3 DEF Members
  <2>5. flat[m0] = p
    BY <2>1, <2>4
  <2> QED BY <2>4, <2>5
<1>12. Cardinality(OfRanks(ranks)) = Cardinality(Members(X, F))
  <2> HIDE DEF X, F, flat
  <2> QED BY <1>7, <1>9, <1>10, <1>11, ImageSize
<1> QED BY <1>6, <1>7, <1>12, SameNumber

Sels(S) == {U!Selector(p[2]) : p \in S}
HostsOf(S) == {p[1] : p \in S}

\* What a row of the host rollup says of the findings of one rank.
LEMMA RankOfHost ==
    ASSUME RollupInv, NEW a \in DOMAIN perHost, NEW r \in 1 .. 5
    PROVE  perHost[a].byRank[r] > 0 <=> \E d \in detected[a] : U!Valid(d) /\ d.rank = r
<1> DEFINE S == {d \in {e \in detected[a] : U!Valid(e)} : d.rank = r}
<1>1. perHost[a].byRank[r] = Cardinality(S)
    BY HostFields, SameNumber
<1>2. S \in SUBSET Detections
    BY HostRowsRead DEF RollupInv, Tables
<1>3. IsFiniteSet(S)
    BY <1>2, DetectionsTyped, FS_Subset
<1>4. Cardinality(S) \in Nat /\ (Cardinality(S) = 0 <=> S = {})
    BY <1>3, FS_CardinalityType, FS_EmptySet
<1>5. S # {} <=> \E d \in detected[a] : U!Valid(d) /\ d.rank = r
    OBVIOUS
<1> HIDE DEF S
<1> QED BY <1>1, <1>4, <1>5

LEMMA WorstOfHost ==
    ASSUME RollupInv, NEW a \in DOMAIN perHost
    PROVE  perHost[a].worst <= 2 <=> \E d \in detected[a] : U!Valid(d) /\ d.rank \in {1, 2}
<1> DEFINE S == {d.rank : d \in {e \in detected[a] : U!Valid(e)}}
<1>1. perHost[a].worst = U!Min(S)
    BY HostFields
<1>2. S \subseteq 1 .. 5
    BY HostRowsRead, DetectionsTyped DEF RollupInv, Tables
<1>3. S # {}
    BY HostRowsRead
<1>4. \A r : r \in S <=> \E d \in detected[a] : U!Valid(d) /\ d.rank = r
    OBVIOUS
<1> HIDE DEF S
<1>5. U!Min(S) \in S /\ \A r \in S : U!Min(S) <= r
    BY <1>2, <1>3, LeastRank
<1> DEFINE m == U!Min(S)
<1> HIDE DEF m
<1>6. m <= 2 <=> \E r \in S : r \in {1, 2}
  <2>1. m \in S /\ m \in 1 .. 5 /\ \A r \in S : m <= r /\ r \in 1 .. 5
    BY <1>2, <1>5 DEF m
  <2> QED BY <2>1
<1> QED BY <1>1, <1>4, <1>6 DEF m

LEMMA SelectorFields ==
    ASSUME RollupInv, NEW s \in DOMAIN perSelector
    PROVE  /\ perSelector[s].ranks = {p[2].rank : p \in {q \in FoundRows : U!Selector(q[2]) = s}}
           /\ perSelector[s].cves = {p[2].cve : p \in {q \in FoundRows : U!Selector(q[2]) = s}} \ {None}
           /\ U!Min(perSelector[s].ranks) = 5
              <=> \A p \in FoundRows : U!Selector(p[2]) = s => p[2].rank = 5
<1> DEFINE behind == {q \in FoundRows : U!Selector(q[2]) = s}
           S == {p[2].rank : p \in behind}
<1>1. U!Of(detected, s) = behind
    BY SelectorRowsRead
<1>2. perSelector[s].ranks = S /\ perSelector[s].cves = {p[2].cve : p \in behind} \ {None}
  <2> DEFINE rows0 == U!Of(detected, s)
             ranks == {p[2].rank : p \in rows0}
             cves == {p[2].cve : p \in rows0} \ {None}
             n == U!Cardinality({p[1] : p \in rows0})
             size == U!Cardinality(rows0)
  <2>1. perSelector[s] = [hosts |-> n, findings |-> size, ranks |-> ranks, cves |-> cves]
    BY SelectorRowsRead, Zenon DEF U!SelectorRow
  <2>2. ranks = S /\ cves = {p[2].cve : p \in behind} \ {None}
    BY <1>1
  <2> HIDE DEF n, size, ranks, cves
  <2> QED BY <2>1, <2>2
<1>3. S \subseteq 1 .. 5
    BY RanksOfFindings
<1>4. S # {}
  <2>1. behind # {}
    BY <1>1, SelectorRowsRead
  <2> QED BY <2>1
<1>5. \A r : r \in S <=> \E p \in FoundRows : U!Selector(p[2]) = s /\ p[2].rank = r
    OBVIOUS
<1> HIDE DEF S
<1>6. U!Min(S) \in S /\ \A r \in S : U!Min(S) <= r
    BY <1>3, <1>4, LeastRank
<1> DEFINE m == U!Min(S)
<1> HIDE DEF m
<1>7. m = 5 <=> \A r \in S : r = 5
  <2>1. m \in S /\ \A r \in S : m <= r /\ r \in 1 .. 5
    BY <1>3, <1>6 DEF m
  <2> QED BY <2>1
<1>8. U!Min(S) = 5 <=> \A p \in FoundRows : U!Selector(p[2]) = s => p[2].rank = 5
    BY <1>5, <1>7 DEF m
<1> QED BY <1>2, <1>8 DEF S

\* The sets that the two forms of the summary count.
LEMMA OneAnswer ==
    ASSUME RollupInv
    PROVE  /\ DOMAIN perHost = HostsOf(FoundRows)
           /\ DOMAIN perSelector = Sels(FoundRows)
           /\ UNION {perSelector[s].cves : s \in DOMAIN perSelector} = {p[2].cve : p \in FoundRows} \ {None}
           /\ {a \in DOMAIN perHost : perHost[a].worst <= 2} = HostsOf(OfRanks({1, 2}))
           /\ {s \in DOMAIN perSelector : U!Min(perSelector[s].ranks) = 5}
              = {s \in Sels(FoundRows) : \A p \in FoundRows : U!Selector(p[2]) = s => p[2].rank = 5}
           /\ \A r \in 1 .. 5 :
                 /\ {a \in DOMAIN perHost : perHost[a].byRank[r] > 0} = HostsOf(OfRanks({r}))
                 /\ U!CountRank(r) = Sels(OfRanks({r}))
<1>1. \A a : a \in DOMAIN perHost <=> a \in Assets /\ \E d \in detected[a] : U!Valid(d)
    BY HostRowsRead
<1>2. \A a : \A ranks : a \in HostsOf(OfRanks(ranks))
         <=> a \in Assets /\ \E d \in detected[a] : U!Valid(d) /\ d.rank \in ranks
  <2> TAKE a
  <2> TAKE ranks
  <2>1. ASSUME NEW p \in OfRanks(ranks), a = p[1]
        PROVE  a \in Assets /\ \E d \in detected[a] : U!Valid(d) /\ d.rank \in ranks
    <3>1. \E b \in Assets : \E d \in detected[b] : U!Valid(d) /\ p = <<b, d>>
      BY <2>1, FoundAreStored DEF OfRanks
    <3>2. p[2].rank \in ranks
      BY <2>1 DEF OfRanks
    <3> QED BY <2>1, <3>1, <3>2
  <2>2. ASSUME a \in Assets, NEW d \in detected[a], U!Valid(d), d.rank \in ranks
        PROVE  \E p \in OfRanks(ranks) : a = p[1]
    <3>1. <<a, d>> \in OfRanks(ranks)
      BY <2>2, FoundAreStored DEF OfRanks
    <3> QED BY <3>1
  <2> QED BY <2>1, <2>2 DEF HostsOf
<1>3. DOMAIN perHost = HostsOf(FoundRows)
  <2>1. OfRanks(1 .. 5) = FoundRows
    BY RanksOfFindings DEF OfRanks
  <2>2. \A a \in Assets : \A d \in detected[a] : d.rank \in 1 .. 5
    BY DetectionsTyped DEF RollupInv, Tables
  <2>3. \A a : a \in HostsOf(FoundRows) <=> a \in Assets /\ \E d \in detected[a] : U!Valid(d) /\ d.rank \in 1 .. 5
    BY <1>2, <2>1
  <2>4. \A a : a \in DOMAIN perHost <=> a \in HostsOf(FoundRows)
    BY <1>1, <2>2, <2>3
  <2> QED BY <2>4
<1>4. DOMAIN perSelector = Sels(FoundRows)
    BY SelectorRowsRead DEF Sels
<1>5. UNION {perSelector[s].cves : s \in DOMAIN perSelector} = {p[2].cve : p \in FoundRows} \ {None}
  <2>1. \A s \in DOMAIN perSelector : \A c : c \in perSelector[s].cves
           <=> c # None /\ \E p \in FoundRows : U!Selector(p[2]) = s /\ p[2].cve = c
    BY SelectorFields
  <2>2. \A p \in FoundRows : U!Selector(p[2]) \in DOMAIN perSelector
    BY SelectorRowsRead
  <2>3. \A c : c \in UNION {perSelector[s].cves : s \in DOMAIN perSelector}
               <=> c # None /\ \E p \in FoundRows : p[2].cve = c
    BY <2>1, <2>2
  <2> QED BY <2>3
<1>6. {a \in DOMAIN perHost : perHost[a].worst <= 2} = HostsOf(OfRanks({1, 2}))
  <2>1. \A a : a \in {b \in DOMAIN perHost : perHost[b].worst <= 2} <=> a \in HostsOf(OfRanks({1, 2}))
    BY <1>1, <1>2, WorstOfHost
  <2> QED BY <2>1
<1>7. {s \in DOMAIN perSelector : U!Min(perSelector[s].ranks) = 5}
      = {s \in Sels(FoundRows) : \A p \in FoundRows : U!Selector(p[2]) = s => p[2].rank = 5}
    BY <1>4, SelectorFields
<1>8. ASSUME NEW r \in 1 .. 5
      PROVE  {a \in DOMAIN perHost : perHost[a].byRank[r] > 0} = HostsOf(OfRanks({r}))
  <2>1. \A a : a \in HostsOf(OfRanks({r})) <=> a \in Assets /\ \E d \in detected[a] : U!Valid(d) /\ d.rank = r
    BY <1>2
  <2>2. \A a : a \in {b \in DOMAIN perHost : perHost[b].byRank[r] > 0} <=> a \in HostsOf(OfRanks({r}))
    BY <1>1, <2>1, RankOfHost
  <2> QED BY <2>2
<1>9. ASSUME NEW r \in 1 .. 5 PROVE U!CountRank(r) = Sels(OfRanks({r}))
  <2>1. \A s : s \in U!CountRank(r) <=> s \in DOMAIN perSelector /\ r \in perSelector[s].ranks
    BY DEF U!CountRank
  <2>2. \A s \in DOMAIN perSelector :
           r \in perSelector[s].ranks <=> \E p \in FoundRows : U!Selector(p[2]) = s /\ p[2].rank = r
    BY SelectorFields
  <2>3. \A s : s \in Sels(OfRanks({r})) <=> \E p \in FoundRows : U!Selector(p[2]) = s /\ p[2].rank = r
    BY DEF Sels, OfRanks
  <2>4. \A p \in FoundRows : U!Selector(p[2]) \in DOMAIN perSelector
    BY SelectorRowsRead
  <2>5. \A s : s \in U!CountRank(r) <=> s \in Sels(OfRanks({r}))
    BY <2>1, <2>2, <2>3, <2>4
  <2> QED BY <2>5
<1> QED BY <1>3, <1>4, <1>5, <1>6, <1>7, <1>8, <1>9

LEMMA AnswersFromRows == ASSUME RollupInv PROVE U!AnswersAgree
<1>1. U!SumOfRanks(1 .. 5) = U!Cardinality(FoundRows)
  <2>1. OfRanks(1 .. 5) = FoundRows
    BY RanksOfFindings DEF OfRanks
  <2> QED BY <2>1, RanksAddUp
<1>2. \A r \in 1 .. 5 : U!SumOfRanks({r}) = U!Cardinality(OfRanks({r}))
    BY RanksAddUp
<1>3. U!DirectSummary =
        [hosts    |-> U!Cardinality(HostsOf(FoundRows)),
         findings |-> U!Cardinality(FoundRows),
         unique   |-> U!Cardinality(Sels(FoundRows)),
         cves     |-> U!Cardinality({p[2].cve : p \in FoundRows} \ {None}),
         risky    |-> U!Cardinality(HostsOf(OfRanks({1, 2}))),
         unrated  |-> U!Cardinality({s \in Sels(FoundRows) :
                                       \A p \in FoundRows : U!Selector(p[2]) = s => p[2].rank = 5}),
         severity |-> [r \in 1 .. 5 |-> <<U!Cardinality(OfRanks({r})),
                                          U!Cardinality(HostsOf(OfRanks({r}))),
                                          U!Cardinality(Sels(OfRanks({r})))>>]]
  <2>1. \A r : {p \in FoundRows : p[2].rank = r} = OfRanks({r})
    BY DEF OfRanks
  <2>2. {p \in FoundRows : p[2].rank = 1} \cup {p \in FoundRows : p[2].rank = 2} = OfRanks({1, 2})
    BY DEF OfRanks
  <2>3. U!DirectSummary =
        [hosts    |-> U!Cardinality(HostsOf(FoundRows)),
         findings |-> U!Cardinality(FoundRows),
         unique   |-> U!Cardinality(Sels(FoundRows)),
         cves     |-> U!Cardinality({p[2].cve : p \in FoundRows} \ {None}),
         risky    |-> U!Cardinality(HostsOf({p \in FoundRows : p[2].rank = 1}
                                            \cup {p \in FoundRows : p[2].rank = 2})),
         unrated  |-> U!Cardinality({s \in Sels(FoundRows) :
                                       \A p \in FoundRows : U!Selector(p[2]) = s => p[2].rank = 5}),
         severity |-> [r \in 1 .. 5 |-> <<U!Cardinality({p \in FoundRows : p[2].rank = r}),
                                          U!Cardinality(HostsOf({p \in FoundRows : p[2].rank = r})),
                                          U!Cardinality(Sels({p \in FoundRows : p[2].rank = r}))>>]]
    BY Zenon DEF U!DirectSummary, FoundRows, Sels, HostsOf
  <2> QED
    BY <2>1, <2>2, <2>3
<1>4. U!RollupSummary = U!DirectSummary
    BY <1>1, <1>2, <1>3, OneAnswer DEF U!RollupSummary
<1>5. ASSUME NEW s \in U!Selectors
      PROVE  (IF s \in DOMAIN perSelector THEN perSelector[s].hosts ELSE 0) = U!Cardinality(U!HostsBehind(s))
  <2>1. U!HostsBehind(s) = {p[1] : p \in U!Of(detected, s)}
    <3>1. \A p : p \in U!Of(detected, s) <=>
             \E a \in Assets : \E d \in detected[a] : U!Valid(d) /\ p = <<a, d>> /\ U!Selector(d) = s
      BY PairsOfTable DEF RollupInv
    <3>2. ASSUME NEW a PROVE a \in U!HostsBehind(s) <=> \E p \in U!Of(detected, s) : a = p[1]
      <4>1. ASSUME NEW p \in U!Of(detected, s), a = p[1] PROVE a \in U!HostsBehind(s)
        BY <3>1, <4>1 DEF U!HostsBehind, RollupInv
      <4>2. ASSUME a \in U!HostsBehind(s) PROVE \E p \in U!Of(detected, s) : a = p[1]
        <5>1. PICK d \in detected[a] : U!Valid(d) /\ U!Selector(d) = s
          BY <4>2 DEF U!HostsBehind
        <5>2. a \in Assets
          BY <4>2 DEF U!HostsBehind, RollupInv
        <5>3. <<a, d>> \in U!Of(detected, s)
          BY <3>1, <5>1, <5>2
        <5> QED BY <5>3
      <4> QED BY <4>1, <4>2
    <3> QED BY <3>2
  <2>2. CASE s \in DOMAIN perSelector
    BY <2>1, <2>2, SelectorRowsRead DEF U!SelectorRow
  <2>3. CASE s \notin DOMAIN perSelector
    <3>1. U!Of(detected, s) = {}
      BY <2>3, SelectorRowsRead
    <3>2. U!HostsBehind(s) = {}
      BY <2>1, <3>1
    <3> QED BY <2>3, <3>2, SameNumber, FS_EmptySet
  <2> QED BY <2>2, <2>3
<1> QED BY <1>4, <1>5 DEF U!AnswersAgree

\* With and without the rollup tables the dashboard gives one answer (the triggers of
\* migration 0037 and the one writer that the write lock admits), and pruning the snapshots
\* is not seen inside the retention.
THEOREM TotalsAreRight == T!Spec /\ U!Spec => []TotalsAreTrue
<1>1. U!Spec => []U!AnswersAgree
  <2>1. U!Init => RollupInv
    BY RollupInitially
  <2>2. RollupInv /\ [U!Next]_U!vars => RollupInv'
    BY RollupStays
  <2>3. RollupInv => U!AnswersAgree
    BY AnswersFromRows
  <2> HIDE DEF U!Init, U!Next, U!vars, RollupInv, U!AnswersAgree
  <2> QED BY <2>1, <2>2, <2>3, PTL DEF U!Spec
<1>2. U!AnswersAgree /\ T!TrendIsHistory => TotalsAreTrue
    BY DEF TotalsAreTrue
<1> HIDE DEF U!AnswersAgree, T!TrendIsHistory, TotalsAreTrue
<1> QED BY <1>1, <1>2, PruningIsUnseen, PTL
==============================================================================
