-------------------------- MODULE AssetCardIdentity --------------------------
(***************************************************************************)
(* Which local card a saved MP VM object ends up in.  canonical_asset_-    *)
(* card_id matches the object with the other cards by fqdn, or without one *)
(* by address, or without both by host name; the card is then overwritten  *)
(* with what the object says.  Each save is one transaction under the      *)
(* passport write lock, so saves are atomic here.                          *)
(***************************************************************************)
EXTENDS Naturals

CONSTANTS
    Ids,           \* MP VM object identifiers
    Observations,  \* what MP VM may say: [id, host, fqdn, ip, hostname]
    Null,          \* a field that is empty after clean_value
    MaxSaves       \* bound on the number of saves

Fqdns == {o.fqdn : o \in Observations} \cup {Null}
Addresses == {o.ip : o \in Observations} \cup {Null}
HostNames == {o.hostname : o \in Observations} \cup {Null}
HostsSeen == {o.host : o \in Observations} \cup {Null}

VARIABLES
    present,                 \* asset ids with a row in asset_cards
    fqdn, ip, hostname,      \* identity columns of the rows
    seen, serial,            \* last_seen in seconds, and the column id
    host,                    \* history: the host the row was last written from
    clock, saves

identity == <<fqdn, ip, hostname, host>>
vars == <<present, identity, seen, serial, clock, saves>>

TypeOK ==
    /\ present \subseteq Ids
    /\ fqdn \in [Ids -> Fqdns] /\ ip \in [Ids -> Addresses] /\ hostname \in [Ids -> HostNames]
    /\ host \in [Ids -> HostsSeen]
    /\ seen \in [Ids -> Nat] /\ serial \in [Ids -> Nat]
    /\ clock \in Nat /\ saves \in 0..MaxSaves

Init ==
    /\ present = {}
    /\ fqdn = [c \in Ids |-> Null] /\ ip = [c \in Ids |-> Null] /\ hostname = [c \in Ids |-> Null]
    /\ host = [c \in Ids |-> Null]
    /\ seen = [c \in Ids |-> 0] /\ serial = [c \in Ids |-> 0]
    /\ clock = 0 /\ saves = 0

-----------------------------------------------------------------------------
\* Mutant: a card with another fqdn matches by its address.
MatchesAddressFirst(c, o) ==
    /\ c \in present /\ c # o.id
    /\ \/ o.ip # Null /\ ip[c] = o.ip
       \/ o.ip = Null /\ o.fqdn # Null /\ fqdn[c] = o.fqdn
       \/ o.ip = Null /\ o.fqdn = Null /\ o.hostname # Null /\ hostname[c] = o.hostname

\* The WHERE clause of canonical_asset_card_id.
Matches(c, o) ==
    /\ c \in present /\ c # o.id
    /\ \/ o.fqdn # Null /\ fqdn[c] = o.fqdn
       \/ o.fqdn = Null /\ o.ip # Null /\ ip[c] = o.ip
       \/ o.fqdn = Null /\ o.ip = Null /\ o.hostname # Null /\ hostname[c] = o.hostname

\* ORDER BY last_seen DESC, id DESC
NotAfter(c, d) == seen[c] < seen[d] \/ (seen[c] = seen[d] /\ serial[c] <= serial[d])

\* LIMIT 1, or the object's own id.
IsCanonical(c, o) ==
    \/ Matches(c, o) /\ \A d \in Ids : Matches(d, o) => NotAfter(d, c)
    \/ c = o.id /\ \A d \in Ids : ~Matches(d, o)

\* INSERT ... ON CONFLICT(asset_id) DO UPDATE: every identity column is replaced,
\* a new row gets the next serial.
WriteCard(c, o) ==
    /\ present' = present \cup {c}
    /\ fqdn' = [fqdn EXCEPT ![c] = o.fqdn]
    /\ ip' = [ip EXCEPT ![c] = o.ip]
    /\ hostname' = [hostname EXCEPT ![c] = o.hostname]
    /\ host' = [host EXCEPT ![c] = o.host]
    /\ serial' = IF c \in present THEN serial ELSE [serial EXCEPT ![c] = saves + 1]

\* Two saves may fall into the same second.
Save(o, seconds) ==
    /\ saves < MaxSaves
    /\ saves' = saves + 1
    /\ clock' = clock + seconds
    /\ \E c \in Ids :
          /\ IsCanonical(c, o)
          /\ WriteCard(c, o)
          /\ seen' = [seen EXCEPT ![c] = clock']

DeleteCard(c) ==
    /\ c \in present
    /\ present' = present \ {c}
    /\ UNCHANGED <<identity, seen, serial, clock, saves>>

Next ==
    \/ \E o \in Observations, seconds \in {0, 1} : Save(o, seconds)
    \/ \E c \in Ids : DeleteCard(c)

Spec == Init /\ [][Next]_vars

-----------------------------------------------------------------------------
(* Properties. *)

\* No two cards have the same fqdn, whichever objects report it in which order.
OneCardPerFqdn ==
    \A c, d \in present : fqdn[c] # Null /\ fqdn[c] = fqdn[d] => c = d

\* A saved card never replaces the card of another host, as long as different
\* hosts share no fqdn, address or host name.
CardsStayWithHost ==
    [][\A c \in present \cap present' : host'[c] = host[c]]_vars
=============================================================================
