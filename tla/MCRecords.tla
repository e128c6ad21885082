------------------------------ MODULE MCRecords ------------------------------
(* Small instances of the components of Records and Derived.  No two of them    *)
(* write the same table, so a behaviour moves the one that is in focus.         *)
EXTENDS Derived, TLC

CONSTANTS
    a1, a2, b1,                                     \* cards
    p1, p2, p3, f1, f2, k1, x, y, g, h, c, d, deb,  \* passports, findings, a case, entries
    r1, r2, t1, t2,                                 \* remediation keys, threads
    v1, c1, o1,                                     \* a passport, a CVE, a card in groups
    s1, s2, s3,                                     \* triggers of snapshots
    u1,                                             \* a user
    q1, q2, q3, m1, m2,                             \* groups, cards of a bulk refresh and rollup
    n1, n2, h1, h2, h3                              \* subnets, their hosts

VARIABLE focus

-----------------------------------------------------------------------------
(* Two hosts; the first was known to MP VM under two object ids.  An object    *)
(* reports an arbitrary nonempty part of its host's identity.                  *)
MCHostOf(id) == IF id = b1 THEN "b" ELSE "a"
MCPart(id, reported) == IF reported THEN MCHostOf(id) ELSE Null
MCObservations ==
    {o \in {[id |-> id, host |-> MCHostOf(id), fqdn |-> MCPart(id, f), ip |-> MCPart(id, i),
             hostname |-> MCPart(id, n)] : id \in {a1, a2, b1}, f, i, n \in BOOLEAN} :
        ~(o.fqdn = Null /\ o.ip = Null /\ o.hostname = Null)}

\* Three listings: p1 is issued again as p2, p3 loses the CVE and becomes another package's.
MCEntry(ext, pkg, ver, cve, os) ==
    [ext |-> ext, pkg |-> pkg, ver |-> ver, cves |-> {cve}, os |-> os,
     rel |-> IF os = deb THEN 1 ELSE None]
MCCatalogs ==
    << p1 :> MCEntry(x, g, 1, c, None) @@ p3 :> MCEntry(y, None, None, c, deb),
       p2 :> MCEntry(x, g, 2, c, None) @@ p3 :> MCEntry(y, None, None, d, deb),
       p3 :> MCEntry(x, h, 1, c, None) >>

MCIds == {p1, p2, p3}
MCOrder == p1 :> 1 @@ p2 :> 2 @@ p3 :> 3
MCParts == {{p2}, {p3}}
MCTrending == {p2, p3}
MCDetailOs == p1 :> None @@ p2 :> deb @@ p3 :> None
MCPassportFindings == {f1, f2}
MCPassportFinding == f1 :> [vid |-> p1, cve |-> c, os |-> deb, rel |-> 1]
                     @@ f2 :> [vid |-> None, cve |-> c, os |-> None, rel |-> None]
MCCases == {k1}

\* Four snapshots of one asset with two vulnerabilities, the complete one, one without
\* groups because nothing is left, and two that miss what is really there.
MCGroup(id, truncated, items) == [id |-> id, truncated |-> truncated, items |-> items]
MCShots ==
    { [groups |-> << MCGroup("c1", FALSE, <<"f1", "f2">>), MCGroup("c2", FALSE, <<"f2 again">>) >>,
       real |-> {r1, r2}],
      [groups |-> <<>>, real |-> {}],
      [groups |-> << MCGroup("c1", TRUE, <<"f1">>), MCGroup(None, FALSE, <<"f3">>) >>, real |-> {r1, r2}],
      [groups |-> <<>>, real |-> {r1, r2}] }

MCKeys == {r1, r2}
MCRated == {r1}
MCKey == "f1" :> r1 @@ "f2" :> r2 @@ "f2 again" :> r2 @@ "f3" :> r2
MCInstance == "f1" :> "i1" @@ "f2" :> "i2" @@ "f2 again" :> "i2" @@ "f3" :> None
MCThreads == {t1, t2}

\* One finding of each form of the selector, and two of one selector.
MCFinding(vid, cve, docker, rank) ==
    [vid |-> vid, cve |-> cve, name |-> None, docker |-> docker, object |-> None, rank |-> rank]
MCFindings == { MCFinding(v1, c1, FALSE, 1), MCFinding(v1, None, FALSE, 5),
                MCFinding(None, c1, TRUE, 5), MCFinding(None, None, FALSE, 2) }

MCLoads == SUBSET MCFindings

MCTriggers == {s1, s2, s3}
MCUsers == {u1}
MCGrace == {0, 1}
\* A firewall with one rule, with the two halves of it in different rules, and another:
\* a query for both halves finds different cards on the host and in one entity.
MCRow(entity, field, value) == [entity |-> entity, field |-> field, value |-> value]
MCRule(field, test, value) == [field |-> field, op |-> test, value |-> value]
MCGroupOf(combinator, scope, rules) == [combinator |-> combinator, scope |-> scope, rules |-> rules]
MCContent == {MCRow("r1", "port", "22"), MCRow("r1", "action", "allow")}
MCContents == { MCContent,
                {MCRow("r1", "port", "22"), MCRow("r2", "action", "allow")},
                {MCRow("r1", "port", "80")} }
MCBoth == {MCRule("port", "equals", "22"), MCRule("action", "equals", "allow")}
MCNoAction == MCRule("action", "not_exists", "any")
MCEither == MCGroupOf("or", "host", {MCGroupOf("and", "same_entity", MCBoth), MCNoAction})
MCQueries == {MCEither, MCGroupOf("and", "host", MCBoth),
              MCGroupOf("and", "same_entity", {MCGroupOf("and", "host", MCBoth)})}
MCIndexed == {o1}

Q == INSTANCE AssetQuery
MCAccepts(node) == Q!Valid(node)
MCFinds(fields, node) == Q!Selects(fields, node)
MCSatisfies(fields, node) == Q!Holds(fields, node)

MCGroups == {q1, q2, q3}

MCMembers == {m1, m2}
\* Two subnets, of two hosts and of one.  The options: everything, everything without a
\* check and with clean jobs, a removal without an export, no start, no wait, a dry run,
\* and the export alone.
MCSubnets == <<n1, n2>>
MCHosts == {h1, h2, h3}
MCNetOf == h1 :> n1 @@ h2 :> n1 @@ h3 :> n2
MCKnown == {h1}
MCOptions(names) == [option \in {"scan", "dry", "check", "validate", "start", "export", "delete",
                                 "clean", "final"} |-> option \in names]
MCArgs == { MCOptions({"scan", "check", "validate", "start", "export", "delete"}),
            MCOptions({"scan", "start", "export", "delete", "clean", "final"}),
            MCOptions({"scan", "check", "validate", "start", "delete"}),
            MCOptions({"scan", "check", "validate", "export", "delete"}),
            MCOptions({"scan", "validate", "start"}),
            MCOptions({"scan", "dry", "check", "start", "export", "final"}),
            MCOptions({"final"}) }

-----------------------------------------------------------------------------
\* What stays as it is while one of the components moves.
derived == <<assetGroups, tree, trends, rollups>>
withoutScript == <<identity, remediation, access, refresh, dynamicGroup, passports, derived>>
withoutIdentity == <<vars, remediation, access, refresh, dynamicGroup, passports, derived>>
withoutRemediation == <<vars, identity, access, refresh, dynamicGroup, passports, derived>>
withoutAccess == <<vars, identity, remediation, refresh, dynamicGroup, passports, derived>>
withoutBulk == <<vars, identity, remediation, access, dynamicGroup, passports, derived>>
withoutGroup == <<vars, identity, remediation, access, refresh, passports, derived>>
withoutPassports == <<vars, identity, remediation, access, refresh, dynamicGroup, derived>>
records == <<vars, identity, remediation, access, refresh, dynamicGroup, passports>>

\* Two live groups and one to be created; an index as an upgrade finds it; and the script
\* with nothing to do, unless it is in focus.
MCInit ==
    /\ Init /\ I!Init /\ R!Init /\ A!Init /\ B!Init /\ K!Init /\ P!Init
    /\ G!Init /\ H!Init /\ T!Init /\ U!Init
    /\ focus \in {"script", "identity", "remediation", "access", "bulk", "group", "passports",
                  "assets", "tree", "trends", "rollup"}
    /\ focus # "script" => args = MCOptions({"final"})
    /\ rule = MCEither /\ inventory = content /\ index = content
    /\ standing = [q \in TreeGroups |-> IF q = q3 THEN "none" ELSE "live"]
    /\ focus # "assets" => \A o \in Indexed : content[o] = MCContent

MCNext ==
    /\ UNCHANGED focus
    /\ \/ focus = "script" /\ Next /\ UNCHANGED withoutScript
       \/ focus = "identity" /\ I!Next /\ UNCHANGED withoutIdentity
       \/ focus = "remediation" /\ R!Next /\ UNCHANGED withoutRemediation
       \/ focus = "access" /\ A!Next /\ UNCHANGED withoutAccess
       \/ focus = "bulk" /\ B!Next /\ UNCHANGED withoutBulk
       \/ focus = "group" /\ K!Next /\ UNCHANGED withoutGroup
       \/ focus = "passports" /\ P!Next /\ UNCHANGED withoutPassports
       \/ focus = "assets" /\ G!Next /\ UNCHANGED <<records, tree, trends, rollups>>
       \/ focus = "tree" /\ H!Next /\ UNCHANGED <<records, assetGroups, trends, rollups>>
       \/ focus = "trends" /\ T!Next /\ UNCHANGED <<records, assetGroups, tree, rollups>>
       \/ focus = "rollup" /\ U!Next /\ UNCHANGED <<records, assetGroups, tree, trends>>

MCSpec == MCInit /\ [][MCNext]_<<focus, records, derived>>
=============================================================================
