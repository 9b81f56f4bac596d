---------------------------- MODULE SnmpCollector ----------------------------
(* The SNMP collector (META-INF/spring/snmp-collector.xml): the catalog     *)
(* joins pollers, host lists and OID lists, read from three files, into one *)
(* configuration per poller and host; each becomes a route that polls its   *)
(* agent.  An answer is split into its variable bindings, which go through  *)
(* an in-memory queue to a script that turns each into a measure, and       *)
(* through another to the senders.                                          *)
(*                                                                          *)
(* An item <<r, p, i>> is the i-th binding of the answer to poll p of route *)
(* r.  Queues are unbounded, and any item in one may be the next.           *)
EXTENDS Naturals, FiniteSetsExt, SequencesExt, Functions

CONSTANTS Catalogs,       \* contents the three files may have
          Text,           \* OIDs whose value is a text, canonically spelled
          DottedString,   \* the canonical spelling of each OID in a file
          Unknown,        \* a port that is not given
          Null,           \* a community or a list that is not given
          MaxPolls        \* bound: polls of each route

ASSUME PollsAssumption == MaxPolls \in Nat

IsSeq(list) == list \in Seq(Range(list))

IsHost(h) ==
  /\ h = [host |-> h.host, port |-> h.port, community |-> h.community, enabled |-> h.enabled]
  /\ h.enabled \in BOOLEAN

IsHostList(list) ==
  /\ list = [id |-> list.id, port |-> list.port, community |-> list.community, hosts |-> list.hosts]
  /\ list.hosts # Null => IsSeq(list.hosts) /\ \A h \in Range(list.hosts) : IsHost(h)

IsOidList(list) ==
  list.oids # Null => IsSeq(list.oids) /\ \A m \in Range(list.oids) : m.oid \in DOMAIN DottedString

(* What a file that parses can hold: lists of entries, where the contents   *)
(* of a host list or of an OID list may be missing, and OIDs of numbers.    *)
ASSUME CatalogsAssumption ==
  \A c \in Catalogs :
    /\ IsSeq(c.pollers) /\ IsSeq(c.hosts) /\ IsSeq(c.oids)
    /\ \A list \in Range(c.hosts) : IsHostList(list)
    /\ \A list \in Range(c.oids) : IsOidList(list)

\* The canonical spelling is spelled as it is.
ASSUME DottedStringAssumption ==
  \A oid \in DOMAIN DottedString : DottedString[DottedString[oid]] = DottedString[oid]

VARIABLES phase,      \* of the start
          files,      \* what reading each file gives, and whether MIBs are there
          given,      \* the catalog in the files
          pollers, hostLists, oidLists,    \* the catalog as loaded
          next,       \* poller to be joined
          configs,    \* List<SnmpPollerConfiguration>
          routes,     \* how many of them have a route
          sent,       \* polls sent, by route
          pending,    \* <<r, p>>: polls that wait for an answer
          at,         \* where each item is
          measure     \* the measure made of an item

catalogVars == <<files, given, pollers, hostLists, oidLists, next, configs, routes>>
pollVars == <<sent, pending, at, measure>>
vars == <<phase, catalogVars, pollVars>>

Files == {"pollers", "hosts", "oids", "mibs"}
Routes == 1..Len(configs)

TypeOK ==
  /\ phase \in {"reading", "joining", "building", "built", "running", "refused"}
  /\ files \in [Files -> {"good", "broken", "missing"}]
  /\ given \in Catalogs
  /\ next \in Nat /\ routes \in 0..Len(configs)
  /\ sent \in [Routes -> 0..MaxPolls]
  /\ \A q \in pending : q[1] \in Routes /\ q[2] \in 1..sent[q[1]]
  /\ \A item \in DOMAIN at : /\ item[1] \in Routes /\ item[2] \in 1..MaxPolls
                             /\ at[item] \in {"queue", "measure", "posted", "failed", "unlisted", "stopped"}
  /\ DOMAIN measure \subseteq DOMAIN at

\* A file is missing, does not parse, or is good; without MIBs no route is made.
Init ==
  /\ phase = "reading"
  /\ files \in { f \in [Files -> {"good", "broken", "missing"}] : f["mibs"] # "broken" }
  /\ given \in Catalogs
  /\ pollers = <<>> /\ hostLists = <<>> /\ oidLists = Null
  /\ next = 1 /\ configs = <<>> /\ routes = 0
  /\ sent = <<>> /\ pending = {} /\ at = <<>> /\ measure = <<>>
----------------------------------------------------------------------------
(* SnmpMetricCatalog.load.  Whatever is thrown ends in SnmpPollerRoute-     *)
(* Builder.configure, which catches it and makes no route.                  *)

Give(list) == configs' = list /\ sent' = [r \in 1..Len(list) |-> 0]

Throw ==
  /\ phase' = "built" /\ Give(<<>>)
  /\ UNCHANGED <<files, given, pollers, hostLists, oidLists, next, routes, pending, at, measure>>

\* A missing file is a null URL.  One that does not parse leaves the instance
\* as constructed: no host lists, but null for the pollers and the OID lists.
ReadFails == "missing" \in {files[f] : f \in Files \ {"mibs"}} \/ files["pollers"] = "broken"

ReadAndValidate ==
  /\ phase = "reading"
  /\ \/ ReadFails /\ Throw
     \/ /\ ~ReadFails
        /\ pollers' = given.pollers
        /\ hostLists' = IF files["hosts"] = "good" THEN given.hosts ELSE <<>>
        /\ oidLists' = IF files["oids"] = "good" THEN given.oids ELSE Null
        /\ phase' = IF given.pollers = <<>> THEN "building" ELSE "joining"
        /\ UNCHANGED <<files, given, next, configs, routes, pollVars>>

\* getHostListIds, getOidListIds.
ListIds(refs) == {refs[i].id : i \in {j \in DOMAIN refs : refs[j].enabled}}

\* The elements of lists, by the places the loops of getHosts and getOids come to.
Before(p, q) == p[1] < q[1] \/ (p[1] = q[1] /\ p[2] < q[2])

InOrder(places) ==
  [k \in 1..Cardinality(places) |->
     CHOOSE p \in places : Cardinality({q \in places : Before(q, p)}) = k - 1]

Enabled(lists) ==
  UNION {{i} \X {j \in DOMAIN lists[i] : lists[i][j].enabled} : i \in DOMAIN lists}

\* Mutant of Distinct: a list instead of the LinkedHashSet.
DistinctNot(lists) == Enabled(lists)

\* A LinkedHashSet keeps an element where it came first.
Distinct(lists) ==
  {p \in Enabled(lists) :
     \A q \in Enabled(lists) : Before(q, p) => lists[q[1]][q[2]] # lists[p[1]][p[2]]}

Collected(lists) ==
  LET places == InOrder(Distinct(lists))
  IN  [k \in DOMAIN places |-> lists[places[k][1]][places[k][2]]]

Filled(entry, host) ==
  [host EXCEPT !.port = IF @ = Unknown THEN entry.port ELSE @,
               !.community = IF @ = Null THEN entry.community ELSE @]

\* getHosts fills ports and communities into the hosts themselves, before each
\* is added: the set compares what is polled.
FilledList(entry) ==
  [entry EXCEPT !.hosts = [j \in DOMAIN @ |-> IF @[j].enabled THEN Filled(entry, @[j]) ELSE @[j]]]

FilledLists(ids) ==
  [i \in DOMAIN hostLists |->
     IF hostLists[i].id \in ids THEN FilledList(hostLists[i]) ELSE hostLists[i]]

GetHosts(lists, ids) ==
  Collected([i \in DOMAIN lists |-> IF lists[i].id \in ids THEN lists[i].hosts ELSE <<>>])

\* An OidMap equals another of the same OID, metric and description.
GetOids(ids) ==
  Collected([i \in DOMAIN oidLists |-> IF oidLists[i].id \in ids THEN oidLists[i].oids ELSE <<>>])

\* A NullPointerException: a list without contents, or OIDs that did not parse
\* and are wanted for some host.
ThrowsNull(hosts, hostIds, oidIds) ==
  \/ \E i \in DOMAIN hostLists : hostLists[i].id \in hostIds /\ hostLists[i].hosts = Null
  \/ /\ hosts # <<>>
     /\ oidLists = Null \/ \E i \in DOMAIN oidLists : oidLists[i].id \in oidIds /\ oidLists[i].oids = Null

Configuration(p, host, oids) ==
  [poller |-> p, host |-> host.host, port |-> host.port, community |-> host.community, oids |-> oids]

\* One turn of the loop over the pollers.
JoinPoller ==
  /\ phase = "joining"
  /\ LET hostIds == ListIds(pollers[next].hosts)
         oidIds == ListIds(pollers[next].oids)
         lists == FilledLists(hostIds)
         hosts == GetHosts(lists, hostIds)
     IN  IF ThrowsNull(hosts, hostIds, oidIds) THEN Throw
         ELSE /\ hostLists' = lists
              /\ Give(configs \o [i \in DOMAIN hosts |-> Configuration(next, hosts[i], GetOids(oidIds))])
              /\ next' = next + 1
              /\ phase' = IF next = Len(pollers) THEN "building" ELSE "joining"
              /\ UNCHANGED <<files, given, pollers, oidLists, routes, pending, at, measure>>

\* The loop of configure: the processor of the first route throws without MIBs.
Configure ==
  /\ phase = "building"
  /\ phase' = "built"
  /\ routes' = IF files["mibs"] = "good" THEN Len(configs) ELSE 0
  /\ UNCHANGED <<files, given, pollers, hostLists, oidLists, next, configs, pollVars>>

\* The context.  All routes carry the one routeId of the builder; with several
\* it may take them or refuse to start.
Start ==
  /\ phase = "built"
  /\ phase' = "running" \/ (routes > 1 /\ phase' = "refused")
  /\ UNCHANGED <<catalogVars, pollVars>>
----------------------------------------------------------------------------
(* Polling: from(getUri(...)), once per delay.                              *)

Poll(r) ==
  /\ phase = "running" /\ r <= routes /\ sent[r] < MaxPolls
  /\ sent' = [sent EXCEPT ![r] = @ + 1]
  /\ pending' = pending \cup {<<r, sent[r] + 1>>}
  /\ UNCHANGED <<phase, catalogVars, at, measure>>

NoAnswer(q) ==
  /\ q \in pending /\ pending' = pending \ {q}
  /\ UNCHANGED <<phase, catalogVars, sent, at, measure>>

\* getOidsAsString: what the URI asks for, duplicates included.
Asked(r) == [i \in DOMAIN configs[r].oids |-> DottedString[configs[r].oids[i].oid]]

\* splitBody reads every value as a number before anything is passed on: one
\* text and the whole answer is lost.
SplitFails(asked, absent) == \E i \in DOMAIN asked : asked[i] \in Text \ absent

\* SnmpHandleException stops the bindings that are exceptions.
HandleException(oid, absent) == IF oid \in absent THEN "stopped" ELSE "queue"

\* The agent answers each OID it was asked for, those in absent with an exception.
Answer(q, absent) ==
  LET asked == Asked(q[1])
  IN  /\ q \in pending /\ pending' = pending \ {q}
      /\ absent \subseteq Range(asked)
      /\ LET items == IF SplitFails(asked, absent) THEN {}
                      ELSE {<<q[1], q[2], i>> : i \in DOMAIN asked}
         IN  at' = [item \in DOMAIN at \cup items |->
                      IF item \in DOMAIN at THEN at[item] ELSE HandleException(asked[item[3]], absent)]
      /\ UNCHANGED <<phase, catalogVars, sent, measure>>
----------------------------------------------------------------------------
(* The script route: snmp-to-measure.js finds the OidMap of the binding in  *)
(* the map of the configuration, which came with it as a header.            *)

\* Mutant of HeaderConfig: the variable of the loop, as it is after the loop.
HeaderConfigLast(r) == configs[Len(configs)]

\* setHeader(BOUNDARY_SNMP_POLLER_CONFIG, constant(config)).
HeaderConfig(r) == configs[r]

\* getOidMap: the last OidMap put under an OID stays.
OidMapOf(config) ==
  [oid \in {config.oids[i].oid : i \in DOMAIN config.oids} |->
     config.oids[Max({i \in DOMAIN config.oids : config.oids[i].oid = oid})]]

\* Without an OidMap the script fails, and the item is gone.
Transform(item) ==
  LET config == HeaderConfig(item[1])
      map == OidMapOf(config)
      oid == Asked(item[1])[item[3]]
  IN  /\ item \in DOMAIN at /\ at[item] = "queue"
      /\ IF oid \in DOMAIN map
         THEN /\ measure' = [made \in DOMAIN measure \cup {item} |->
                               IF made = item THEN [source |-> config.host, metric |-> map[oid].metric]
                               ELSE measure[made]]
              /\ at' = [at EXCEPT ![item] = "measure"]
         ELSE at' = [at EXCEPT ![item] = "unlisted"] /\ UNCHANGED measure
      /\ UNCHANGED <<phase, catalogVars, sent, pending>>

\* MeasureRouteBuilder: one attempt.
Post(item) ==
  /\ item \in DOMAIN at /\ at[item] = "measure"
  /\ \E to \in {"posted", "failed"} : at' = [at EXCEPT ![item] = to]
  /\ UNCHANGED <<phase, catalogVars, sent, pending, measure>>
----------------------------------------------------------------------------
Load == ReadAndValidate \/ JoinPoller \/ Configure \/ Start

Next == \/ Load
        \/ \E r \in Routes : Poll(r)
        \/ \E q \in pending : NoAnswer(q) \/ \E absent \in SUBSET Range(Asked(q[1])) : Answer(q, absent)
        \/ \E item \in DOMAIN at : Transform(item) \/ Post(item)

Spec == Init /\ [][Next]_vars
----------------------------------------------------------------------------
EnabledIds(refs) == {ref.id : ref \in {x \in Range(refs) : x.enabled}}

ListsOf(lists, refs) == {l \in Range(lists) : l.id \in EnabledIds(refs)}

HostsListed(p) ==
  UNION { {[poller |-> p, host |-> h.host, port |-> Filled(l, h).port, community |-> Filled(l, h).community] :
             h \in {x \in Range(l.hosts) : x.enabled}} : l \in ListsOf(given.hosts, given.pollers[p].hosts) }

Wanted(p) ==
  {m \in UNION {Range(l.oids) : l \in ListsOf(given.oids, given.pollers[p].oids)} : m.enabled}

(* Every enabled host of the lists an enabled reference of a poller names   *)
(* is polled for it, with the port and the community of its list where it   *)
(* has none, and once, however many of the lists name it or leave its port  *)
(* to the list; and nothing else is.  Or nothing at all is polled, because  *)
(* a file, a list or the MIBs are missing.  The hosts are filled in while   *)
(* other pollers still have to use them.                                    *)
PolledAsListed ==
  routes > 0 =>
    LET polled == [r \in Routes |-> [poller |-> configs[r].poller, host |-> configs[r].host,
                                     port |-> configs[r].port, community |-> configs[r].community]]
    IN  /\ Range(polled) = UNION {HostsListed(p) : p \in DOMAIN given.pollers}
        /\ IsInjective(polled)

(* A value is sent as a measure of the host that was polled, under a metric *)
(* that a list of its poller gives the OID.  Within one answer a metric is  *)
(* measured once and from its own OID, though several lists name it, unless *)
(* the lists of the poller give one OID two metrics or descriptions, or one *)
(* metric two OIDs.  The script misses an OID only if the file spells it    *)
(* otherwise than the agent answers it.                                     *)
MeasuredAsListed ==
  /\ \A item \in DOMAIN measure :
       LET config == configs[item[1]]
           oidMap == config.oids[item[3]]
           value == measure[item]
       IN  /\ value.source = config.host
           /\ \E m \in Wanted(config.poller) : /\ m.metric = value.metric
                                              /\ DottedString[m.oid] = Asked(item[1])[item[3]]
           /\ (\A m \in Wanted(config.poller) \ {oidMap} :
                 DottedString[m.oid] # DottedString[oidMap.oid] /\ m.metric # oidMap.metric)
              => /\ value.metric = oidMap.metric
                 /\ \A other \in DOMAIN measure \ {item} :
                      other[1] = item[1] /\ other[2] = item[2] => measure[other].metric # oidMap.metric
  /\ \A item \in DOMAIN at :
       at[item] = "unlisted" => Asked(item[1])[item[3]] # configs[item[1]].oids[item[3]].oid
=============================================================================
