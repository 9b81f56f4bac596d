--------------------------- MODULE MCSnmpCollector ---------------------------
(* Catalogs of up to two pollers, two host lists and two OID lists.         *)
EXTENDS SnmpCollector

Ref(id, enabled) == [id |-> id, enabled |-> enabled]
On(id) == Ref(id, TRUE)
Off(id) == Ref(id, FALSE)

Host(host, port, enabled) == [host |-> host, port |-> port, community |-> Null, enabled |-> enabled]
Oid(oid, metric, enabled) == [oid |-> oid, metric |-> metric, enabled |-> enabled]

MCDottedString == "1.1" :> "1.1" @@ "1.2" :> "1.2" @@ ".1.2" :> "1.2" @@ "1.3" :> "1.3"

\* The same address with a port of its own and with that of its list, and the
\* same name at another port.
MCHostLists ==
  << [id |-> 1, port |-> 161, community |-> "public",
      hosts |-> <<Host("web", Unknown, TRUE), Host("db", Unknown, FALSE)>>],
     [id |-> 2, port |-> 99, community |-> "public",
      hosts |-> <<Host("web", 161, TRUE), Host("web", Unknown, TRUE)>>] >>

OidList(id, oids) == [id |-> id, oids |-> oids]

Catalog(entries, oids) == [pollers |-> entries, hosts |-> MCHostLists, oids |-> oids]

Poller(hosts, oids) == [hosts |-> hosts, oids |-> oids]

Metrics1 == <<Oid("1.1", "users", TRUE), Oid("1.2", "memory", TRUE)>>
Metrics2 == <<Oid("1.1", "logins", TRUE), Oid("1.2", "swap", FALSE)>>

MCCatalogs ==
  { Catalog(<<Poller(<<On(1), On(2)>>, <<On(1)>>)>>, <<OidList(1, <<Oid("1.1", "users", TRUE)>>)>>),
    Catalog(<<Poller(<<On(1), Off(2)>>, <<On(1), Off(2)>>), Poller(<<On(1)>>, <<On(2)>>)>>,
            <<OidList(1, Metrics1), OidList(2, Metrics2)>>),
    \* An OID under two metrics.
    Catalog(<<Poller(<<On(1)>>, <<On(2), On(1)>>)>>, <<OidList(1, Metrics1), OidList(2, Metrics2)>>),
    \* An OidMap in two lists.
    Catalog(<<Poller(<<On(1)>>, <<On(1), On(2)>>)>>,
            <<OidList(1, Metrics1), OidList(2, <<Oid("1.2", "memory", TRUE)>>)>>),
    \* An OID spelled with a leading dot, and one that is a text.
    Catalog(<<Poller(<<On(1)>>, <<On(1)>>), Poller(<<On(1)>>, <<On(2)>>)>>,
            <<OidList(1, <<Oid("1.1", "users", TRUE), Oid(".1.2", "memory", TRUE)>>),
              OidList(2, <<Oid("1.1", "users", TRUE), Oid("1.3", "name", TRUE)>>)>>),
    \* Lists without contents; no pollers.
    Catalog(<<Poller(<<On(1)>>, <<On(1)>>), Poller(<<On(1)>>, <<On(2)>>)>>,
            <<OidList(1, Metrics1), OidList(2, Null)>>),
    [Catalog(<<Poller(<<On(2)>>, <<On(1)>>)>>, <<OidList(1, Metrics1)>>) EXCEPT !.hosts[2].hosts = Null],
    Catalog(<<>>, <<>>) }
=============================================================================
