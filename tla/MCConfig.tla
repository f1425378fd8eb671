------------------------------ MODULE MCConfig ------------------------------
(***************************************************************************)
(* Data sets for Config: a small rse.yaml, files that override it in every *)
(* place with every kind of node, and reports as health_fields meets them. *)
(***************************************************************************)
EXTENDS Config

DefaultFields ==
  Dict([mongo |-> Dict([srvstats |->
                          List(<<Leaf("ok"), Dict([network |-> List(<<Leaf("in")>>)])>>)]),
        profiling |-> List(<<Leaf("len")>>)])

MCDefaults ==
  Dict([memcached |-> Dict([servers |-> List(<<Leaf("localhost")>>),
                            timeout |-> Number]),
        health_fields |-> DefaultFields,
        replicaSet |-> None])

\* Servers: alone, with a port, as an address of IPv6, and with what is no port.
MCHostPort ==
     "a:1" :> [host |-> "a", port |-> "number"]
  @@ "::1" :> [host |-> "", port |-> "two colons"]
  @@ "a:b" :> [host |-> "a", port |-> "junk"]
Servers == {Leaf(text) : text \in {"a"} \cup DOMAIN MCHostPort}

\* Entries a file may have for one key, the first of them no entry at all.
Memcacheds ==
  {<<>>, [memcached |-> None], [memcached |-> Dict(<<>>)]}
    \cup {[memcached |-> Dict([servers |-> s])] :
            s \in {None, Number, Text, Leaf("a:1"), List(<<>>), List(<<None>>)}
                    \cup {Dict([text \in {"ok", other.value} |-> Number]) : other \in Servers}
                    \cup {List(<<one, other>>) : one, other \in Servers}}

FileFields ==
  {<<>>}
    \cup {[health_fields |-> f] : f \in
            {None, Text, Dict(<<>>), List(<<Leaf("mongo")>>),
             List(<<Dict([mongo |-> List(<<Leaf("ok")>>)]),
                    Dict([mongo |-> List(<<Leaf("srvstats")>>)])>>),
             Dict([mongo |-> List(<<Leaf("srvstats")>>)]),
             Dict([mongo |-> None]), Dict([ok |-> List(<<>>)])}}

Others == {<<>>, [replicaSet |-> Text], [replicaSet |-> Dict([ok |-> Number])]}

MCContents ==
  {NotThere, None} \cup {Dict(m @@ f @@ o) : m \in Memcacheds, f \in FileFields, o \in Others}

MCReports ==
  {Dict([mongo |-> Dict([srvstats |-> s, ok |-> Number]), profiling |-> p]) :
     s \in {Dict([ok |-> Number, in |-> Number,
                  network |-> Dict([in |-> Number, ok |-> Number])]),
            Dict([in |-> Number, network |-> List(<<Leaf("in")>>)]),
            Dict([network |-> List(<<Leaf("ok")>>)]), Number},
     p \in {Text, Dict([len |-> Number, ok |-> Number])}}

\* All of these, the fields of a file laid over the default ones, and their parts.
Parts(t) ==
  IF IsDict(t) THEN {t.items[k] : k \in DOMAIN t.items}
  ELSE IF IsList(t) THEN ToSet(t.elements) ELSE {}

Fieldsets ==
  {Dict(f.health_fields.items @@ DefaultFields.items) :
     f \in {g \in FileFields \ {<<>>} : IsDict(g.health_fields)}}

MCNodes ==
  LET within[n \in 0 .. 6] ==
        IF n = 0
        THEN {MCDefaults, Dict(<<>>)} \cup (MCContents \ {NotThere}) \cup MCReports \cup Fieldsets
        ELSE UNION {Parts(t) : t \in within[n - 1]}
  IN  UNION {within[n] : n \in 0 .. 6}

RECURSIVE Nesting(_)
Nesting(t) == Max({0} \cup {Nesting(part) + 1 : part \in Parts(t)})
MCDepth == [t \in MCNodes |-> Nesting(t)]

MCPaths ==
  LET keys == {"memcached", "health_fields", "replicaSet", "mongo", "profiling"}
      inner == {"servers", "timeout", "srvstats", "profiling", "mongo", "ok", "len"}
  IN  {<<k>> : k \in keys} \cup {<<k, i>> : k \in keys, i \in inner}
        \cup {<<k, i, j>> : k \in {"mongo", "health_fields"}, i \in {"srvstats", "mongo"},
                            j \in {"ok", "in", "network", "srvstats"}}
        \cup {<<"mongo", "srvstats", "network", j>> : j \in {"in", "ok"}}
=============================================================================
