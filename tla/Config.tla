------------------------------- MODULE Config -------------------------------
(***************************************************************************)
(* The configuration of RSE, from its files to where it is used: load and  *)
(* merge lay the first file that is found over the defaults, process       *)
(* converts the list of memcached servers in a copy, and filter_dataset    *)
(* cuts each verbose health report down to the keys of health_fields.      *)
(*                                                                         *)
(* All of these walk nested dictionaries.  They are given here as the code *)
(* recurses, and the properties speak of paths: what is found at a path of *)
(* the result is told from what is found at that path of the arguments.    *)
(***************************************************************************)
EXTENDS Naturals, Sequences, SequencesExt

CONSTANTS
  Defaults,    \* the file that comes with the program
  Contents,    \* what may be found where a file is looked for
  Reports,     \* the verbose reports, before they are filtered
  Nodes,       \* the data sets that are merged and filtered, and what is in them
  Depth,       \* how deep a node nests: yaml without anchors on itself
  HostPort,    \* what the texts that hold a colon have before and after it
  Directories, \* how many directories are searched
  Paths        \* the paths the properties look at

\* A node of a data set, tagged with what isinstance tells apart.
Leaf(v) == [kind |-> "leaf", value |-> v]
Dict(items) == [kind |-> "dict", items |-> items]
List(elements) == [kind |-> "list", elements |-> elements]
None == Leaf("None")
Number == Leaf("a number")
Text == Leaf("a text")
NotThere == [kind |-> "not there"]
IsDict(t) == t.kind = "dict"
IsList(t) == t.kind = "list"
IsText(t) == t.kind = "leaf" /\ t \notin {None, Number}
Dicts == {t \in Nodes : IsDict(t)}

\* What splitport makes of a text in memcached:servers.
Pair(host, port) == [kind |-> "pair", host |-> host, port |-> port]

\* What is in a node is a node, and less deep.
IsTree(t) ==
  \/ t.kind = "leaf"
  \/ /\ IsDict(t) /\ t = Dict([k \in DOMAIN t.items |-> t.items[k]])
     /\ \A k \in DOMAIN t.items : t.items[k] \in Nodes /\ Depth[t.items[k]] < Depth[t]
  \/ /\ IsList(t) /\ t = List(t.elements) /\ t.elements \in Seq(Nodes)
     /\ \A i \in DOMAIN t.elements : Depth[t.elements[i]] < Depth[t]

ASSUME NodesAssumption ==
  /\ Depth \in [Nodes -> Nat]
  /\ \A t \in Nodes : IsTree(t)
  /\ {Dict(<<>>), Defaults} \cup Reports \subseteq Dicts
  /\ Contents \subseteq Nodes \cup {NotThere}

ASSUME HostPortAssumption ==
  \A text \in DOMAIN HostPort : HostPort[text].port \in {"number", "two colons", "junk"}

ASSUME BoundsAssumption == Directories \in Nat \ {0} /\ Paths \subseteq Seq(STRING)

VARIABLES
  phase,      \* "search", "merge", "process", "ready", or "failed"
  tried,      \* the directories that were searched
  overrides,  \* the contents of the file that was found
  dataset,    \* what load returns
  conf,       \* what process returns
  report,     \* the last report, and what is left of it when it is filtered
  filtered

vars == <<phase, tried, overrides, dataset, conf, report, filtered>>

TypeOK ==
  /\ phase \in {"search", "merge", "process", "ready", "failed"}
  /\ tried \in 0 .. Directories
  /\ overrides \in Contents \cup {Dict(<<>>)}
  /\ IsDict(dataset)
  /\ phase = "ready" => IsDict(conf)
  /\ report \in Reports \cup {NotThere}
  /\ report # NotThere => filtered.kind \in {"dict", "error"}

Init ==
  /\ phase = "search"
  /\ tried \in 0 .. Directories - 1   \* fewer without $RSE_CONF_DIR, and a path
                                     \* given by the caller is the only one
  /\ overrides = Dict(<<>>)
  /\ dataset = Defaults
  /\ conf = NotThere
  /\ report = NotThere /\ filtered = NotThere
-----------------------------------------------------------------------------
\* --- load and merge -------------------------------------------------------

\* Whether merge descends into a key or takes the override as it is.  (Mutant:
\* it never descends, as dict.update.)
DescendsNever(old, new) == FALSE
Descends(old, new) == IsDict(new) /\ IsDict(old)

\* merge: setdefault gives {} where the data set has nothing.
Default(d, k) == IF k \in DOMAIN d.items THEN d.items[k] ELSE Dict(<<>>)
Laid(merge, d, o) ==
  Dict([k \in DOMAIN d.items \cup DOMAIN o.items |->
          IF k \notin DOMAIN o.items THEN d.items[k]
          ELSE IF Descends(Default(d, k), o.items[k]) THEN merge[<<Default(d, k), o.items[k]>>]
          ELSE o.items[k]])

MergeTrees[pair \in Dicts \X Dicts] == Laid(MergeTrees, pair[1], pair[2])

\* (Mutant: the search goes on beyond the last directory.)
OneMore == tried <= Directories
MoreDirectories == tried < Directories

\* open(path) fails and the search goes on, or the file is taken.
Search ==
  /\ phase = "search" /\ MoreDirectories
  /\ \E found \in Contents :
       IF found = NotThere
       THEN UNCHANGED <<phase, overrides>>
       ELSE phase' = "merge" /\ overrides' = found
  /\ tried' = tried + 1
  /\ UNCHANGED <<dataset, conf, report, filtered>>

\* No file was found: merge is given no overrides.
GiveUp ==
  /\ phase = "search" /\ tried = Directories
  /\ phase' = "merge"
  /\ UNCHANGED <<tried, overrides, dataset, conf, report, filtered>>

\* An empty file is None to yaml, which has no items().
Merge ==
  /\ phase = "merge"
  /\ IF IsDict(overrides)
     THEN dataset' = MergeTrees[<<dataset, overrides>>] /\ phase' = "process"
     ELSE UNCHANGED dataset /\ phase' = "failed"
  /\ UNCHANGED <<tried, overrides, conf, report, filtered>>
-----------------------------------------------------------------------------
\* --- process and convert --------------------------------------------------

Child(t, k) == IF IsDict(t) /\ k \in DOMAIN t.items THEN t.items[k] ELSE NotThere
ServersIn(t) == Child(Child(t, "memcached"), "servers")

\* splitport: what does not split in two at its colons is a host without a
\* port.  (Mutant: only what has no colon is.)
SplitAtColon(text) ==
  IF text \in DOMAIN HostPort THEN Pair(HostPort[text].host, HostPort[text].port)
  ELSE Pair(text, "default")
SplitPort(text) ==
  IF text \in DOMAIN HostPort /\ HostPort[text].port # "two colons"
  THEN Pair(HostPort[text].host, HostPort[text].port)
  ELSE Pair(text, "default")

\* The converter of memcached:servers goes through the letters of a text and the
\* keys of a dictionary.
Converted(servers) ==
  List(IF IsText(servers) THEN <<Pair("a letter", "default")>>
       ELSE IF IsDict(servers)
       THEN LET texts == SetToSeq(DOMAIN servers.items)
            IN  [i \in DOMAIN texts |-> SplitPort(texts[i])]
       ELSE [i \in DOMAIN servers.elements |-> SplitPort(servers.elements[i].value)])

\* KeyError and TypeError leave the value as it is.  Errors that end the start: in
\* a list only texts have a split(), and int() wants digits, of which the letter
\* ":" has none on either side.
IsIgnored(servers) == servers \in {NotThere, None, Number}
IsAddress(text) == SplitPort(text).port # "junk"
IsConvertible(servers) ==
  \/ IsIgnored(servers)
  \/ IsText(servers) /\ servers.value \notin DOMAIN HostPort
  \/ IsDict(servers) /\ \A text \in DOMAIN servers.items : IsAddress(text)
  \/ /\ IsList(servers)
     /\ \A node \in ToSet(servers.elements) : IsText(node) /\ IsAddress(node.value)

Processed(settings) ==
  IF IsIgnored(ServersIn(settings)) THEN settings
  ELSE [settings EXCEPT !.items["memcached"].items["servers"] = Converted(ServersIn(settings))]

\* process converts a deep copy.
Process ==
  /\ phase = "process"
  /\ IF IsConvertible(ServersIn(dataset))
     THEN phase' = "ready" /\ conf' = Processed(dataset)
     ELSE phase' = "failed" /\ UNCHANGED conf
  /\ UNCHANGED <<tried, overrides, dataset, report, filtered>>
-----------------------------------------------------------------------------
\* --- filter_dataset -------------------------------------------------------

Error == [kind |-> "error"]

\* mergedicts, and the entry of a key in it: the last collision wins.  (Mutant:
\* the first one does.)
DictsWith(keys, k) == {i \in DOMAIN keys : IsDict(keys[i]) /\ k \in DOMAIN keys[i].items}
FirstEntry(keys, k) == keys[Min(DictsWith(keys, k))].items[k]
LastEntry(keys, k) == keys[Max(DictsWith(keys, k))].items[k]

\* A text is the list of its letters to "for", and holds no key to "in".
KeyList(keys) == IF IsText(keys) THEN <<Leaf("a letter")>> ELSE keys.elements
Wanted(keys) ==
  {item.value : item \in {i \in ToSet(keys) : IsText(i)}}
    \cup UNION {DOMAIN item.items : item \in {i \in ToSet(keys) : IsDict(i)}}
Found(t, keys) ==
  {k \in Wanted(keys) : IF IsDict(t) THEN k \in DOMAIN t.items
                        ELSE IsList(t) /\ Leaf(k) \in ToSet(t.elements)}

\* KeyError and TypeError go through all the calls.
Whole(entries) ==
  IF \E k \in DOMAIN entries : entries[k] = Error THEN Error ELSE Dict(entries)

\* filter_dataset of a dictionary of keys filters the entries it names, of which
\* none may be missing, and keeps the others.
FilterEach(filter, t, keys) ==
  IF DOMAIN keys.items = {} THEN t
  ELSE IF IsDict(t) /\ DOMAIN keys.items \subseteq DOMAIN t.items
  THEN Whole([k \in DOMAIN t.items |->
                IF k \in DOMAIN keys.items THEN filter[<<t.items[k], keys.items[k]>>]
                                           ELSE t.items[k]])
  ELSE Error

\* That of a list keeps what it names and, by the dictionaries in it, part of the
\* rest; nothing can be looked for in None or a number, nor taken from a list.
FilterNamed(filter, t, keys) ==
  IF Wanted(keys) = {} THEN Dict(<<>>)
  ELSE IF IsDict(t)
  THEN Whole([k \in Found(t, keys) |->
                IF DictsWith(keys, k) # {} THEN filter[<<t.items[k], LastEntry(keys, k)>>]
                                           ELSE t.items[k]])
  ELSE IF t \in {None, Number} \/ Found(t, keys) # {} THEN Error
  ELSE Dict(<<>>)

Filtered(filter, t, keys) ==
  IF IsDict(keys) THEN FilterEach(filter, t, keys)
  ELSE IF IsList(keys) \/ IsText(keys) THEN FilterNamed(filter, t, KeyList(keys))
  ELSE Error

Filter[pair \in Nodes \X Nodes] == Filtered(Filter, pair[1], pair[2])

Fields(settings) == Child(settings, "health_fields")

\* The fields a file leaves are nodes too.
ASSUME FieldsAssumption ==
  \A o \in Contents \cup {Dict(<<>>)} :
    IsDict(o) => Fields(MergeTrees[<<Defaults, o>>]) \in Nodes

\* The last step of a verbose health report.
Report ==
  /\ phase = "ready"
  /\ \E r \in Reports :
       report' = r /\ filtered' = Filter[<<r, Fields(conf)>>]
  /\ UNCHANGED <<phase, tried, overrides, dataset, conf>>

Next == Search \/ GiveUp \/ Merge \/ Process \/ Report

Spec == Init /\ [][Next]_vars
-----------------------------------------------------------------------------
\* --- properties -----------------------------------------------------------

\* The nodes along a path, and what is found at its end: a leaf or a list, or only
\* that it is a dictionary.
Trail(t, path) ==
  LET node[n \in 0 .. Len(path)] == IF n = 0 THEN t ELSE Child(node[n - 1], path[n])
  IN  node
Seen(t) == IF IsDict(t) THEN [kind |-> "dict"] ELSE t
At(t, path) == Seen(Trail(t, path)[Len(path)])

\* At every path the loaded settings have what the file has there, and where it
\* has nothing what the defaults have, unless the file has put something else
\* than a dictionary further up: a file need not repeat what it does not change,
\* and may replace a subtree (merge).
OverridesWin ==
  phase \in {"process", "ready"} =>
    \A path \in Paths :
      LET over == Trail(overrides, path)
      IN  At(dataset, path) =
            IF over[Len(path)] # NotThere THEN At(overrides, path)
            ELSE IF \E n \in 0 .. Len(path) - 1 : over[n] # NotThere /\ ~IsDict(over[n])
            THEN NotThere
            ELSE At(Defaults, path)

\* The application has each server with a host and a port, the default one or
\* the number that was given, and everything else as it was loaded (process,
\* convert, splitport).
OnlyServersConverted ==
  phase = "ready" =>
    /\ \A path \in Paths :
         Len(path) < 2 \/ path[1] # "memcached" \/ path[2] # "servers"
           => At(conf, path) = At(dataset, path)
    /\ IsList(ServersIn(dataset)) =>
         LET given == ServersIn(dataset).elements
             nodes == ServersIn(conf).elements
         IN  /\ Len(nodes) = Len(given)
             /\ \A i \in DOMAIN given :
                  LET text == given[i].value
                  IN  nodes[i] = IF text \in DOMAIN HostPort /\ HostPort[text].port = "number"
                                 THEN Pair(HostPort[text].host, "number")
                                 ELSE Pair(text, "default")

\* What keys let through below an entry: all of it, none, or what other keys say.
Everything == [kind |-> "everything"]
Nothing == [kind |-> "nothing"]
Narrowed(keys, k) ==
  IF keys \in {Everything, Nothing} THEN keys
  ELSE IF IsDict(keys) THEN IF k \in DOMAIN keys.items THEN keys.items[k] ELSE Everything
  ELSE IF ~(IsList(keys) \/ IsText(keys)) \/ k \notin Wanted(KeyList(keys)) THEN Nothing
  ELSE IF DictsWith(KeyList(keys), k) = {} THEN Everything
  ELSE KeyList(keys)[Max(DictsWith(KeyList(keys), k))].items[k]

KeyTrail(keys, path) ==
  LET left[n \in 0 .. Len(path)] == IF n = 0 THEN keys ELSE Narrowed(left[n - 1], path[n])
  IN  left
Passes(keys, path) == KeyTrail(keys, path)[Len(path)] # Nothing

\* A verbose report keeps exactly what health_fields lets through: at each path
\* what was there, or that and nothing else is gone; only what is no dictionary
\* may come out as an empty one, by a list of keys (filter_dataset, mergedicts).
FilterKeepsFields ==
  phase = "ready" /\ report # NotThere /\ filtered # Error =>
    \A path \in Paths :
      IF ~Passes(Fields(conf), path) THEN At(filtered, path) = NotThere
      ELSE \/ At(filtered, path) = At(report, path)
           \/ /\ At(report, path).kind \in {"leaf", "list"}
              /\ Trail(filtered, path)[Len(path)] = Dict(<<>>)
=============================================================================
