------------------------------- MODULE Market -------------------------------
(***************************************************************************)
(* The market of plugins (plugins/market.py, api/plugins.py) and the tool  *)
(* registries that its plugins are put into (loader.py, ws.py, arqs.py).   *)
(*                                                                         *)
(* Each process keeps the market in memory, reads market.json when it      *)
(* first needs it, and writes the whole of it back with every change.  The *)
(* API processes do what requests ask for; a worker only reads.            *)
(*                                                                         *)
(* Simplifications, by name.                                               *)
(*  - A write of market.json is one step: two processes that write at the  *)
(*    same time share one temporary name, and one of them fails.           *)
(*  - A process has one registry at a time: a worker's, or the registry of *)
(*    one run in an API process.                                           *)
(*  - A plugin has passed the gate, and the switches of plugins are on.    *)
(***************************************************************************)
CONSTANTS
  Plugin,       \* ids of plugins
  Author,       \* the author of them all
  Server,       \* API processes
  Agent         \* worker processes

Process == Server \cup Agent
Key == Plugin \cup {Author}

VARIABLES
  file,    \* market.json
  loaded,  \* processes that have read it
  memory,  \* _market of each of them
  tools,   \* the plugins in the registry a process works with
  alive    \* processes that work with a registry

marketVars == <<file, loaded, memory, tools, alive>>

Status == {"absent", "active", "delisted", "blacklisted"}
Entry == [status : Status, installed : BOOLEAN, enabled : BOOLEAN]
Absent == [status |-> "absent", installed |-> FALSE, enabled |-> FALSE]
Content == [plugins : [Plugin -> Entry], black : SUBSET Key]
Empty == [plugins |-> [i \in Plugin |-> Absent], black |-> {}]

MarketTypeOK ==
  /\ file \in Content /\ memory \in [Process -> Content] /\ loaded \subseteq Process
  /\ tools \in [Process -> SUBSET Plugin] /\ alive \subseteq Process

MarketInit ==
  /\ file = Empty /\ loaded = {} /\ memory = [p \in Process |-> Empty]
  /\ tools = [p \in Process |-> {}] /\ alive = {}

-----------------------------------------------------------------------------
\* get_market: the file is read once, when the process first asks.
Loaded(p) == IF p \in loaded THEN memory[p] ELSE file
\* A change in memory, and the file with it.
Saves(p, m) ==
  /\ loaded' = loaded \cup {p} /\ memory' = [memory EXCEPT ![p] = m] /\ file' = m
  /\ UNCHANGED <<tools, alive>>
\* An entry as it is once it is neither installed nor enabled.
Off(status) == [status |-> status, installed |-> FALSE, enabled |-> FALSE]

Listed(m, i) == m.plugins[i].status # "absent"
\* A key names a plugin by its id or by its author.
Names(k, i) == k \in {i, Author}
Blacklisted(m, i) == \E k \in m.black : Names(k, i)

\* Mutant: the status alone decides.
InstallableByStatus(m, i) == m.plugins[i].status = "active"
\* install: active, and neither the plugin nor its author on the blacklist.
Installable(m, i) == m.plugins[i].status = "active" /\ ~Blacklisted(m, i)

\* With force an entry is replaced, whatever became of the one before.
Publish(p, i) ==
  LET m == Loaded(p) IN
  \E force \in BOOLEAN :
    /\ Listed(m, i) => force
    /\ Saves(p, [m EXCEPT !.plugins[i] = Off("active")])
Delist(p, i) ==
  LET m == Loaded(p) IN Listed(m, i) /\ Saves(p, [m EXCEPT !.plugins[i] = Off("delisted")])
Blacklist(p, k) ==
  LET m == Loaded(p) IN
  Saves(p, [plugins |-> [i \in Plugin |-> IF Listed(m, i) /\ Names(k, i)
                                            THEN Off("blacklisted") ELSE m.plugins[i]],
            black |-> m.black \cup {k}])
\* What the key had blacklisted is active again, even if another key still names it.
Unblacklist(p, k) ==
  LET m == Loaded(p)
      freed == {i \in Plugin : m.plugins[i].status = "blacklisted" /\ Names(k, i)} IN
  /\ k \in m.black
  /\ Saves(p, [plugins |-> [i \in Plugin |-> [m.plugins[i] EXCEPT !.status = IF i \in freed THEN "active" ELSE @]],
               black |-> m.black \ {k}])
Install(p, i) ==
  LET m == Loaded(p) IN
  /\ Installable(m, i)
  /\ Saves(p, [m EXCEPT !.plugins[i] = [status |-> "active", installed |-> TRUE, enabled |-> TRUE]])
Uninstall(p, i) ==
  LET m == Loaded(p) IN
  Listed(m, i) /\ Saves(p, [m EXCEPT !.plugins[i] = Off(@.status)])
SetEnabled(p, i, on) ==
  LET m == Loaded(p) IN
  m.plugins[i].installed /\ Saves(p, [m EXCEPT !.plugins[i].enabled = on])

-----------------------------------------------------------------------------
\* sync_registry
Enabled(m) == {i \in Plugin : m.plugins[i].installed /\ m.plugins[i].enabled}
\* A run in an API process, or a worker at its start, fills a registry of its own; a plugin that
\* cannot be loaded ends the filling, and the ones before it stay.
Fill(p) ==
  /\ p \notin alive /\ alive' = alive \cup {p}
  /\ loaded' = loaded \cup {p} /\ memory' = [memory EXCEPT ![p] = Loaded(p)]
  /\ \E got \in SUBSET Enabled(Loaded(p)) : tools' = [tools EXCEPT ![p] = got]
  /\ UNCHANGED file
\* The run of an API process ends.
Drop(p) ==
  /\ p \in alive \cap Server /\ alive' = alive \ {p}
  /\ tools' = [tools EXCEPT ![p] = {}] /\ UNCHANGED <<file, loaded, memory>>
Reboot(p) ==
  /\ alive' = alive \ {p} /\ tools' = [tools EXCEPT ![p] = {}]
  /\ loaded' = loaded \ {p} /\ memory' = [memory EXCEPT ![p] = Empty] /\ UNCHANGED file

MarketNext ==
  \/ \E p \in Process : Fill(p) \/ Drop(p) \/ Reboot(p)
  \/ \E p \in Server :
       \/ \E i \in Plugin :
            \/ Publish(p, i) \/ Delist(p, i) \/ Install(p, i) \/ Uninstall(p, i)
            \/ \E on \in BOOLEAN : SetEnabled(p, i, on)
       \/ \E k \in Key : Blacklist(p, k) \/ Unblacklist(p, k)
MarketSpec == MarketInit /\ [][MarketNext]_marketVars

-----------------------------------------------------------------------------
AllOff(m) ==
  \A i \in Plugin : Blacklisted(m, i) => ~m.plugins[i].installed /\ ~m.plugins[i].enabled

\* In every process, and in the file, a plugin that is named on the blacklist, by its id or by its
\* author, is neither installed nor enabled: no order of publishing, blacklisting, taking off the
\* list and installing leaves one in use; and no registry is filled with one that its process
\* knows to be blacklisted.  (PluginMarket.blacklist, unblacklist, publish, install, sync_registry)
BlacklistedIsOff ==
  /\ [](\A m \in {file} \cup {Loaded(p) : p \in Process} : AllOff(m))
  /\ [][\A p \in Process : \A i \in tools'[p] \ tools[p] : ~Blacklisted(memory'[p], i)]_marketVars
=============================================================================
