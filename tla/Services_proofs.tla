--------------------------- MODULE Services_proofs ---------------------------
(***************************************************************************)
(* Proofs about the background services and the work around the agents:    *)
(* the market of plugins, the registry of instances, the review of a       *)
(* node's text, the batches of parallel parts, the runs in a process and   *)
(* their pools, alerts and thaw jobs; and all of them side by side.        *)
(***************************************************************************)
EXTENDS MCServices, SequenceTheorems, FiniteSetTheorems, TLAPS

-----------------------------------------------------------------------------
(* The market of plugins *)

\* A market has every blacklisted plugin off, and everything that was never published: blacklisting
\* a key touches only entries that are listed.
Sound(m) ==
  /\ m \in Content /\ AllOff(m)
  /\ \A i \in Plugin : ~Listed(m, i) => ~m.plugins[i].installed /\ ~m.plugins[i].enabled

\* The file and what each process remembers of it are sound.
MarketIInv == MarketTypeOK /\ Sound(file) /\ \A p \in Process : Sound(memory[p])

\* An entry that is off is an entry.
LEMMA OffTyped ==
  ASSUME NEW status \in Status
  PROVE  Off(status) \in Entry
BY DEF Off, Entry

LEMMA EmptySound == Sound(Empty)
<1>1. Absent \in Entry
  BY DEF Absent, Entry, Status
<1> QED BY <1>1 DEF Empty, Absent, Content, Sound, AllOff, Blacklisted

\* What a process works with is the file or its memory.
LEMMA LoadedKnown ==
  ASSUME MarketIInv, NEW p \in Process
  PROVE  Sound(Loaded(p))
BY DEF MarketIInv, Loaded

\* One entry of a market is replaced by one that is off, or installed where the blacklist allows.
LEMMA EntryReplaced ==
  ASSUME NEW m, Sound(m), NEW i \in Plugin, NEW e \in Entry,
         Blacklisted(m, i) \/ e.status = "absent" => ~e.installed /\ ~e.enabled
  PROVE  Sound([m EXCEPT !.plugins[i] = e])
<1> DEFINE n == [m EXCEPT !.plugins[i] = e]
<1>1. m \in Content /\ m.plugins \in [Plugin -> Entry] /\ m.black \in SUBSET Key
  BY DEF Sound, Content
<1>2. n.plugins = [m.plugins EXCEPT ![i] = e] /\ n.black = m.black /\ n \in Content
  BY <1>1 DEF Content
<1>3. \A j \in Plugin : Blacklisted(n, j) <=> Blacklisted(m, j)
  BY <1>2 DEF Blacklisted
<1>4. \A j \in Plugin : n.plugins[j] = IF j = i THEN e ELSE m.plugins[j]
  BY <1>1, <1>2
<1> QED BY <1>2, <1>3, <1>4 DEF Sound, AllOff, Listed

LEMMA SavesKeeps ==
  ASSUME MarketIInv, NEW p \in Process, NEW m, Sound(m), Saves(p, m)
  PROVE  MarketIInv'
<1>1. file' \in Content /\ memory' \in [Process -> Content] /\ loaded' \subseteq Process
  BY DEF MarketIInv, MarketTypeOK, Saves, Sound
<1>2. MarketTypeOK'
  BY <1>1 DEF MarketIInv, MarketTypeOK, Saves
<1>3. \A q \in Process : memory'[q] = IF q = p THEN m ELSE memory[q]
  BY DEF MarketIInv, MarketTypeOK, Saves
<1>4. Sound(file') /\ \A q \in Process : Sound(memory'[q])
  BY <1>3 DEF MarketIInv, Saves
<1> QED BY <1>2, <1>4 DEF MarketIInv

\* The requests: publish, delist, install, uninstall, and the two switches of an entry.
LEMMA EntryRequestKeeps ==
  ASSUME MarketIInv, NEW p \in Server, NEW i \in Plugin,
         \/ Publish(p, i) \/ Delist(p, i) \/ Install(p, i) \/ Uninstall(p, i)
         \/ \E on \in BOOLEAN : SetEnabled(p, i, on)
  PROVE  MarketIInv'
<1> DEFINE m == Loaded(p)
<1>1. p \in Process /\ Sound(m) /\ m \in Content
  BY LoadedKnown DEF Process, Sound
<1>2. m.plugins[i] \in Entry
  BY <1>1 DEF Content
<1>3. SUFFICES ASSUME NEW e \in Entry,
                      Blacklisted(m, i) \/ e.status = "absent" => ~e.installed /\ ~e.enabled,
                      Saves(p, [m EXCEPT !.plugins[i] = e])
               PROVE  MarketIInv'
  <2>1. CASE Publish(p, i)
    BY <2>1, <1>3, OffTyped DEF Publish, Off, Status
  <2>2. CASE Delist(p, i)
    BY <2>2, <1>3, OffTyped DEF Delist, Off, Status
  <2>3. CASE Install(p, i)
    <3>1. [status |-> "active", installed |-> TRUE, enabled |-> TRUE] \in Entry
      BY DEF Entry, Status
    <3> QED BY <2>3, <3>1, <1>3 DEF Install, Installable
  <2>4. CASE Uninstall(p, i)
    <3>1. [m EXCEPT !.plugins[i] = Off(@.status)] = [m EXCEPT !.plugins[i] = Off(m.plugins[i].status)]
      BY <1>1 DEF Content
    <3>2. Off(m.plugins[i].status) \in Entry
      BY <1>2, OffTyped DEF Entry
    <3>3. ~Off(m.plugins[i].status).installed /\ ~Off(m.plugins[i].status).enabled
      BY DEF Off
    <3> QED BY <2>4, <3>1, <3>2, <3>3, <1>3 DEF Uninstall
  <2>5. ASSUME NEW on \in BOOLEAN, SetEnabled(p, i, on)
        PROVE  MarketIInv'
    <3> DEFINE e == [m.plugins[i] EXCEPT !.enabled = on]
    <3>1. [m EXCEPT !.plugins[i].enabled = on] = [m EXCEPT !.plugins[i] = e]
      BY <1>1 DEF Content
    <3>2. e \in Entry
      BY <1>2 DEF Entry
    <3>3. ~Blacklisted(m, i) /\ e.status # "absent"
      BY <2>5, <1>1, <1>2 DEF SetEnabled, Sound, AllOff, Listed, Entry
    <3> QED BY <2>5, <3>1, <3>2, <3>3, <1>3 DEF SetEnabled
  <2> QED BY <2>1, <2>2, <2>3, <2>4, <2>5
<1> QED BY <1>1, <1>3, EntryReplaced, SavesKeeps

LEMMA BlacklistKeeps ==
  ASSUME MarketIInv, NEW p \in Server, NEW k \in Key, Blacklist(p, k)
  PROVE  MarketIInv'
<1> DEFINE m == Loaded(p)
           n == [plugins |-> [i \in Plugin |-> IF Listed(m, i) /\ Names(k, i)
                                                 THEN Off("blacklisted") ELSE m.plugins[i]],
                 black |-> m.black \cup {k}]
<1>1. p \in Process /\ Sound(m) /\ m \in Content
  BY LoadedKnown DEF Process, Sound
<1>2. n \in Content
  BY <1>1, OffTyped DEF Content, Status
<1>3. \A i \in Plugin : n.plugins[i] = IF Listed(m, i) /\ Names(k, i) THEN Off("blacklisted")
                                       ELSE m.plugins[i]
  OBVIOUS
<1>4. AllOff(n)
  <2>1. SUFFICES ASSUME NEW i \in Plugin, Blacklisted(n, i)
                 PROVE  ~n.plugins[i].installed /\ ~n.plugins[i].enabled
    BY DEF AllOff
  <2>2. CASE Listed(m, i) /\ Names(k, i)
    BY <2>2, <1>3 DEF Off
  <2>3. CASE Names(k, i) /\ ~Listed(m, i)
    BY <2>3, <1>1, <1>3 DEF Sound
  <2>4. CASE ~Names(k, i)
    BY <2>1, <2>4, <1>1, <1>3 DEF Blacklisted, Sound, AllOff
  <2> QED BY <2>2, <2>3, <2>4
<1>5. Sound(n)
  <2>1. \A i \in Plugin : ~Listed(n, i) => ~Listed(m, i) /\ n.plugins[i] = m.plugins[i]
    BY <1>3 DEF Listed, Off
  <2> QED BY <2>1, <1>1, <1>2, <1>4 DEF Sound
<1> QED BY <1>1, <1>5, SavesKeeps DEF Blacklist

LEMMA UnblacklistKeeps ==
  ASSUME MarketIInv, NEW p \in Server, NEW k \in Key, Unblacklist(p, k)
  PROVE  MarketIInv'
<1> DEFINE m == Loaded(p)
           freed == {i \in Plugin : m.plugins[i].status = "blacklisted" /\ Names(k, i)}
           freedEntry(i) == [m.plugins[i] EXCEPT !.status = IF i \in freed THEN "active" ELSE @]
           n == [plugins |-> [i \in Plugin |-> freedEntry(i)], black |-> m.black \ {k}]
<1>1. p \in Process /\ Sound(m) /\ m \in Content
  BY LoadedKnown DEF Process, Sound
<1>2. ASSUME NEW i \in Plugin
      PROVE  /\ m.plugins[i] \in Entry /\ freedEntry(i) \in Entry
             /\ freedEntry(i).installed = m.plugins[i].installed
             /\ freedEntry(i).enabled = m.plugins[i].enabled
             /\ freedEntry(i).status = "absent" => m.plugins[i].status = "absent"
  BY <1>1 DEF Content, Entry, Status
<1>3. n \in Content /\ \A i \in Plugin : n.plugins[i] = freedEntry(i)
  BY <1>1, <1>2 DEF Content
<1>4. \A i \in Plugin : Blacklisted(n, i) => Blacklisted(m, i)
  BY DEF Blacklisted
<1>5. \A i \in Plugin : ~Listed(n, i) => ~Listed(m, i)
  BY <1>2, <1>3 DEF Listed
<1>6. Sound(n)
  BY <1>1, <1>2, <1>3, <1>4, <1>5 DEF Sound, AllOff
<1> QED BY <1>1, <1>6, SavesKeeps DEF Unblacklist

\* A registry is filled, given up, or lost with its process.
LEMMA RegistryStepKeeps ==
  ASSUME MarketIInv, NEW p \in Process, Fill(p) \/ Drop(p) \/ Reboot(p)
  PROVE  MarketIInv'
<1>1. Sound(Loaded(p)) /\ Sound(Empty) /\ Enabled(Loaded(p)) \subseteq Plugin
  BY LoadedKnown, EmptySound DEF Enabled
<1>2. memory' = memory \/ \E m : Sound(m) /\ memory' = [memory EXCEPT ![p] = m]
  BY <1>1 DEF Fill, Drop, Reboot
<1>3. memory' \in [Process -> Content] /\ \A q \in Process : Sound(memory'[q])
  BY <1>2 DEF MarketIInv, MarketTypeOK, Sound
<1>4. tools' \in [Process -> SUBSET Plugin]
  BY <1>1 DEF Fill, Drop, Reboot, MarketIInv, MarketTypeOK
<1>5. file' = file /\ loaded' \subseteq Process /\ alive' \subseteq Process
  BY DEF Fill, Drop, Reboot, MarketIInv, MarketTypeOK
<1> QED BY <1>3, <1>4, <1>5 DEF MarketIInv, MarketTypeOK

LEMMA MarketInitInv ==
  ASSUME MarketInit
  PROVE  MarketIInv
BY EmptySound DEF MarketInit, MarketIInv, MarketTypeOK, Sound

LEMMA MarketStepInv ==
  ASSUME MarketIInv, [MarketNext]_marketVars
  PROVE  MarketIInv'
<1>1. CASE \E p \in Process : Fill(p) \/ Drop(p) \/ Reboot(p)
  BY <1>1, RegistryStepKeeps
<1>2. ASSUME NEW p \in Server, NEW i \in Plugin,
             \/ Publish(p, i) \/ Delist(p, i) \/ Install(p, i) \/ Uninstall(p, i)
             \/ \E on \in BOOLEAN : SetEnabled(p, i, on)
      PROVE  MarketIInv'
  BY <1>2, EntryRequestKeeps
<1>3. ASSUME NEW p \in Server, NEW k \in Key, Blacklist(p, k) \/ Unblacklist(p, k)
      PROVE  MarketIInv'
  BY <1>3, BlacklistKeeps, UnblacklistKeeps
<1>4. CASE UNCHANGED marketVars
  BY <1>4 DEF marketVars, MarketIInv, MarketTypeOK
<1> QED BY <1>1, <1>2, <1>3, <1>4 DEF MarketNext

\* What a registry gains is not on the blacklist its process knows.
LEMMA GainsAllowed ==
  ASSUME MarketIInv, [MarketNext]_marketVars,
         NEW p \in Process, NEW i \in tools'[p] \ tools[p]
  PROVE  ~Blacklisted(memory'[p], i)
<1>1. PICK q \in Process : Fill(q) \/ Drop(q) \/ Reboot(q)
  BY DEF MarketNext, marketVars, Publish, Delist, Install, Uninstall, SetEnabled,
         Blacklist, Unblacklist, Saves
<1>2. tools \in [Process -> SUBSET Plugin] /\ memory \in [Process -> Content]
  BY DEF MarketIInv, MarketTypeOK
<1>3. q = p /\ Fill(p)
  BY <1>1, <1>2 DEF Fill, Drop, Reboot
<1>4. i \in Enabled(Loaded(p)) /\ memory'[p] = Loaded(p)
  BY <1>2, <1>3 DEF Fill
<1> QED BY <1>4, LoadedKnown DEF Enabled, Sound, AllOff

\* Whatever plugins, processes and keys there are, every state keeps the types of the market, in the
\* file and in every process's memory.  (PluginMarket)
THEOREM MarketTypeCorrect == MarketSpec => []MarketTypeOK
<1>1. MarketSpec => []MarketIInv
  BY MarketInitInv, MarketStepInv, PTL DEF MarketSpec
<1> QED BY <1>1, PTL DEF MarketIInv

\* No order of publishing, blacklisting, taking off the list, installing and switching, in any number
\* of processes with memories of their own, leaves a plugin in use that the blacklist names, or puts one
\* in a registry.  (PluginMarket.blacklist, unblacklist, publish, install, sync_registry)
THEOREM BlacklistRespected == MarketSpec => BlacklistedIsOff
<1>1. MarketIInv => \A m \in {file} \cup {Loaded(p) : p \in Process} : AllOff(m)
  BY LoadedKnown DEF MarketIInv, Sound
<1>2. ASSUME MarketIInv, [MarketNext]_marketVars
      PROVE  [\A p \in Process : \A i \in tools'[p] \ tools[p] : ~Blacklisted(memory'[p], i)]_marketVars
  BY <1>2, GainsAllowed
<1>3. MarketSpec => []MarketIInv
  BY MarketInitInv, MarketStepInv, PTL DEF MarketSpec
<1> QED BY <1>1, <1>2, <1>3, PTL DEF MarketSpec, BlacklistedIsOff

-----------------------------------------------------------------------------
(* The registry of instances *)

\* Heartbeats that have come and gone for a ticker since its entry was last given its whole life:
\* those it has missed, and the one it is due.
Spent(p) == silent[p] + (IF p \in due THEN 1 ELSE 0)
\* An entry has lost no more of its life than that, and its ticker has not missed two in a row.
Kept(p) == silent[p] <= 1 /\ listed[NameOf(p)] + Spent(p) >= Lifetime
InstanceIInv == InstanceTypeOK /\ \A p \in ticking \ gone : Kept(p)

LEMMA NameTyped ==
  ASSUME InstanceTypeOK, NEW p \in Member
  PROVE  NameOf(p) \in Name
<1>1. Common \in Member
  BY DEF Common
<1> QED BY <1>1, InstanceBounds DEF InstanceTypeOK, NameOf, Name

\* A process keeps its name as long as it is not started again.
LEMMA SameName ==
  ASSUME InstanceTypeOK, NEW p \in Member, naming' = naming, starts'[p] = starts[p]
  PROVE  NameOf(p)' = NameOf(p)
BY DEF NameOf

LEMMA StartsTyped ==
  ASSUME InstanceTypeOK, NEW p \in Member, Starts(p)
  PROVE  /\ starts' \in [Member -> 0 .. MaxStarts] /\ NameOf(p)' \in Name
         /\ \A q \in Member \ {p} : NameOf(q)' = NameOf(q)
         /\ p \notin ticking /\ p \notin due
         /\ silent' = [silent EXCEPT ![p] = 0] /\ silent' \in [Member -> 0 .. Lifetime]
         /\ up' \subseteq Member /\ up \subseteq up' /\ p \in up' /\ gone' = gone \ {p}
         /\ naming' = naming
<1>1. starts' = [starts EXCEPT ![p] = starts[p] + 1] /\ starts[p] < MaxStarts /\ starts[p] \in 0 .. MaxStarts
  BY DEF Starts, InstanceTypeOK
<1>2. starts' \in [Member -> 0 .. MaxStarts]
  BY <1>1, InstanceBounds DEF InstanceTypeOK
<1>3. naming' = naming /\ naming' \in {"own", "shared", "random"}
  BY DEF Starts, InstanceTypeOK
<1>4. NameOf(p)' \in Name
  <2>1. Common \in Member
    BY DEF Common
  <2> QED BY <1>2, <1>3, <2>1, InstanceBounds DEF NameOf, Name
<1>5. \A q \in Member \ {p} : NameOf(q)' = NameOf(q)
  BY <1>1, <1>3, SameName DEF InstanceTypeOK
<1> QED BY <1>2, <1>3, <1>4, <1>5 DEF Starts, InstanceTypeOK, Lifetime

LEMMA BeatFaultTyped ==
  ASSUME InstanceTypeOK, BeatFault
  PROVE  beatFaults' \in 0 .. MaxBeatFaults
BY InstanceBounds DEF InstanceTypeOK, BeatFault

LEMMA RegisterKeeps ==
  ASSUME InstanceIInv, NEW p \in Member, Register(p)
  PROVE  InstanceIInv'
<1> DEFINE n == NameOf(p)'
<1>1. InstanceTypeOK /\ Starts(p)
  BY DEF InstanceIInv, Register
<1>2. listed' = [listed EXCEPT ![n] = Lifetime] /\ n \in Name /\ listed \in [Name -> 0 .. Lifetime]
  BY <1>1, StartsTyped DEF Register, EntryLife, InstanceTypeOK
<1>3. listed' \in [Name -> 0 .. Lifetime] /\ \A m \in Name : listed'[m] >= listed[m]
  BY <1>2 DEF Lifetime
<1>4. InstanceTypeOK'
  BY <1>1, <1>3, StartsTyped DEF Register, InstanceTypeOK
<1>5. Kept(p)'
  BY <1>1, <1>2, StartsTyped DEF Register, Kept, Spent, Lifetime, InstanceTypeOK
<1>6. ASSUME NEW q \in ticking' \ gone', q # p
      PROVE  Kept(q)'
  <2>1. q \in ticking \ gone /\ q \in Member /\ Kept(q)
    BY <1>1, <1>6, StartsTyped DEF Register, InstanceIInv, InstanceTypeOK
  <2>2. NameOf(q)' = NameOf(q) /\ NameOf(q) \in Name /\ silent'[q] = silent[q] /\ due' = due
    BY <1>1, <1>6, <2>1, StartsTyped, NameTyped DEF Register, InstanceTypeOK
  <2>3. listed'[NameOf(q)] >= listed[NameOf(q)] /\ listed'[NameOf(q)] \in Nat /\ listed[NameOf(q)] \in Nat
    BY <1>2, <1>3, <2>2 DEF Lifetime
  <2>4. silent[q] \in Nat
    BY <1>1, <2>1 DEF InstanceTypeOK, Lifetime
  <2> QED BY <2>1, <2>2, <2>3, <2>4 DEF Kept, Spent, Lifetime
<1> QED BY <1>4, <1>5, <1>6 DEF InstanceIInv

LEMMA RefusedKeeps ==
  ASSUME InstanceIInv, NEW p \in Member, Refused(p)
  PROVE  InstanceIInv'
<1>1. InstanceTypeOK /\ Starts(p)
  BY DEF InstanceIInv, Refused
<1>2. beatFaults' \in 0 .. MaxBeatFaults
  BY <1>1, BeatFaultTyped DEF Refused, InstanceTypeOK
<1>3. InstanceTypeOK'
  BY <1>1, <1>2, StartsTyped DEF Refused, InstanceTypeOK
<1>4. ASSUME NEW q \in ticking' \ gone'
      PROVE  Kept(q)'
  <2>1. q \in ticking \ gone /\ q \in Member \ {p} /\ Kept(q)
    BY <1>1, <1>4, StartsTyped DEF Refused, InstanceIInv, InstanceTypeOK
  <2>2. NameOf(q)' = NameOf(q) /\ silent'[q] = silent[q] /\ due' = due /\ listed' = listed
    BY <1>1, <2>1, StartsTyped DEF Refused, InstanceTypeOK
  <2> QED BY <2>1, <2>2 DEF Kept, Spent
<1> QED BY <1>3, <1>4 DEF InstanceIInv

\* A heartbeat, made or missed, of one ticker; the names stay.
LEMMA BeatKeeps ==
  ASSUME InstanceIInv, NEW p \in Member, Beat(p) \/ BeatFails(p)
  PROVE  InstanceIInv'
<1>1. InstanceTypeOK /\ p \in due /\ p \in ticking /\ due' = due \ {p} /\ ticking' = ticking
      /\ \A q \in Member : NameOf(q)' = NameOf(q)
  BY SameName DEF InstanceIInv, InstanceTypeOK, Beat, BeatFails
<1>2. /\ listed' \in [Name -> 0 .. Lifetime] /\ \A m \in Name : listed'[m] >= listed[m]
      /\ silent' \in [Member -> 0 .. Lifetime] /\ \A q \in Member \ {p} : silent'[q] = silent[q]
      /\ gone' \subseteq Member /\ gone \subseteq gone'
  <2>1. CASE Beat(p)
    <3>1. NameOf(p) \in Name /\ listed \in [Name -> 0 .. Lifetime]
      BY <1>1, NameTyped DEF InstanceTypeOK
    <3> QED BY <1>1, <2>1, <3>1 DEF Beat, InstanceTypeOK, EntryLife, Lifetime
  <2>2. CASE BeatFails(p)
    <3>1. listed' = listed /\ listed \in [Name -> 0 .. Lifetime]
      BY <1>1, <2>2 DEF BeatFails, InstanceTypeOK
    <3> QED BY <1>1, <2>2, <3>1 DEF BeatFails, InstanceTypeOK, Lifetime
  <2> QED BY <2>1, <2>2
<1>3. beatFaults' \in 0 .. MaxBeatFaults /\ naming' = naming /\ up' = up /\ starts' = starts
  BY <1>1, BeatFaultTyped DEF Beat, BeatFails, InstanceTypeOK
<1>4. InstanceTypeOK'
  BY <1>1, <1>2, <1>3 DEF InstanceTypeOK
<1>5. ASSUME NEW q \in ticking' \ gone'
      PROVE  Kept(q)'
  <2>1. q \in ticking \ gone /\ q \in Member /\ Kept(q) /\ NameOf(q) \in Name /\ NameOf(q)' = NameOf(q)
    BY <1>1, <1>2, <1>5, NameTyped DEF InstanceIInv, InstanceTypeOK
  <2>2. /\ listed[NameOf(q)] \in 0 .. Lifetime /\ listed'[NameOf(q)] \in 0 .. Lifetime
        /\ listed'[NameOf(q)] >= listed[NameOf(q)] /\ silent[q] \in 0 .. Lifetime
    BY <1>1, <1>2, <2>1 DEF InstanceTypeOK
  <2>3. CASE q # p
    BY <1>1, <1>2, <2>1, <2>2, <2>3 DEF Kept, Spent, Lifetime
  <2>4. CASE q = p /\ Beat(p)
    <3>1. listed[NameOf(p)] > 0
      BY <1>1, <2>1, <2>2, <2>4 DEF Kept, Spent, Lifetime
    <3>2. listed'[NameOf(p)] = Lifetime /\ silent'[p] = 0
      BY <1>1, <2>1, <2>4, <3>1 DEF Beat, InstanceTypeOK, EntryLife
    <3> QED BY <1>1, <2>1, <2>4, <3>2 DEF Kept, Spent, Lifetime
  <2>5. CASE q = p /\ BeatFails(p)
    <3>1. silent'[p] = silent[p] + 1 /\ listed' = listed /\ silent[p] = 0
      BY <1>1, <1>5, <2>1, <2>2, <2>5 DEF BeatFails, InstanceTypeOK, Kept, Lifetime
    <3> QED BY <1>1, <2>1, <2>2, <2>5, <3>1 DEF Kept, Spent, Lifetime
  <2> QED BY <2>3, <2>4, <2>5
<1> QED BY <1>4, <1>5 DEF InstanceIInv

LEMMA PeriodKeeps ==
  ASSUME InstanceIInv, Period
  PROVE  InstanceIInv'
<1>1. InstanceTypeOK /\ \A q \in Member : NameOf(q)' = NameOf(q)
  BY SameName DEF InstanceIInv, InstanceTypeOK, Period
<1>2. listed' \in [Name -> 0 .. Lifetime]
  BY <1>1 DEF Period, InstanceTypeOK, Lifetime
<1>3. InstanceTypeOK'
  BY <1>1, <1>2 DEF Period, InstanceTypeOK
<1>4. ASSUME NEW q \in ticking' \ gone'
      PROVE  Kept(q)'
  <2>1. /\ q \in ticking \ gone /\ q \in Member /\ Kept(q) /\ q \notin due /\ q \in due'
        /\ NameOf(q) \in Name /\ NameOf(q)' = NameOf(q) /\ silent' = silent
    BY <1>1, <1>4, NameTyped DEF Period, InstanceIInv, InstanceTypeOK
  <2>2. listed[NameOf(q)] \in 0 .. Lifetime /\ silent[q] \in 0 .. Lifetime
    BY <1>1, <2>1 DEF InstanceTypeOK
  <2>3. listed'[NameOf(q)] = listed[NameOf(q)] - 1
    BY <2>1, <2>2 DEF Period, Kept, Spent, Lifetime
  <2> QED BY <2>1, <2>2, <2>3 DEF Kept, Spent, Lifetime
<1> QED BY <1>3, <1>4 DEF InstanceIInv

\* A process ends, in order or not; of those whose entry is deleted under them, none is left that
\* was not taken down as gone.
LEMMA EndKeeps ==
  ASSUME InstanceIInv, NEW p \in Member, Stop(p) \/ Crash(p)
  PROVE  InstanceIInv'
<1>1. InstanceTypeOK /\ NameOf(p) \in Name /\ Ends(p)
      /\ \A q \in Member : NameOf(q)' = NameOf(q)
  BY SameName, NameTyped DEF InstanceIInv, InstanceTypeOK, Stop, Crash
<1>2. \/ listed' = listed /\ gone' = gone
      \/ listed' = [listed EXCEPT ![NameOf(p)] = 0] /\ gone' = gone \cup Others(p)
  BY DEF Stop, Crash
<1>3. InstanceTypeOK'
  <2>1. listed' \in [Name -> 0 .. Lifetime] /\ gone' \subseteq Member
    BY <1>1, <1>2 DEF InstanceTypeOK, Lifetime, Others
  <2>2. silent' \in [Member -> 0 .. Lifetime]
    BY <1>1 DEF Ends, InstanceTypeOK, Lifetime
  <2> QED BY <1>1, <2>1, <2>2 DEF Stop, Crash, Ends, InstanceTypeOK
<1>4. ASSUME NEW q \in ticking' \ gone'
      PROVE  Kept(q)'
  <2>1. q \in ticking \ gone /\ q \in Member \ {p} /\ Kept(q) /\ NameOf(q) \in Name
    BY <1>1, <1>2, <1>4, NameTyped DEF Ends, InstanceIInv, InstanceTypeOK
  <2>2. silent'[q] = silent[q] /\ (q \in due' <=> q \in due) /\ NameOf(q)' = NameOf(q)
    BY <1>1, <2>1 DEF Ends, InstanceTypeOK
  <2>3. listed'[NameOf(q)] = listed[NameOf(q)]
    BY <1>1, <1>2, <1>4, <2>1 DEF Others, InstanceTypeOK
  <2> QED BY <2>1, <2>2, <2>3 DEF Kept, Spent
<1> QED BY <1>3, <1>4 DEF InstanceIInv

LEMMA RedisLosesKeeps ==
  ASSUME InstanceIInv, RedisLoses
  PROVE  InstanceIInv'
<1>1. InstanceTypeOK /\ beatFaults' \in 0 .. MaxBeatFaults
  BY BeatFaultTyped DEF InstanceIInv, RedisLoses
<1>2. InstanceTypeOK'
  BY <1>1 DEF RedisLoses, InstanceTypeOK, Lifetime
<1>3. ticking' \subseteq gone'
  BY <1>1 DEF RedisLoses, InstanceTypeOK
<1> QED BY <1>2, <1>3 DEF InstanceIInv

LEMMA InstanceInitInv ==
  ASSUME InstanceInit
  PROVE  InstanceIInv
BY InstanceBounds DEF InstanceInit, InstanceIInv, InstanceTypeOK, Lifetime

LEMMA InstanceStepInv ==
  ASSUME InstanceIInv, [InstanceNext]_instanceVars
  PROVE  InstanceIInv'
<1>1. CASE UNCHANGED instanceVars
  BY <1>1 DEF instanceVars, InstanceIInv, InstanceTypeOK, Kept, Spent, NameOf
<1> QED BY <1>1, PeriodKeeps, RedisLosesKeeps, RegisterKeeps, RefusedKeeps, BeatKeeps, EndKeeps
        DEF InstanceNext

\* Whatever processes run, under whatever names, the entries, tickers and counts of the registry keep
\* their types.  (instance_reg.py)
THEOREM InstanceTypeCorrect == InstanceSpec => []InstanceTypeOK
<1>1. InstanceSpec => []InstanceIInv
  BY InstanceInitInv, InstanceStepInv, PTL DEF InstanceSpec
<1> QED BY <1>1, PTL DEF InstanceIInv

\* A process that was given its entry is listed as long as it runs, however heartbeats of any number
\* of processes fall between the periods, unless it missed two in a row, a process of its name
\* was stopped, or Redis lost the entry.  (register, _heartbeat_once, unregister)
THEOREM RunningIsListed == InstanceSpec => []AliveIsListed
<1>1. InstanceIInv => AliveIsListed
  <2>1. SUFFICES ASSUME InstanceIInv, NEW p \in ticking \ gone
                 PROVE  listed[NameOf(p)] > 0
    BY DEF AliveIsListed
  <2>2. Kept(p) /\ p \in Member /\ NameOf(p) \in Name
    BY <2>1, NameTyped DEF InstanceIInv, InstanceTypeOK
  <2>3. listed[NameOf(p)] \in 0 .. Lifetime /\ silent[p] \in 0 .. Lifetime
    BY <2>1, <2>2 DEF InstanceIInv, InstanceTypeOK
  <2> QED BY <2>2, <2>3 DEF Kept, Spent, Lifetime
<1>2. InstanceSpec => []InstanceIInv
  BY InstanceInitInv, InstanceStepInv, PTL DEF InstanceSpec
<1> QED BY <1>1, <1>2, PTL

-----------------------------------------------------------------------------
(* The review of a node's text *)

\* A reply leaves the loop, or no comment has been met as often as the gate allows.
SeenBelow == phase # "failed" => \A c \in Comment : seen[c] = 0 \/ seen[c] < LoopPenalty
\* A text is on its way into the database only when a reviewer has let it pass.
PassingIsApproved == phase = "passing" => text.name \in approved
ReviewIInv == ReviewTypeOK /\ SeenBelow /\ PassingIsApproved /\ PassedIsRecorded

LEMMA FirstTyped == First \in TextName
BY ReviewBounds DEF First, TextName

LEMMA ShownTyped ==
  ASSUME NEW t \in Text
  PROVE  Shown(t) \in Text
BY DEF Shown, Text

LEMMA UnheardTyped ==
  Unheard \in [Comment -> 0 .. LoopPenalty + MaxComments] /\ \A c \in Comment : Unheard[c] = 0
BY ReviewBounds DEF Unheard

\* How often a reply says one thing.
LEMMA ReplyCounts ==
  ASSUME NEW reply \in Replies, NEW c \in Comment
  PROVE  LET n == Cardinality({i \in DOMAIN reply : reply[i] = c})
         IN  n \in 0 .. MaxComments /\ ((\A i \in DOMAIN reply : reply[i] # c) => n = 0)
<1> DEFINE S == {i \in DOMAIN reply : reply[i] = c}
<1>1. PICK k \in 0 .. MaxComments : reply \in [1 .. k -> Comment]
  BY DEF Replies
<1>2. k \in Nat /\ k <= MaxComments
  BY <1>1, ReviewBounds
<1>3. IsFiniteSet(1 .. k) /\ Cardinality(1 .. k) = k
  BY <1>2, FS_Interval
<1>4. S \subseteq 1 .. k
  BY <1>1
<1>5. Cardinality(S) <= k /\ IsFiniteSet(S)
  BY <1>3, <1>4, FS_Subset
<1>6. Cardinality(S) \in Nat
  BY <1>5, FS_CardinalityType
<1>7. (\A i \in DOMAIN reply : reply[i] # c) => Cardinality(S) = 0
  BY FS_EmptySet
<1> QED BY <1>2, <1>5, <1>6, <1>7, ReviewBounds

LEMMA JudgeKeeps ==
  ASSUME ReviewIInv, NEW verdict \in {"pass", "revise"}, NEW reply \in Replies, Judge(verdict, reply)
  PROVE  ReviewIInv'
<1> DEFINE n(c) == Cardinality({i \in DOMAIN reply : reply[i] = c})
<1>1. ReviewTypeOK /\ SeenBelow /\ phase = "asking" /\ text.name \in TextName
  BY DEF ReviewIInv, Judge, ReviewTypeOK, Text
<1>2. phase' \in {"failed", "passing", "redoing"} /\ phase' = After(verdict, reply)
  BY DEF Judge, Moves, After
<1>3. revisions' \in 0 .. MaxRevision
  <2>1. revisions \in 0 .. MaxRevision
    BY <1>1 DEF ReviewTypeOK
  <2>2. phase' = "redoing" => revisions + 1 <= MaxRevision
    BY <1>2, <2>1, ReviewBounds DEF After
  <2> QED BY <1>2, <2>1, <2>2, ReviewBounds DEF Judge, Counted
<1>4. seen' \in [Comment -> 0 .. LoopPenalty + MaxComments] /\ SeenBelow'
  <2>1. ASSUME NEW c \in Comment
        PROVE  /\ Heard(reply)[c] = seen[c] + n(c) /\ seen[c] + n(c) \in 0 .. LoopPenalty + MaxComments
               /\ ~Repeats(reply) => seen[c] + n(c) = 0 \/ seen[c] + n(c) < LoopPenalty
    <3>1. /\ seen[c] \in 0 .. LoopPenalty + MaxComments /\ (seen[c] = 0 \/ seen[c] < LoopPenalty)
          /\ n(c) \in 0 .. MaxComments /\ ((\A i \in DOMAIN reply : reply[i] # c) => n(c) = 0)
      BY <1>1, <2>1, ReplyCounts DEF ReviewTypeOK, SeenBelow
    <3>2. Heard(reply)[c] = seen[c] + n(c)
      BY <2>1 DEF Heard
    <3>3. CASE \E i \in DOMAIN reply : reply[i] = c
      BY <3>1, <3>2, <3>3, ReviewBounds DEF Repeats
    <3>4. CASE \A i \in DOMAIN reply : reply[i] # c
      BY <3>1, <3>2, <3>4, ReviewBounds
    <3> QED BY <3>3, <3>4
  <2>2. CASE gated /\ ~TooMany /\ ~late
    <3>1. seen' = Heard(reply)
      BY <2>2 DEF Judge
    <3>2. seen' = [c \in Comment |-> seen'[c]]
      BY <3>1 DEF Heard
    <3>3. \A c \in Comment : seen'[c] = seen[c] + n(c) /\ seen'[c] \in 0 .. LoopPenalty + MaxComments
      BY <2>1, <3>1
    <3>4. phase' # "failed" => ~Repeats(reply)
      BY <1>2, <2>2 DEF After, Stopped
    <3> QED BY <2>1, <3>2, <3>3, <3>4 DEF SeenBelow
  <2>3. CASE ~(gated /\ ~TooMany /\ ~late)
    BY <1>1, <2>3 DEF Judge, ReviewTypeOK, SeenBelow
  <2> QED BY <2>2, <2>3
<1>5. ReviewTypeOK'
  <2>1. approved' \subseteq TextName
    BY <1>1 DEF Judge, ReviewTypeOK
  <2>2. UNCHANGED <<gated, output, text, late, crashes>>
    BY DEF Judge
  <2> QED BY <1>1, <1>2, <1>3, <1>4, <2>1, <2>2 DEF ReviewTypeOK, Loop
<1>6. PassingIsApproved'
  BY <1>2 DEF Judge, PassingIsApproved
<1>7. PassedIsRecorded'
  BY <1>2 DEF ReviewIInv, Judge, PassedIsRecorded
<1> QED BY <1>4, <1>5, <1>6, <1>7 DEF ReviewIInv

\* The other steps of the loop.
LEMMA LoopStepKeeps ==
  ASSUME ReviewIInv, OpenReview \/ (\E long \in BOOLEAN : Redo(long)) \/ Deadline
  PROVE  ReviewIInv'
<1>1. phase' \in Loop /\ output' = output /\ approved' = approved /\ text' \in Text
      /\ revisions' \in 0 .. MaxRevision /\ seen' \in [Comment -> 0 .. LoopPenalty + MaxComments]
      /\ late' \in BOOLEAN /\ gated' = gated /\ crashes' = crashes /\ SeenBelow'
  <2>1. CASE OpenReview
    <3>1. output \in Text /\ text' = Shown(output) /\ revisions' = 0 /\ seen' = Unheard
      BY <2>1 DEF OpenReview, ReviewIInv, ReviewTypeOK
    <3>2. text' \in Text /\ revisions' \in 0 .. MaxRevision
          /\ seen' \in [Comment -> 0 .. LoopPenalty + MaxComments] /\ SeenBelow'
      BY <3>1, ShownTyped, UnheardTyped, ReviewBounds DEF SeenBelow
    <3> QED BY <2>1, <3>2 DEF OpenReview, Moves, Loop, ReviewIInv, ReviewTypeOK
  <2>2. CASE \E long \in BOOLEAN : Redo(long)
    BY <2>2 DEF ReviewIInv, ReviewTypeOK, Redo, Moves, Loop, SeenBelow, Text, TextName
  <2>3. CASE Deadline
    BY <2>3 DEF ReviewIInv, ReviewTypeOK, Deadline, Loop, SeenBelow
  <2> QED BY <2>1, <2>2, <2>3
<1>2. ReviewTypeOK'
  BY <1>1 DEF ReviewIInv, ReviewTypeOK
<1>3. PassingIsApproved' /\ PassedIsRecorded'
  BY <1>1 DEF ReviewIInv, PassingIsApproved, PassedIsRecorded, Loop
<1> QED BY <1>1, <1>2, <1>3 DEF ReviewIInv

\* A text that passed is written and the task advances, or the review breaks off.
LEMMA EndStepKeeps ==
  ASSUME ReviewIInv, RecordPassed \/ AdvanceTask \/ GiveUp \/ ReviewStops
  PROVE  ReviewIInv'
<1>1. CASE RecordPassed
  BY <1>1 DEF RecordPassed, Moves, RecordedText, ReviewIInv, ReviewTypeOK, SeenBelow,
              PassingIsApproved, PassedIsRecorded
<1>2. CASE AdvanceTask
  BY <1>2 DEF AdvanceTask, Moves, ReviewIInv, ReviewTypeOK, SeenBelow, PassingIsApproved, PassedIsRecorded
<1>3. CASE GiveUp
  BY <1>3 DEF GiveUp, Moves, ReviewIInv, ReviewTypeOK, SeenBelow, PassingIsApproved, PassedIsRecorded, Loop
<1>4. CASE ReviewStops
  <2>1. crashes' \in 0 .. MaxCrashes
    BY <1>4, ReviewBounds DEF ReviewStops, ReviewIInv, ReviewTypeOK
  <2> QED BY <1>4, <2>1 DEF ReviewStops, Moves, ReviewIInv, ReviewTypeOK, SeenBelow,
                            PassingIsApproved, PassedIsRecorded, Loop
<1> QED BY <1>1, <1>2, <1>3, <1>4

LEMMA ReviewInitInv ==
  ASSUME ReviewInit
  PROVE  ReviewIInv
<1>1. output \in Text /\ text = output /\ output.name = First /\ ~output.cut
  BY FirstTyped DEF ReviewInit, Text
<1>2. seen \in [Comment -> 0 .. LoopPenalty + MaxComments] /\ SeenBelow
  BY UnheardTyped DEF ReviewInit, SeenBelow
<1>3. revisions \in 0 .. MaxRevision /\ crashes \in 0 .. MaxCrashes
  BY ReviewBounds DEF ReviewInit
<1> QED BY <1>1, <1>2, <1>3 DEF ReviewInit, ReviewIInv, ReviewTypeOK, PassingIsApproved, PassedIsRecorded

LEMMA ReviewStepInv ==
  ASSUME ReviewIInv, [ReviewNext]_reviewVars
  PROVE  ReviewIInv'
<1>1. CASE UNCHANGED reviewVars
  BY <1>1 DEF reviewVars, ReviewIInv, ReviewTypeOK, SeenBelow, PassingIsApproved, PassedIsRecorded
<1> QED BY <1>1, JudgeKeeps, LoopStepKeeps, EndStepKeeps DEF ReviewNext, ReviewStep

\* Whatever comments there are and however many rounds, penalties and crashes are allowed, the state of
\* a review keeps its types; among them, that a text is never revised more than max_revision
\* times, and that the gate's count of a comment stays bounded.  (_run_review_loop, ReviewGate)
THEOREM ReviewTypeCorrect == ReviewSpec => []ReviewTypeOK
<1>1. ReviewSpec => []ReviewIInv
  BY ReviewInitInv, ReviewStepInv, PTL DEF ReviewSpec
<1> QED BY <1>1, PTL DEF ReviewIInv

\* What stands in the database as the text of the node before is its first text or one that a reviewer
\* let pass, cut only if it passed like that, and a review that is done leaves the text that
\* passed last, wherever the worker stops.  (_run_review_loop, set_node_output)
THEOREM ReviewRecordsPassed == ReviewSpec => []PassedIsRecorded
<1>1. ReviewSpec => []ReviewIInv
  BY ReviewInitInv, ReviewStepInv, PTL DEF ReviewSpec
<1> QED BY <1>1, PTL DEF ReviewIInv

-----------------------------------------------------------------------------
(* Batches of parallel parts *)

PartState == Settled \cup {"line", "working"}
Parts == UNION {[1 .. n -> PartState] : n \in 0 .. MaxParallel}
\* The parts of a batch that hold a place.
Holding(j) == {s \in DOMAIN part[j] : part[j][s] = "working"}

\* No place is lost and none is made: those that are free and those that parts hold are the pool.
PlacesKept(j) ==
  /\ IsFiniteSet(Holding(j)) /\ places[j] \in Nat
  /\ places[j] + Cardinality(Holding(j)) = WorkerPool
\* A batch that has ended has every part settled, every place free and nobody in line, and is a success
\* exactly when each of its parts is.
EndedWell(j) ==
  work[j] \in {"ok", "error"} =>
    /\ \A s \in DOMAIN part[j] : part[j][s] \in Settled
    /\ work[j] = "ok" <=> AllOk(j)
Unbegun(j) == work[j] = "unborn" => part[j] = NoParts /\ made[j] = 0
\* A batch that is not over has made its calls in this life of the registry.
CallsCounted(j) == work[j] = "running" => made[j] <= used

BatchIInv ==
  /\ BatchTypeOK /\ part \in [Job -> Parts]
  /\ \A j \in Job : PlacesKept(j) /\ EndedWell(j) /\ Unbegun(j) /\ CallsCounted(j)

LEMMA PartsTyped ==
  ASSUME NEW f \in Parts
  PROVE  /\ \E n \in 0 .. MaxParallel : f \in [1 .. n -> PartState]
         /\ IsFiniteSet(DOMAIN f)
<1>1. PICK n \in 0 .. MaxParallel : f \in [1 .. n -> PartState]
  BY DEF Parts
<1>2. IsFiniteSet(1 .. n)
  BY <1>1, FS_Interval
<1> QED BY <1>1, <1>2

LEMMA NoPartsTyped == NoParts \in Parts /\ DOMAIN NoParts = {}
<1>1. NoParts \in [1 .. 0 -> PartState] /\ DOMAIN NoParts = {}
  BY DEF NoParts
<1> QED BY <1>1, BatchBounds DEF Parts

\* The type of the parts, as BatchTypeOK says it.
LEMMA PartsTypeOK ==
  ASSUME part \in [Job -> Parts]
  PROVE  \A j \in Job : \E n \in 0 .. MaxParallel :
           part[j] \in [1 .. n -> Settled \cup {"line", "working"}]
BY PartsTyped DEF PartState

LEMMA BecomesParts ==
  ASSUME part \in [Job -> Parts], NEW j \in Job, NEW s \in DOMAIN part[j], NEW what \in PartState,
         Becomes(j, s, what)
  PROVE  /\ part' \in [Job -> Parts] /\ DOMAIN part'[j] = DOMAIN part[j]
         /\ \A k \in Job \ {j} : part'[k] = part[k]
         /\ \A r \in DOMAIN part[j] : part'[j][r] = IF r = s THEN what ELSE part[j][r]
<1>1. PICK n \in 0 .. MaxParallel : part[j] \in [1 .. n -> PartState]
  BY DEF Parts
<1>2. part' = [part EXCEPT ![j] = [part[j] EXCEPT ![s] = what]]
  BY DEF Becomes
<1>3. [part[j] EXCEPT ![s] = what] \in [1 .. n -> PartState]
  BY <1>1
<1>4. [part[j] EXCEPT ![s] = what] \in Parts
  BY <1>3 DEF Parts
<1> QED BY <1>1, <1>2, <1>4

\* A part takes a place, gives one back, or neither.
LEMMA PlacesMove ==
  ASSUME BatchIInv, NEW j \in Job, NEW s \in DOMAIN part[j], NEW what \in PartState, Becomes(j, s, what),
         \/ part[j][s] = "line" /\ what = "working" /\ places[j] > 0 /\ places' = [places EXCEPT ![j] = @ - 1]
         \/ part[j][s] = "line" /\ what # "working" /\ places' = places
         \/ part[j][s] = "working" /\ what # "working" /\ places' = [places EXCEPT ![j] = @ + 1]
  PROVE  \A k \in Job : PlacesKept(k)' /\ places'[k] \in 0 .. WorkerPool
<1> DEFINE H == Holding(j)
<1>1. /\ IsFiniteSet(H) /\ places[j] \in Nat /\ places[j] + Cardinality(H) = WorkerPool
      /\ Cardinality(H) \in Nat /\ places \in [Job -> 0 .. WorkerPool]
  BY FS_CardinalityType DEF BatchIInv, PlacesKept, BatchTypeOK
<1>2. /\ DOMAIN part'[j] = DOMAIN part[j] /\ \A k \in Job \ {j} : part'[k] = part[k]
      /\ \A r \in DOMAIN part[j] : part'[j][r] = IF r = s THEN what ELSE part[j][r]
  BY BecomesParts DEF BatchIInv
<1>3. PlacesKept(j)' /\ places'[j] \in 0 .. WorkerPool
  <2>1. CASE part[j][s] = "line" /\ what = "working"
    <3>1. Holding(j)' = H \cup {s} /\ s \notin H
      BY <1>2, <2>1 DEF Holding
    <3>2. IsFiniteSet(H \cup {s}) /\ Cardinality(H \cup {s}) = Cardinality(H) + 1
      BY <1>1, <3>1, FS_AddElement
    <3>3. places'[j] = places[j] - 1 /\ places[j] > 0
      BY <1>1, <2>1
    <3> QED BY <1>1, <3>1, <3>2, <3>3, BatchBounds DEF PlacesKept
  <2>2. CASE part[j][s] = "line" /\ what # "working"
    <3>1. Holding(j)' = H /\ places'[j] = places[j]
      BY <1>1, <1>2, <2>2 DEF Holding
    <3> QED BY <1>1, <3>1, BatchBounds DEF PlacesKept
  <2>3. CASE part[j][s] = "working"
    <3>1. Holding(j)' = H \ {s} /\ s \in H
      BY <1>2, <2>3 DEF Holding
    <3>2. IsFiniteSet(H \ {s}) /\ Cardinality(H \ {s}) = Cardinality(H) - 1
      BY <1>1, <3>1, FS_RemoveElement
    <3>3. places'[j] = places[j] + 1
      BY <1>1, <2>3
    <3>4. Cardinality(H \ {s}) \in Nat
      BY <3>2, FS_CardinalityType
    <3> QED BY <1>1, <3>1, <3>2, <3>3, <3>4, BatchBounds DEF PlacesKept
  <2> QED BY <2>1, <2>2, <2>3
<1>4. ASSUME NEW k \in Job, k # j
      PROVE  PlacesKept(k)' /\ places'[k] \in 0 .. WorkerPool
  <2>1. part'[k] = part[k] /\ places'[k] = places[k]
    BY <1>1, <1>2, <1>4
  <2>2. Holding(k)' = Holding(k)
    BY <2>1 DEF Holding
  <2> QED BY <1>1, <2>1, <2>2 DEF BatchIInv, PlacesKept
<1> QED BY <1>3, <1>4

\* The batch of a part that waits or works is running.
LEMMA PartRuns ==
  ASSUME BatchIInv, NEW j \in Job, NEW s \in DOMAIN part[j], part[j][s] \in {"line", "working"}
  PROVE  work[j] = "running"
<1>1. work[j] # "unborn"
  BY NoPartsTyped DEF BatchIInv, Unbegun
<1>2. work[j] \notin {"ok", "error"}
  BY DEF BatchIInv, EndedWell, Settled
<1> QED BY <1>1, <1>2 DEF BatchIInv, BatchTypeOK

\* What a step of a running batch has to leave as it was.
LEMMA RunningKeeps ==
  ASSUME BatchIInv, NEW j \in Job, work[j] = "running", work' = work,
         NEW f, part' = [part EXCEPT ![j] = f], f \in Parts,
         \A k \in Job : PlacesKept(k)' /\ places'[k] \in 0 .. WorkerPool,
         places' \in [Job -> 0 .. WorkerPool], cancel' \in [Job -> BOOLEAN], reboots' = reboots,
         CallTool(j) \/ UNCHANGED <<used, made, refused>>
  PROVE  BatchIInv'
<1>1. part' \in [Job -> Parts] /\ \A k \in Job \ {j} : part'[k] = part[k]
  BY DEF BatchIInv
<1>2. /\ used \in 0 .. MaxCalls /\ made \in [Job -> 0 .. MaxCalls] /\ refused \subseteq Job
      /\ made[j] <= used
  BY DEF BatchIInv, BatchTypeOK, CallsCounted
<1>3. /\ used' \in 0 .. MaxCalls /\ made' \in [Job -> 0 .. MaxCalls] /\ refused' \subseteq Job
      /\ made'[j] <= used' /\ used <= used' /\ \A k \in Job \ {j} : made'[k] = made[k]
  BY <1>2, BatchBounds DEF CallTool
<1>4. BatchTypeOK'
  <2>1. \A k \in Job : \E n \in 0 .. MaxParallel :
          part'[k] \in [1 .. n -> Settled \cup {"line", "working"}]
    BY <1>1, PartsTyped DEF PartState
  <2> QED BY <1>3, <2>1 DEF BatchIInv, BatchTypeOK
<1>5. ASSUME NEW k \in Job
      PROVE  (EndedWell(k) /\ Unbegun(k) /\ CallsCounted(k))'
  <2>1. CASE k = j
    BY <1>3, <2>1 DEF EndedWell, Unbegun, CallsCounted
  <2>2. CASE k # j
    <3>1. part'[k] = part[k] /\ made'[k] = made[k] /\ work'[k] = work[k]
      BY <1>1, <1>3, <2>2
    <3>2. made[k] \in Nat /\ used \in Nat /\ used' \in Nat /\ used <= used'
      BY <1>2, <1>3, BatchBounds
    <3> QED BY <3>1, <3>2 DEF BatchIInv, EndedWell, Unbegun, CallsCounted, AllOk
  <2> QED BY <2>1, <2>2
<1> QED BY <1>1, <1>4, <1>5 DEF BatchIInv

LEMMA PartStepKeeps ==
  ASSUME BatchIInv, NEW j \in Job, PartStep(j)
  PROVE  BatchIInv'
<1>1. PICK s \in DOMAIN part[j] : Enter(j, s) \/ Complete(j, s) \/ Fail(j, s)
  BY DEF PartStep
<1>2. part[j][s] \in {"line", "working"}
  BY <1>1 DEF Enter, Complete, Fail, InLineOf
<1>3. work[j] = "running"
  BY <1>2, PartRuns
<1>4. PICK what \in PartState :
        /\ Becomes(j, s, what)
        /\ \/ part[j][s] = "line" /\ what = "working" /\ places[j] > 0 /\ places' = [places EXCEPT ![j] = @ - 1]
           \/ part[j][s] = "line" /\ what # "working" /\ places' = places
           \/ part[j][s] = "working" /\ what # "working" /\ places' = [places EXCEPT ![j] = @ + 1]
  <2>1. CASE Enter(j, s)
    <3>1. part[j][s] = "line" /\ places[j] > 0
      BY <2>1 DEF Enter, InLineOf
    <3>2. CASE cancel[j]
      <4>1. Becomes(j, s, "aborted") /\ places' = places
        BY <2>1, <3>2 DEF Enter
      <4> QED BY <3>1, <4>1 DEF PartState, Settled
    <3>3. CASE ~cancel[j]
      <4>1. Becomes(j, s, "working") /\ places' = [places EXCEPT ![j] = @ - 1]
        BY <2>1, <3>3 DEF Enter
      <4> QED BY <3>1, <4>1 DEF PartState
    <3> QED BY <3>2, <3>3
  <2>2. CASE Complete(j, s)
    <3>1. Becomes(j, s, "ok") /\ part[j][s] = "working" /\ places' = [places EXCEPT ![j] = @ + 1]
      BY <2>2 DEF Complete, LeavePlace
    <3> QED BY <3>1 DEF PartState, Settled
  <2>3. CASE Fail(j, s)
    <3>1. Becomes(j, s, "failed") /\ part[j][s] = "working" /\ places' = [places EXCEPT ![j] = @ + 1]
      BY <2>3 DEF Fail, LeavePlace
    <3> QED BY <3>1 DEF PartState, Settled
  <2> QED BY <1>1, <2>1, <2>2, <2>3
<1>5. \A k \in Job : PlacesKept(k)' /\ places'[k] \in 0 .. WorkerPool
  BY <1>4, PlacesMove
<1>6. places' \in [Job -> 0 .. WorkerPool]
  <2>1. places' = [k \in Job |-> places'[k]]
    BY <1>4 DEF BatchIInv, BatchTypeOK
  <2> QED BY <1>5, <2>1
<1>7. part' = [part EXCEPT ![j] = part'[j]] /\ part'[j] \in Parts
  BY <1>4, BecomesParts DEF BatchIInv, Becomes
<1>8. work' = work /\ reboots' = reboots /\ cancel' \in [Job -> BOOLEAN]
      /\ (CallTool(j) \/ UNCHANGED <<used, made, refused>>)
  BY <1>1 DEF Enter, Complete, Fail, BatchIInv, BatchTypeOK
<1> QED BY <1>3, <1>5, <1>6, <1>7, <1>8, RunningKeeps

LEMMA NobodyHolds ==
  ASSUME NEW j \in Job, Holding(j) = {}, places[j] = WorkerPool
  PROVE  PlacesKept(j)
BY FS_EmptySet, BatchBounds DEF PlacesKept

\* A batch that a step does not touch.
LEMMA UntouchedBatch ==
  ASSUME BatchIInv, NEW k \in Job, part'[k] = part[k], work'[k] = work[k], places'[k] = places[k],
         made'[k] = made[k], used' = used
  PROVE  (PlacesKept(k) /\ EndedWell(k) /\ Unbegun(k) /\ CallsCounted(k))'
<1>1. Holding(k)' = Holding(k)
  BY DEF Holding
<1>2. AllOk(k)' = AllOk(k)
  BY DEF AllOk
<1>3. PlacesKept(k)'
  BY <1>1 DEF BatchIInv, PlacesKept
<1>4. EndedWell(k)'
  BY <1>2 DEF BatchIInv, EndedWell
<1>5. Unbegun(k)' /\ CallsCounted(k)'
  BY DEF BatchIInv, Unbegun, CallsCounted
<1> QED BY <1>3, <1>4, <1>5

LEMMA BeginKeeps ==
  ASSUME BatchIInv, NEW j \in Job, NEW planned \in 1 .. MaxPlan, Begin(j, planned)
  PROVE  BatchIInv'
<1> DEFINE n == AtMost(planned, MaxParallel)
           f == [s \in 1 .. n |-> "line"]
<1>1. work[j] = "unborn" /\ work' = [work EXCEPT ![j] = "running"] /\ part' = [part EXCEPT ![j] = f]
      /\ UNCHANGED <<places, cancel, used, made, refused, reboots>>
  BY DEF Begin
<1>2. f \in Parts
  <2>1. n \in 0 .. MaxParallel
    BY BatchBounds DEF AtMost
  <2>2. f \in [1 .. n -> PartState]
    BY DEF PartState
  <2> QED BY <2>1, <2>2 DEF Parts
<1>3. part' \in [Job -> Parts] /\ part'[j] = f /\ \A k \in Job \ {j} : part'[k] = part[k]
  BY <1>1, <1>2 DEF BatchIInv
<1>4. /\ work' \in [Job -> {"unborn", "running", "ok", "error"}]
      /\ work'[j] = "running" /\ \A k \in Job \ {j} : work'[k] = work[k]
  BY <1>1 DEF BatchIInv, BatchTypeOK
<1>5. BatchTypeOK'
  <2>1. \A k \in Job : \E m \in 0 .. MaxParallel :
          part'[k] \in [1 .. m -> Settled \cup {"line", "working"}]
    BY <1>3, PartsTyped DEF PartState
  <2> QED BY <1>1, <1>4, <2>1 DEF BatchIInv, BatchTypeOK
<1>6. PlacesKept(j)'
  <2>1. Holding(j) = {}
    BY <1>1, NoPartsTyped DEF BatchIInv, Unbegun, Holding
  <2>2. Holding(j)' = {}
    BY <1>3 DEF Holding
  <2> QED BY <1>1, <2>1, <2>2 DEF BatchIInv, PlacesKept
<1>7. (EndedWell(j) /\ Unbegun(j) /\ CallsCounted(j))'
  <2>1. made[j] = 0 /\ used \in 0 .. MaxCalls
    BY <1>1 DEF BatchIInv, Unbegun, BatchTypeOK
  <2> QED BY <1>1, <1>4, <2>1, BatchBounds DEF EndedWell, Unbegun, CallsCounted
<1>8. ASSUME NEW k \in Job, k # j
      PROVE  (PlacesKept(k) /\ EndedWell(k) /\ Unbegun(k) /\ CallsCounted(k))'
  <2>1. part'[k] = part[k] /\ work'[k] = work[k]
    BY <1>3, <1>4, <1>8
  <2> QED BY <1>1, <2>1, UntouchedBatch
<1> QED BY <1>3, <1>5, <1>6, <1>7, <1>8 DEF BatchIInv

LEMMA SettleKeeps ==
  ASSUME BatchIInv, NEW j \in Job, Settle(j)
  PROVE  BatchIInv'
<1>1. /\ work' = [work EXCEPT ![j] = IF AllOk(j) THEN "ok" ELSE "error"]
      /\ \A s \in DOMAIN part[j] : part[j][s] \in Settled
      /\ UNCHANGED <<part, places, cancel, used, made, refused, reboots>>
  BY DEF Settle
<1>2. /\ work' \in [Job -> {"unborn", "running", "ok", "error"}]
      /\ work'[j] \in {"ok", "error"} /\ (work'[j] = "ok" <=> AllOk(j))
      /\ \A k \in Job \ {j} : work'[k] = work[k]
  BY <1>1 DEF BatchIInv, BatchTypeOK
<1>3. BatchTypeOK'
  BY <1>1, <1>2 DEF BatchIInv, BatchTypeOK
<1>4. ASSUME NEW k \in Job
      PROVE  (PlacesKept(k) /\ EndedWell(k) /\ Unbegun(k) /\ CallsCounted(k))'
  <2>1. PlacesKept(k)'
    BY <1>1 DEF BatchIInv, PlacesKept, Holding
  <2>2. CASE k = j
    <3>1. AllOk(j)' = AllOk(j) /\ \A s \in DOMAIN part'[j] : part'[j][s] \in Settled
      BY <1>1 DEF AllOk
    <3> QED BY <1>2, <2>1, <2>2, <3>1 DEF EndedWell, Unbegun, CallsCounted
  <2>3. CASE k # j
    <3>1. work'[k] = work[k]
      BY <1>2, <2>3
    <3> QED BY <1>1, <3>1, UntouchedBatch
  <2> QED BY <2>2, <2>3
<1> QED BY <1>1, <1>3, <1>4 DEF BatchIInv

\* The worker restarts: a batch that ran has no parts, and no batch that was over held a place.
LEMMA RebootKeeps ==
  ASSUME BatchIInv, RebootWorker
  PROVE  BatchIInv'
<1> DEFINE lost == {j \in Job : work[j] = "running"}
<1>1. /\ work' = [j \in Job |-> IF j \in lost THEN "unborn" ELSE work[j]]
      /\ part' = [j \in Job |-> IF j \in lost THEN NoParts ELSE part[j]]
      /\ places' = [j \in Job |-> WorkerPool]
      /\ cancel' = [j \in Job |-> cancel[j] /\ j \notin lost]
      /\ made' = [j \in Job |-> IF j \in lost THEN 0 ELSE made[j]]
      /\ refused' = refused \ lost /\ used' = 0
  BY DEF RebootWorker
<1>2. reboots' \in 0 .. MaxReboots
  BY BatchBounds DEF RebootWorker, BatchIInv, BatchTypeOK
<1>3. part' \in [Job -> Parts]
  BY <1>1, NoPartsTyped DEF BatchIInv
<1>4. BatchTypeOK'
  <2>1. \A k \in Job : \E m \in 0 .. MaxParallel :
          part'[k] \in [1 .. m -> Settled \cup {"line", "working"}]
    BY <1>3, PartsTyped DEF PartState
  <2>2. /\ work' \in [Job -> {"unborn", "running", "ok", "error"}]
        /\ places' \in [Job -> 0 .. WorkerPool] /\ cancel' \in [Job -> BOOLEAN]
        /\ used' \in 0 .. MaxCalls /\ made' \in [Job -> 0 .. MaxCalls] /\ refused' \subseteq Job
    BY <1>1, BatchBounds DEF BatchIInv, BatchTypeOK
  <2> QED BY <1>2, <2>1, <2>2 DEF BatchTypeOK
<1>5. ASSUME NEW k \in Job
      PROVE  (PlacesKept(k) /\ EndedWell(k) /\ Unbegun(k) /\ CallsCounted(k))'
  <2>1. places'[k] = WorkerPool /\ used' = 0
    BY <1>1
  <2>2. CASE k \in lost
    <3>1. work'[k] = "unborn" /\ part'[k] = NoParts /\ made'[k] = 0
      BY <1>1, <2>2
    <3>2. Holding(k)' = {}
      BY <3>1, NoPartsTyped DEF Holding
    <3>3. PlacesKept(k)'
      BY <2>1, <3>2, FS_EmptySet, BatchBounds DEF PlacesKept
    <3> QED BY <3>1, <3>3 DEF EndedWell, Unbegun, CallsCounted
  <2>3. CASE k \notin lost
    <3>1. work'[k] = work[k] /\ part'[k] = part[k] /\ made'[k] = made[k] /\ work[k] # "running"
      BY <1>1, <2>3
    <3>2. Holding(k)' = {}
      <4>1. \A s \in DOMAIN part[k] : part[k][s] # "working"
        BY <3>1, PartRuns
      <4> QED BY <3>1, <4>1 DEF Holding
    <3>3. PlacesKept(k)'
      BY <2>1, <3>2, FS_EmptySet, BatchBounds DEF PlacesKept
    <3> QED BY <3>1, <3>3 DEF BatchIInv, EndedWell, AllOk, Unbegun, CallsCounted
  <2> QED BY <2>2, <2>3
<1> QED BY <1>3, <1>4, <1>5 DEF BatchIInv

LEMMA BatchInitInv ==
  ASSUME BatchInit
  PROVE  BatchIInv
<1>1. part \in [Job -> Parts] /\ \A j \in Job : part[j] = NoParts /\ Holding(j) = {}
  BY NoPartsTyped DEF BatchInit, Holding
<1>2. BatchTypeOK
  <2>1. \A k \in Job : \E m \in 0 .. MaxParallel :
          part[k] \in [1 .. m -> Settled \cup {"line", "working"}]
    BY <1>1, PartsTyped DEF PartState
  <2> QED BY <2>1, BatchBounds DEF BatchInit, BatchTypeOK
<1>3. ASSUME NEW j \in Job
      PROVE  PlacesKept(j) /\ EndedWell(j) /\ Unbegun(j) /\ CallsCounted(j)
  BY <1>1, NobodyHolds DEF BatchInit, EndedWell, Unbegun, CallsCounted
<1> QED BY <1>1, <1>2, <1>3 DEF BatchIInv

LEMMA BatchStepInv ==
  ASSUME BatchIInv, [BatchNext]_batchVars
  PROVE  BatchIInv'
<1>1. CASE UNCHANGED batchVars
  <2>1. UNCHANGED <<work, part, places, cancel, used, made, refused, reboots>>
    BY <1>1 DEF batchVars
  <2>2. \A k \in Job : (PlacesKept(k) /\ EndedWell(k) /\ Unbegun(k) /\ CallsCounted(k))'
    BY <2>1, UntouchedBatch
  <2> QED BY <2>1, <2>2 DEF BatchIInv, BatchTypeOK
<1> QED BY <1>1, PartStepKeeps, SettleKeeps, BeginKeeps, RebootKeeps DEF BatchNext

\* Whatever batches there are, however many parts, places and calls are allowed, the state of the
\* batches keeps its types; among them, that more places than the pool has are never free and
\* more calls than allowed never made.  (run_parallel, ToolRegistry.run)
THEOREM BatchTypeCorrect == BatchSpec => []BatchTypeOK
<1>1. BatchSpec => []BatchIInv
  BY BatchInitInv, BatchStepInv, PTL DEF BatchSpec
<1> QED BY <1>1, PTL DEF BatchIInv

\* In every state, no more parts of a batch work than its pool has places, and none of its places is
\* lost; and a batch that is over has every part settled and every place free, and is a
\* success exactly when each of its parts is: the end that BatchEnds says a running batch comes to.
\* (run_parallel)
BatchAccounted ==
  \A j \in Job :
    /\ places[j] + Cardinality(Holding(j)) = WorkerPool
    /\ work[j] \in {"ok", "error"} =>
         /\ work[j] = (IF AllOk(j) THEN "ok" ELSE "error")
         /\ places[j] = WorkerPool /\ InLineOf(j) = {}
THEOREM BatchSettles == BatchSpec => []BatchAccounted
<1>1. ASSUME BatchIInv
      PROVE  BatchAccounted
  <2>1. SUFFICES ASSUME NEW j \in Job, work[j] \in {"ok", "error"}
                 PROVE  /\ work[j] = (IF AllOk(j) THEN "ok" ELSE "error")
                        /\ places[j] = WorkerPool /\ InLineOf(j) = {}
    BY <1>1 DEF BatchAccounted, BatchIInv, PlacesKept
  <2>2. \A s \in DOMAIN part[j] : part[j][s] \in Settled
    BY <1>1, <2>1 DEF BatchIInv, EndedWell
  <2>3. Holding(j) = {} /\ InLineOf(j) = {}
    BY <2>2 DEF Holding, InLineOf, Settled
  <2>4. places[j] \in Nat /\ places[j] + Cardinality(Holding(j)) = WorkerPool /\ Cardinality({}) = 0
    BY <1>1, FS_EmptySet DEF BatchIInv, PlacesKept
  <2>5. places[j] = WorkerPool
    BY <2>3, <2>4
  <2>6. work[j] = "ok" <=> AllOk(j)
    BY <1>1, <2>1 DEF BatchIInv, EndedWell
  <2> QED BY <2>1, <2>3, <2>5, <2>6
<1>2. BatchSpec => []BatchIInv
  BY BatchInitInv, BatchStepInv, PTL DEF BatchSpec
<1> QED BY <1>1, <1>2, PTL

-----------------------------------------------------------------------------
(* The places of the pools are kept *)

LEMMA SizeTyped == Size \in [Pool -> Nat]
BY RunBounds DEF Size, Pool, Reserved

LEMMA LeftLine ==
  ASSUME NEW S, NEW s \in Seq(S), NEW i \in 1 .. Len(s)
  PROVE  /\ RemoveAt(s, i) \in Seq(S) /\ Len(RemoveAt(s, i)) = Len(s) - 1
         /\ \A j \in 1 .. Len(s) - 1 : RemoveAt(s, i)[j] = IF j < i THEN s[j] ELSE s[j + 1]
<1> DEFINE a == SubSeq(s, 1, i - 1)
           b == SubSeq(s, i + 1, Len(s))
<1>1. a \in Seq(S) /\ Len(a) = i - 1 /\ \A j \in 1 .. i - 1 : a[j] = s[j]
  OBVIOUS
<1>2. b \in Seq(S) /\ Len(b) = Len(s) - i /\ \A j \in 1 .. Len(s) - i : b[j] = s[i + j]
  OBVIOUS
<1> HIDE DEF a, b
<1>3. a \o b \in Seq(S) /\ Len(a \o b) = Len(s) - 1
  <2>1. a \o b \in Seq(S) /\ Len(a \o b) = Len(a) + Len(b)
    BY <1>1, <1>2, ConcatProperties
  <2> QED BY <1>1, <1>2, <2>1
<1>4. ASSUME NEW j \in 1 .. Len(s) - 1 PROVE (a \o b)[j] = IF j < i THEN s[j] ELSE s[j + 1]
  <2>1. CASE j < i
    BY <1>1, <1>2, <2>1
  <2>2. CASE ~(j < i)
    <3>1. (a \o b)[j] = b[j - (i - 1)] /\ j - (i - 1) \in 1 .. Len(s) - i
      BY <1>1, <1>2, <2>2
    <3>2. b[j - (i - 1)] = s[i + (j - (i - 1))]
      BY <1>2, <3>1
    <3>3. i + (j - (i - 1)) = j + 1 /\ ~(j < i)
      BY <2>2
    <3> QED BY <3>1, <3>2, <3>3
  <2> QED BY <2>1, <2>2
<1> QED BY <1>3, <1>4 DEF RemoveAt, a, b

LEMMA LeftTail ==
  ASSUME NEW S, NEW s \in Seq(S), s # <<>>
  PROVE  /\ Tail(s) \in Seq(S) /\ Len(Tail(s)) = Len(s) - 1 /\ s[1] \in S /\ Len(s) >= 1
         /\ \A j \in 1 .. Len(s) - 1 : Tail(s)[j] = s[j + 1]
OBVIOUS

\* Who stands in the line of a pool, and who holds one of its places.
Active == {"waiting", "calling", "pausing"}
Lined(q, k) == {r \in Run : \E i \in 1 .. Len(q.line[k]) : q.line[k][i] = r}
Holders(q, st, pl, k) == {r \in Run : st[r] \in Active /\ pl[r] = k /\ r \notin Lined(q, k)}

\* Nobody stands in two lines or twice in one, and who does waits; every place of a pool is free or
\* somebody's.
Once(s) == \A i, j \in 1 .. Len(s) : s[i] = s[j] => i = j
Quotas == [free : [Pool -> Nat], line : [Pool -> Seq(Run)]]
Balanced(q, st, pl, k) ==
  /\ Once(q.line[k])
  /\ \A r \in Lined(q, k) : st[r] = "waiting" /\ pl[r] = k
  /\ IsFiniteSet(Holders(q, st, pl, k))
  /\ q.free[k] + Cardinality(Holders(q, st, pl, k)) = Size[k]
Placed(q, st, pl) ==
  /\ q \in Quotas /\ st \in [Run -> Stage] /\ pl \in [Run -> Pool]
  /\ \A k \in Pool : Balanced(q, st, pl, k)

LEMMA QuotaTyped ==
  ASSUME NEW q \in Quotas, NEW k \in Pool
  PROVE  q.free[k] \in Nat /\ q.line[k] \in Seq(Run) /\ Len(q.line[k]) \in Nat
BY DEF Quotas

\* The quota after a change of one pool's free places, or of its line.
LEMMA FreeSet ==
  ASSUME NEW q \in Quotas, NEW k \in Pool, NEW n \in Nat
  PROVE  LET p == [q EXCEPT !.free[k] = n] IN
           /\ p \in Quotas /\ p.free[k] = n /\ p.line = q.line
           /\ \A l \in Pool \ {k} : p.free[l] = q.free[l]
BY DEF Quotas

LEMMA LineSet ==
  ASSUME NEW q \in Quotas, NEW k \in Pool, NEW s \in Seq(Run)
  PROVE  LET p == [q EXCEPT !.line[k] = s] IN
           /\ p \in Quotas /\ p.line[k] = s /\ p.free = q.free
           /\ \A l \in Pool \ {k} : p.line[l] = q.line[l]
BY DEF Quotas

\* One run more or less among the holders.
LEMMA HoldersChange ==
  ASSUME NEW A, NEW B, NEW r, IsFiniteSet(A)
  PROVE  /\ r \notin A /\ B = A \cup {r} => IsFiniteSet(B) /\ Cardinality(B) = Cardinality(A) + 1
         /\ r \in A /\ B = A \ {r} => IsFiniteSet(B) /\ Cardinality(B) = Cardinality(A) - 1
         /\ Cardinality(A) \in Nat
BY FS_AddElement, FS_RemoveElement, FS_CardinalityType

\* Other pools do not notice.
LEMMA OtherPool ==
  ASSUME NEW q \in Quotas, NEW st, NEW pl, NEW p, NEW st2, NEW pl2, NEW r \in Run, NEW l \in Pool,
         Balanced(q, st, pl, l), p.free[l] = q.free[l], p.line[l] = q.line[l],
         \A o \in Run \ {r} : pl2[o] = pl[o] /\ (st2[o] = st[o] \/ pl[o] # l),
         r \notin Lined(q, l), pl[r] = l => st[r] \notin Active,
         pl2[r] = l => st2[r] \notin Active
  PROVE  Balanced(p, st2, pl2, l)
<1>1. Lined(p, l) = Lined(q, l)
  BY DEF Lined
<1>2. \A o \in Lined(q, l) : o # r /\ st[o] = "waiting" /\ pl[o] = l
  BY DEF Balanced
<1>3. \A o \in Lined(p, l) : st2[o] = "waiting" /\ pl2[o] = l
  <2> SUFFICES ASSUME NEW o \in Lined(p, l) PROVE st2[o] = "waiting" /\ pl2[o] = l
    OBVIOUS
  <2>1. o \in Run \ {r} /\ st[o] = "waiting" /\ pl[o] = l
    BY <1>1, <1>2 DEF Lined
  <2> QED BY <2>1
<1>4. Holders(p, st2, pl2, l) = Holders(q, st, pl, l)
  BY <1>1 DEF Holders
<1> QED BY <1>3, <1>4 DEF Balanced

\* A run that holds nothing and waits for nothing goes from one such stage to another.
LEMMA IdleMoves ==
  ASSUME NEW q, NEW st, NEW pl, Placed(q, st, pl), NEW r \in Run, st[r] \notin Active,
         NEW s \in Stage \ Active, NEW k \in Pool,
         NEW st2, NEW pl2, st2 = [st EXCEPT ![r] = s], pl2 = [pl EXCEPT ![r] = k]
  PROVE  Placed(q, st2, pl2)
<1>1. /\ st2 \in [Run -> Stage] /\ pl2 \in [Run -> Pool] /\ st2[r] = s /\ pl2[r] = k
      /\ \A o \in Run \ {r} : st2[o] = st[o] /\ pl2[o] = pl[o]
  BY DEF Placed
<1>2. ASSUME NEW l \in Pool PROVE Balanced(q, st2, pl2, l)
  <2>1. Balanced(q, st, pl, l) /\ q \in Quotas
    BY DEF Placed
  <2>2. r \notin Lined(q, l)
    BY <2>1 DEF Balanced, Active
  <2> QED BY <1>1, <2>1, <2>2, OtherPool
<1> QED BY <1>1, <1>2 DEF Placed

\* A holder goes on and keeps its place.
LEMMA HolderMoves ==
  ASSUME NEW q, NEW st, NEW pl, Placed(q, st, pl), NEW r \in Run, st[r] \in Active, r \notin Lined(q, pl[r]),
         NEW s \in {"calling", "pausing"}
  PROVE  Placed(q, [st EXCEPT ![r] = s], pl)
<1> DEFINE st2 == [st EXCEPT ![r] = s]
<1>1. st2 \in [Run -> Stage] /\ st2[r] = s /\ \A o \in Run \ {r} : st2[o] = st[o]
  BY DEF Placed, Stage
<1> HIDE DEF st2
<1>2. ASSUME NEW l \in Pool PROVE Balanced(q, st2, pl, l)
  <2>1. Balanced(q, st, pl, l)
    BY DEF Placed
  <2>2. Holders(q, st2, pl, l) = Holders(q, st, pl, l)
    BY <1>1 DEF Holders, Active
  <2>3. r \notin Lined(q, l)
    BY <2>1 DEF Balanced
  <2>4. \A o \in Lined(q, l) : o \in Run \ {r}
    BY <2>3 DEF Lined
  <2> QED BY <1>1, <2>1, <2>2, <2>4 DEF Balanced
<1>3. Placed(q, st2, pl)
  BY <1>1, <1>2 DEF Placed
<1> QED BY <1>3 DEF st2

\* A place is taken.
LEMMA TakeKeeps ==
  ASSUME NEW q, NEW st, NEW pl, Placed(q, st, pl), NEW r \in Run, st[r] \notin Active,
         NEW k \in Pool, q.free[k] > 0
  PROVE  Placed(TakePlace(q, k), [st EXCEPT ![r] = "calling"], [pl EXCEPT ![r] = k])
<1> DEFINE st2 == [st EXCEPT ![r] = "calling"]
           pl2 == [pl EXCEPT ![r] = k]
           p == TakePlace(q, k)
<1>1. /\ st2 \in [Run -> Stage] /\ pl2 \in [Run -> Pool] /\ st2[r] = "calling" /\ pl2[r] = k
      /\ \A o \in Run \ {r} : st2[o] = st[o] /\ pl2[o] = pl[o]
  BY DEF Placed, Stage
<1>2. q \in Quotas /\ q.free[k] \in Nat /\ q.free[k] - 1 \in Nat
  BY QuotaTyped DEF Placed
<1>3. /\ p \in Quotas /\ p.free[k] = q.free[k] - 1 /\ p.line = q.line
      /\ \A l \in Pool \ {k} : p.free[l] = q.free[l]
  <2>1. PICK n : n = q.free[k] - 1
    OBVIOUS
  <2>2. p = [q EXCEPT !.free[k] = n] /\ n \in Nat
    BY <1>2, <2>1 DEF TakePlace
  <2> QED BY <1>2, <2>1, <2>2, FreeSet
<1> HIDE DEF st2, pl2, p
<1>4. ASSUME NEW l \in Pool PROVE Balanced(q, st, pl, l) /\ r \notin Lined(q, l)
  BY <1>4 DEF Placed, Balanced, Active
<1>5. ASSUME NEW l \in Pool \ {k} PROVE Balanced(p, st2, pl2, l)
  BY <1>1, <1>2, <1>3, <1>4, OtherPool
<1>6. Balanced(p, st2, pl2, k)
  <2>1. Lined(p, k) = Lined(q, k)
    BY <1>3 DEF Lined
  <2>2. Holders(p, st2, pl2, k) = Holders(q, st, pl, k) \cup {r} /\ r \notin Holders(q, st, pl, k)
    BY <1>1, <1>4, <2>1 DEF Holders, Active
  <2>3. \A o \in Lined(q, k) : o \in Run \ {r}
    BY <1>4 DEF Lined
  <2>4. /\ IsFiniteSet(Holders(p, st2, pl2, k))
        /\ Cardinality(Holders(p, st2, pl2, k)) = Cardinality(Holders(q, st, pl, k)) + 1
        /\ Cardinality(Holders(q, st, pl, k)) \in Nat
    BY <1>4, <2>2, HoldersChange DEF Balanced
  <2>5. p.free[k] + Cardinality(Holders(p, st2, pl2, k)) = Size[k]
    BY <1>2, <1>3, <1>4, <2>4 DEF Balanced
  <2> QED BY <1>1, <1>3, <1>4, <2>1, <2>3, <2>4, <2>5 DEF Balanced
<1>7. Placed(p, st2, pl2)
  BY <1>1, <1>3, <1>5, <1>6 DEF Placed
<1> QED BY <1>7 DEF st2, pl2, p

\* A run joins the line.
LEMMA JoinKeeps ==
  ASSUME NEW q, NEW st, NEW pl, Placed(q, st, pl), NEW r \in Run, st[r] \notin Active, NEW k \in Pool
  PROVE  Placed(JoinLine(q, k, r), [st EXCEPT ![r] = "waiting"], [pl EXCEPT ![r] = k])
<1> DEFINE st2 == [st EXCEPT ![r] = "waiting"]
           pl2 == [pl EXCEPT ![r] = k]
           p == JoinLine(q, k, r)
           s == q.line[k]
<1>1. /\ st2 \in [Run -> Stage] /\ pl2 \in [Run -> Pool] /\ st2[r] = "waiting" /\ pl2[r] = k
      /\ \A o \in Run \ {r} : st2[o] = st[o] /\ pl2[o] = pl[o]
  BY DEF Placed, Stage
<1>2. q \in Quotas /\ s \in Seq(Run)
  BY QuotaTyped DEF Placed
<1>3. /\ p \in Quotas /\ p.line[k] = Append(s, r) /\ p.free = q.free
      /\ \A l \in Pool \ {k} : p.line[l] = q.line[l]
  <2>1. PICK a : a = Append(s, r)
    OBVIOUS
  <2>2. a \in Seq(Run)
    BY <1>2, <2>1
  <2>3. p = [q EXCEPT !.line[k] = a]
    BY <2>1 DEF JoinLine
  <2>4. PICK b : b = [q EXCEPT !.line[k] = a]
    OBVIOUS
  <2>5. b \in Quotas /\ b.line[k] = a /\ b.free = q.free /\ \A l \in Pool \ {k} : b.line[l] = q.line[l]
    BY <1>2, <2>2, <2>4, LineSet
  <2> QED BY <2>1, <2>3, <2>4, <2>5
<1> HIDE DEF st2, pl2, p
<1>4. ASSUME NEW l \in Pool PROVE Balanced(q, st, pl, l) /\ r \notin Lined(q, l)
  BY <1>4 DEF Placed, Balanced, Active
<1>5. ASSUME NEW l \in Pool \ {k} PROVE Balanced(p, st2, pl2, l)
  BY <1>1, <1>2, <1>3, <1>4, OtherPool
<1>6. Balanced(p, st2, pl2, k)
  <2>1. /\ Len(Append(s, r)) = Len(s) + 1 /\ Append(s, r)[Len(s) + 1] = r /\ Len(s) \in Nat
        /\ \A i \in 1 .. Len(s) : Append(s, r)[i] = s[i] /\ s[i] # r
    BY <1>2, <1>4 DEF Lined
  <2>2. Lined(p, k) = Lined(q, k) \cup {r}
    BY <1>3, <2>1 DEF Lined
  <2>3. Once(p.line[k])
    <3>1. Once(s)
      BY <1>4 DEF Balanced
    <3>2. \A i \in 1 .. Len(s) + 1 : i \in 1 .. Len(s) \/ i = Len(s) + 1
      BY <2>1
    <3> QED BY <1>3, <2>1, <3>1, <3>2 DEF Once
  <2>4. Holders(p, st2, pl2, k) = Holders(q, st, pl, k)
    BY <1>1, <1>4, <2>2 DEF Holders, Active
  <2>5. \A o \in Lined(q, k) : o \in Run \ {r}
    BY <1>4 DEF Lined
  <2>6. \A o \in Lined(p, k) : st2[o] = "waiting" /\ pl2[o] = k
    BY <1>1, <1>4, <2>2, <2>5 DEF Balanced
  <2> QED BY <1>3, <1>4, <2>3, <2>4, <2>6 DEF Balanced
<1>7. Placed(p, st2, pl2)
  BY <1>1, <1>3, <1>5, <1>6 DEF Placed
<1> QED BY <1>7 DEF st2, pl2, p

LEMMA GivenToHead ==
  ASSUME NEW q \in Quotas, NEW k \in Pool, q.line[k] # <<>>
  PROVE  /\ GiveBack(q, k) \in Quotas /\ GiveBack(q, k).line[k] = Tail(q.line[k])
         /\ GiveBack(q, k).free = q.free /\ \A l \in Pool \ {k} : GiveBack(q, k).line[l] = q.line[l]
<1>1. PICK a : a = Tail(q.line[k])
  OBVIOUS
<1>2. a \in Seq(Run)
  BY <1>1, QuotaTyped, LeftTail
<1>3. GiveBack(q, k) = [q EXCEPT !.line[k] = a]
  BY <1>1 DEF GiveBack
<1>4. PICK b : b = [q EXCEPT !.line[k] = a]
  OBVIOUS
<1>5. b \in Quotas /\ b.line[k] = a /\ b.free = q.free /\ \A l \in Pool \ {k} : b.line[l] = q.line[l]
  BY <1>2, <1>4, LineSet
<1> QED BY <1>1, <1>3, <1>4, <1>5

\* A place is given back: to the pool, or to the head of its line.
LEMMA GiveKeeps ==
  ASSUME NEW q, NEW st, NEW pl, Placed(q, st, pl), NEW r \in Run, st[r] \in Active, r \notin Lined(q, pl[r]),
         NEW z \in Stage \ Active
  PROVE  Placed(GiveBack(q, pl[r]), [st EXCEPT ![r] = z], pl)
<1> DEFINE k == pl[r]
           st2 == [st EXCEPT ![r] = z]
           p == GiveBack(q, k)
           s == q.line[k]
<1>1. /\ st2 \in [Run -> Stage] /\ st2[r] = z /\ k \in Pool
      /\ \A o \in Run \ {r} : st2[o] = st[o]
  BY DEF Placed
<1>2. q \in Quotas /\ s \in Seq(Run) /\ q.free[k] \in Nat /\ pl \in [Run -> Pool]
  BY <1>1, QuotaTyped DEF Placed
<1> HIDE DEF st2
<1>3. ASSUME NEW l \in Pool PROVE Balanced(q, st, pl, l) /\ r \notin Lined(q, l)
  BY <1>3 DEF Placed, Balanced
<1>4. ASSUME NEW l \in Pool \ {k}, p.free[l] = q.free[l], p.line[l] = q.line[l] PROVE Balanced(p, st2, pl, l)
  BY <1>1, <1>2, <1>3, <1>4, OtherPool
<1>5. \A o \in Lined(q, k) : o \in Run \ {r} /\ st[o] = "waiting" /\ pl[o] = k
  BY <1>1, <1>3 DEF Lined, Balanced
<1>6. r \in Holders(q, st, pl, k)
  BY <1>1, <1>3 DEF Holders
<1>7. CASE s = <<>>
  <2>1. /\ p \in Quotas /\ p.free[k] = q.free[k] + 1 /\ p.line = q.line
        /\ \A l \in Pool \ {k} : p.free[l] = q.free[l]
    <3>1. PICK n : n = q.free[k] + 1
      OBVIOUS
    <3>2. p = [q EXCEPT !.free[k] = n] /\ n \in Nat
      BY <1>2, <1>7, <3>1 DEF GiveBack
    <3> QED BY <1>1, <1>2, <3>1, <3>2, FreeSet
  <2> HIDE DEF p
  <2>2. Lined(p, k) = Lined(q, k)
    BY <2>1 DEF Lined
  <2>3. Holders(p, st2, pl, k) = Holders(q, st, pl, k) \ {r}
    BY <1>1, <2>2 DEF Holders
  <2>4. /\ IsFiniteSet(Holders(p, st2, pl, k))
        /\ Cardinality(Holders(p, st2, pl, k)) = Cardinality(Holders(q, st, pl, k)) - 1
        /\ Cardinality(Holders(q, st, pl, k)) \in Nat
    BY <1>1, <1>3, <1>6, <2>3, HoldersChange DEF Balanced
  <2>5. p.free[k] + Cardinality(Holders(p, st2, pl, k)) = Size[k]
    BY <1>1, <1>2, <1>3, <2>1, <2>4 DEF Balanced
  <2>6. Balanced(p, st2, pl, k)
    BY <1>1, <1>3, <1>5, <2>1, <2>2, <2>4, <2>5 DEF Balanced
  <2> QED BY <1>1, <1>2, <1>4, <2>1, <2>6 DEF Placed, st2, p
<1>8. CASE s # <<>>
  <2>1. /\ Tail(s) \in Seq(Run) /\ Len(Tail(s)) = Len(s) - 1 /\ s[1] \in Run /\ Len(s) >= 1
        /\ \A j \in 1 .. Len(s) - 1 : Tail(s)[j] = s[j + 1]
    BY <1>2, <1>8, LeftTail
  <2>2. /\ p \in Quotas /\ p.line[k] = Tail(s) /\ p.free = q.free
        /\ \A l \in Pool \ {k} : p.line[l] = q.line[l]
    BY <1>1, <1>2, <1>8, GivenToHead
  <2> HIDE DEF p
  <2>3. Once(s) /\ Len(s) \in Nat
    BY <1>1, <1>2, <1>3 DEF Balanced
  <2>4. Lined(p, k) = Lined(q, k) \ {s[1]} /\ s[1] \in Lined(q, k)
    <3>1. s[1] \in Lined(q, k) /\ 1 \in 1 .. Len(s)
      BY <2>1, <2>3 DEF Lined
    <3>2. ASSUME NEW o \in Lined(p, k) PROVE o \in Lined(q, k) \ {s[1]}
      <4>1. PICK j \in 1 .. Len(s) - 1 : s[j + 1] = o
        BY <2>1, <2>2 DEF Lined
      <4>2. j + 1 \in 1 .. Len(s) /\ j + 1 # 1
        BY <2>3
      <4>3. s[j + 1] # s[1]
        BY <2>3, <3>1, <4>2 DEF Once
      <4> QED BY <4>1, <4>2, <4>3 DEF Lined
    <3>3. ASSUME NEW o \in Lined(q, k) \ {s[1]} PROVE o \in Lined(p, k)
      <4>1. PICK i \in 1 .. Len(s) : s[i] = o
        BY DEF Lined
      <4>2. i # 1 /\ i - 1 \in 1 .. Len(s) - 1 /\ (i - 1) + 1 = i
        BY <2>3, <4>1
      <4>3. Tail(s)[i - 1] = o
        BY <2>1, <4>1, <4>2
      <4> QED BY <2>1, <2>2, <4>2, <4>3 DEF Lined
    <3> QED BY <3>1, <3>2, <3>3
  <2>5. Once(p.line[k])
    <3> SUFFICES ASSUME NEW i \in 1 .. Len(s) - 1, NEW j \in 1 .. Len(s) - 1, Tail(s)[i] = Tail(s)[j]
                 PROVE  i = j
      BY <2>1, <2>2 DEF Once
    <3>1. s[i + 1] = s[j + 1] /\ i + 1 \in 1 .. Len(s) /\ j + 1 \in 1 .. Len(s)
      BY <2>1, <2>3
    <3>2. i + 1 = j + 1
      BY <2>3, <3>1 DEF Once
    <3> QED BY <3>2
  <2>6. s[1] # r /\ s[1] \in Run /\ st2[s[1]] = "waiting" /\ pl[s[1]] = k /\ s[1] \notin Holders(q, st, pl, k)
    BY <1>1, <1>5, <2>4 DEF Holders
  <2>7. Holders(p, st2, pl, k) = (Holders(q, st, pl, k) \ {r}) \cup {s[1]}
    BY <1>1, <2>4, <2>6 DEF Holders, Active
  <2>8. /\ IsFiniteSet(Holders(q, st, pl, k) \ {r})
        /\ Cardinality(Holders(q, st, pl, k) \ {r}) = Cardinality(Holders(q, st, pl, k)) - 1
        /\ Cardinality(Holders(q, st, pl, k)) \in Nat
    BY <1>1, <1>3, <1>6, HoldersChange DEF Balanced
  <2>9. /\ IsFiniteSet(Holders(p, st2, pl, k))
        /\ Cardinality(Holders(p, st2, pl, k)) = Cardinality(Holders(q, st, pl, k) \ {r}) + 1
    BY <2>6, <2>7, <2>8, HoldersChange
  <2>10. p.free[k] + Cardinality(Holders(p, st2, pl, k)) = Size[k]
    BY <1>1, <1>2, <1>3, <2>2, <2>8, <2>9 DEF Balanced
  <2>11. Balanced(p, st2, pl, k)
    BY <1>1, <1>5, <2>4, <2>5, <2>9, <2>10 DEF Balanced
  <2> QED BY <1>1, <1>2, <1>4, <2>2, <2>11 DEF Placed, st2, p
<1> QED BY <1>7, <1>8

\* A run that is cancelled in a line leaves it.
LEMMA LeaveKeeps ==
  ASSUME NEW q, NEW st, NEW pl, Placed(q, st, pl), NEW r \in Run, r \in Lined(q, pl[r]), NEW z \in Stage \ Active
  PROVE  Placed(LeaveLine(q, pl[r], r), [st EXCEPT ![r] = z], pl)
<1> DEFINE st2 == [st EXCEPT ![r] = z]
<1>1. PICK k \in Pool : k = pl[r]
  BY DEF Placed
<1>2. PICK s \in Seq(Run) : s = q.line[k]
  BY QuotaTyped DEF Placed
<1>3. PICK place \in 1 .. Len(s) : place = CHOOSE i \in 1 .. Len(s) : s[i] = r
  BY <1>1, <1>2 DEF Lined
<1>4. s[place] = r
  BY <1>1, <1>2, <1>3 DEF Lined
<1>5. PICK a : a = RemoveAt(s, place)
  OBVIOUS
<1>6. /\ a \in Seq(Run) /\ Len(a) = Len(s) - 1 /\ Len(s) \in Nat
      /\ \A j \in 1 .. Len(s) - 1 : a[j] = IF j < place THEN s[j] ELSE s[j + 1]
  BY <1>5, LeftLine
<1>7. PICK p : p = [q EXCEPT !.line[k] = a]
  OBVIOUS
<1>8. LeaveLine(q, k, r) = p
  BY <1>2, <1>3, <1>5, <1>7 DEF LeaveLine
<1>9. /\ p \in Quotas /\ p.line[k] = a /\ p.free = q.free
      /\ \A l \in Pool \ {k} : p.line[l] = q.line[l]
  BY <1>6, <1>7, LineSet DEF Placed
<1>10. /\ st2 \in [Run -> Stage] /\ st2[r] = z /\ pl \in [Run -> Pool] /\ q \in Quotas
       /\ \A o \in Run \ {r} : st2[o] = st[o]
  BY DEF Placed
<1> HIDE DEF st2
<1>11. ASSUME NEW l \in Pool PROVE Balanced(q, st, pl, l) /\ (l # k => r \notin Lined(q, l))
  BY <1>1, <1>11 DEF Placed, Balanced
<1>12. ASSUME NEW l \in Pool \ {k} PROVE Balanced(p, st2, pl, l)
  BY <1>1, <1>9, <1>10, <1>11, OtherPool
<1>13. Once(s)
  BY <1>2, <1>11 DEF Balanced
<1>14. Lined(p, k) = Lined(q, k) \ {r}
  <2>1. ASSUME NEW o \in Lined(p, k) PROVE o \in Lined(q, k) \ {r}
    <3>1. PICK j \in 1 .. Len(s) - 1 : a[j] = o
      BY <1>6, <1>9 DEF Lined
    <3>2. PICK i : i = IF j < place THEN j ELSE j + 1
      OBVIOUS
    <3>3. i \in 1 .. Len(s) /\ i # place /\ s[i] = o
      BY <1>6, <3>1, <3>2
    <3>4. o # r
      BY <1>4, <1>13, <3>3 DEF Once
    <3> QED BY <1>2, <3>3, <3>4 DEF Lined
  <2>2. ASSUME NEW o \in Lined(q, k) \ {r} PROVE o \in Lined(p, k)
    <3>1. PICK i \in 1 .. Len(s) : s[i] = o
      BY <1>2 DEF Lined
    <3>2. i # place
      BY <1>4, <3>1
    <3>3. PICK j : j = IF i < place THEN i ELSE i - 1
      OBVIOUS
    <3>4. j \in 1 .. Len(s) - 1 /\ (IF j < place THEN j ELSE j + 1) = i
      BY <1>6, <3>2, <3>3
    <3>5. a[j] = o
      BY <1>6, <3>1, <3>4
    <3> QED BY <1>6, <1>9, <3>4, <3>5 DEF Lined
  <2> QED BY <2>1, <2>2
<1>15. Once(a)
  <2> SUFFICES ASSUME NEW i \in 1 .. Len(s) - 1, NEW j \in 1 .. Len(s) - 1, a[i] = a[j] PROVE i = j
    BY <1>6 DEF Once
  <2>1. PICK m, n : m = (IF i < place THEN i ELSE i + 1) /\ n = (IF j < place THEN j ELSE j + 1)
    OBVIOUS
  <2>2. m \in 1 .. Len(s) /\ n \in 1 .. Len(s) /\ s[m] = s[n]
    BY <1>6, <2>1
  <2>3. m = n
    BY <1>13, <2>2 DEF Once
  <2> QED BY <1>6, <2>1, <2>3
<1>16. Holders(p, st2, pl, k) = Holders(q, st, pl, k)
  <2>1. r \notin Holders(q, st, pl, k) /\ r \notin Holders(p, st2, pl, k)
    BY <1>1, <1>10 DEF Holders
  <2> QED BY <1>10, <1>14, <2>1 DEF Holders
<1>17. \A o \in Lined(p, k) : st2[o] = "waiting" /\ pl[o] = k
  <2> SUFFICES ASSUME NEW o \in Lined(p, k) PROVE st2[o] = "waiting" /\ pl[o] = k
    OBVIOUS
  <2>1. o \in Lined(q, k) /\ o \in Run \ {r}
    BY <1>14 DEF Lined
  <2> QED BY <1>10, <1>11, <2>1 DEF Balanced
<1>18. Balanced(p, st2, pl, k)
  BY <1>9, <1>11, <1>15, <1>16, <1>17 DEF Balanced
<1>19. Placed(p, st2, pl)
  BY <1>9, <1>10, <1>12, <1>18 DEF Placed
<1> QED BY <1>1, <1>8, <1>19 DEF st2

\* A run asks for a place.
LEMMA EntersKeeps ==
  ASSUME NEW q, NEW st, Placed(q, st, pool), NEW r \in Run, st[r] \notin Active, Enters(r, q),
         \A s : [st EXCEPT ![r] = s] = [stage EXCEPT ![r] = s]
  PROVE  Placed(quota', stage', pool')
<1> DEFINE k == PoolFor(RunPriority(r), q)
<1>1. k \in Pool
  BY DEF PoolFor, Pool
<1>2. pool' = [pool EXCEPT ![r] = k]
  BY DEF Enters
<1>3. CASE q.free[k] > 0
  <2>1. quota' = TakePlace(q, k) /\ stage' = [stage EXCEPT ![r] = "calling"]
    BY <1>3 DEF Enters
  <2> HIDE DEF k
  <2> QED BY <1>1, <1>2, <1>3, <2>1, TakeKeeps
<1>4. CASE ~(q.free[k] > 0)
  <2>1. quota' = JoinLine(q, k, r) /\ stage' = [stage EXCEPT ![r] = "waiting"]
    BY <1>4 DEF Enters
  <2> HIDE DEF k
  <2> QED BY <1>1, <1>2, <2>1, JoinKeeps
<1> QED BY <1>3, <1>4

RunIInv == RunTypeOK /\ Placed(quota, stage, pool)

\* The pools' own types follow.
LEMMA PlacedTyped ==
  ASSUME NEW q, NEW st, NEW pl, Placed(q, st, pl), NEW k \in Pool
  PROVE  q.free[k] \in 0 .. Size[k] /\ q.line[k] \in Seq(Run)
<1>1. q \in Quotas /\ Balanced(q, st, pl, k) /\ q.free[k] \in Nat /\ Size[k] \in Nat
  BY QuotaTyped, SizeTyped DEF Placed
<1>2. Cardinality(Holders(q, st, pl, k)) \in Nat
  BY <1>1, FS_CardinalityType DEF Balanced
<1> QED BY <1>1, <1>2, QuotaTyped DEF Balanced

LEMMA InLineIs ==
  ASSUME RunIInv, NEW r \in Run
  PROVE  /\ InLine(r) <=> r \in Lined(quota, pool[r])
         /\ stage \in [Run -> Stage] /\ pool \in [Run -> Pool] /\ quota \in Quotas
         /\ Placed(quota, stage, pool)
BY DEF RunIInv, InLine, Lined, Placed

\* What is left to show of a step once its places add up.
LEMMA RunKeeps ==
  ASSUME RunIInv, Placed(quota', stage', pool'), priority' \in [Run -> Priority], records' \subseteq Run,
         told' \in [Run -> {"nothing", "running", "done", "failed"}],
         calls' \in [Run -> 0 .. MaxRunCalls], tried' \in [Run -> 0 .. MaxRetries], stopping' \in BOOLEAN
  PROVE  RunIInv'
<1>1. \A k \in Pool : quota'.free[k] \in 0 .. Size[k] /\ quota'.line[k] \in Seq(Run)
  BY PlacedTyped
<1>2. stage' \in [Run -> Stage] /\ pool' \in [Run -> Pool]
  BY DEF Placed
<1>3. RunTypeOK'
  BY <1>1, <1>2 DEF RunTypeOK
<1> QED BY <1>3 DEF RunIInv

LEMMA RunTyped ==
  ASSUME RunIInv
  PROVE  /\ priority \in [Run -> Priority] /\ records \subseteq Run
         /\ told \in [Run -> {"nothing", "running", "done", "failed"}]
         /\ calls \in [Run -> 0 .. MaxRunCalls] /\ tried \in [Run -> 0 .. MaxRetries] /\ stopping \in BOOLEAN
         /\ stage \in [Run -> Stage] /\ pool \in [Run -> Pool]
BY DEF RunIInv, RunTypeOK

\* The variables of a coroutine that is gone.
LEMMA GoneTyped ==
  ASSUME RunIInv, NEW r \in Run, Gone(r)
  PROVE  /\ priority' \in [Run -> Priority] /\ records' \subseteq Run
         /\ calls' \in [Run -> 0 .. MaxRunCalls] /\ tried' \in [Run -> 0 .. MaxRetries]
         /\ stage' = [stage EXCEPT ![r] = "over"] /\ pool' = [pool EXCEPT ![r] = "pub"]
<1>1. (CHOOSE p \in Priority : TRUE) \in Priority
  BY RunBounds
<1>2. priority' \in [Run -> Priority]
  BY <1>1, RunTyped DEF Gone
<1>3. 0 \in 0 .. MaxRunCalls /\ 0 \in 0 .. MaxRetries
  BY RunBounds
<1> QED BY <1>2, <1>3, RunTyped DEF Gone, Goes

LEMMA IdleStepKeeps ==
  ASSUME RunIInv, NEW r \in Run,
         Start(r) \/ Returns(r) \/ Raises(r) \/ (\E p \in Priority : SubmitRun(r, p)) \/ Shutdown
  PROVE  RunIInv'
<1>1. CASE Start(r)
  <2>1. /\ stage[r] = "starting" /\ stage' = [stage EXCEPT ![r] = "working"]
        /\ UNCHANGED <<priority, records, calls, tried, pool, quota, stopping>>
        /\ told' = [told EXCEPT ![r] = "running"]
    BY <1>1 DEF Start, At, Goes
  <2>2. pool' = [pool EXCEPT ![r] = pool[r]] /\ pool[r] \in Pool
    BY <2>1, RunTyped
  <2>3. Placed(quota', stage', pool')
    BY <2>1, <2>2, InLineIs, IdleMoves DEF Active, Stage
  <2> QED BY <2>1, <2>3, RunTyped, RunKeeps
<1>2. CASE \E p \in Priority : SubmitRun(r, p)
  <2>1. PICK p \in Priority :
          /\ stage[r] = "unborn" /\ stage' = [stage EXCEPT ![r] = "starting"]
          /\ priority' = [priority EXCEPT ![r] = p] /\ records' = records \cup {r}
          /\ UNCHANGED <<told, calls, tried, pool, quota, stopping>>
    BY <1>2 DEF SubmitRun, At, Goes
  <2>2. pool' = [pool EXCEPT ![r] = pool[r]] /\ pool[r] \in Pool
    BY <2>1, RunTyped
  <2>3. Placed(quota', stage', pool')
    BY <2>1, <2>2, InLineIs, IdleMoves DEF Active, Stage
  <2> QED BY <2>1, <2>3, RunTyped, RunKeeps
<1>3. CASE Returns(r) \/ Raises(r)
  <2>1. /\ stage[r] \in {"working", "returning"} /\ Gone(r) /\ UNCHANGED <<quota, stopping>>
        /\ \E outcome \in {"done", "failed"} : told' = [told EXCEPT ![r] = outcome]
    BY <1>3 DEF Returns, Raises, Finishes, At
  <2>2. Placed(quota', stage', pool')
    BY <2>1, GoneTyped, InLineIs, IdleMoves DEF Active, Stage, Pool
  <2> QED BY <2>1, <2>2, GoneTyped, RunTyped, RunKeeps
<1>4. CASE Shutdown
  BY <1>4, RunTyped, InLineIs, RunKeeps DEF Shutdown
<1> QED BY <1>1, <1>2, <1>3, <1>4

LEMMA CallStepKeeps ==
  ASSUME RunIInv, NEW r \in Run,
         Call(r) \/ Admitted(r) \/ Answered(r, "working") \/ Answered(r, "returning") \/ Pause(r) \/ Again(r)
  PROVE  RunIInv'
<1>1. ASSUME stage[r] \in {"calling", "pausing"} PROVE stage[r] \in Active /\ r \notin Lined(quota, pool[r])
  BY <1>1, InLineIs DEF Active, Placed, Balanced
<1>2. CASE Call(r)
  <2>1. /\ stage[r] \notin Active /\ Enters(r, quota) /\ calls' = [calls EXCEPT ![r] = calls[r] + 1]
        /\ calls[r] < MaxRunCalls /\ UNCHANGED <<priority, records, told, tried, stopping>>
    BY <1>2 DEF Call, At, Active
  <2>2. Placed(quota', stage', pool')
    BY <2>1, InLineIs, EntersKeeps
  <2>3. calls' \in [Run -> 0 .. MaxRunCalls]
    BY <2>1, RunTyped, RunBounds
  <2> QED BY <2>1, <2>2, <2>3, RunTyped, RunKeeps
<1>3. CASE Admitted(r)
  <2>1. /\ stage[r] = "waiting" /\ ~InLine(r) /\ stage' = [stage EXCEPT ![r] = "calling"]
        /\ UNCHANGED <<priority, records, told, calls, tried, pool, quota, stopping>>
    BY <1>3 DEF Admitted, At, Goes
  <2>2. Placed(quota', stage', pool')
    BY <2>1, InLineIs, HolderMoves DEF Active
  <2> QED BY <2>1, <2>2, RunTyped, RunKeeps
<1>4. CASE Answered(r, "working") \/ Answered(r, "returning")
  <2>1. PICK then \in {"working", "returning"} :
          /\ stage[r] = "calling" /\ stage' = [stage EXCEPT ![r] = then] /\ quota' = GiveBack(quota, pool[r])
          /\ tried' = [tried EXCEPT ![r] = 0] /\ UNCHANGED <<priority, records, told, calls, pool, stopping>>
    BY <1>4 DEF Answered, At, Goes, Given
  <2>2. Placed(quota', stage', pool')
    BY <1>1, <2>1, InLineIs, GiveKeeps DEF Active, Stage
  <2>3. tried' \in [Run -> 0 .. MaxRetries]
    BY <2>1, RunTyped, RunBounds
  <2> QED BY <2>1, <2>2, <2>3, RunTyped, RunKeeps
<1>5. CASE Pause(r)
  <2>1. /\ stage[r] = "calling" /\ tried[r] < MaxRetries /\ stage' = [stage EXCEPT ![r] = "pausing"]
        /\ tried' = [tried EXCEPT ![r] = tried[r] + 1]
        /\ UNCHANGED <<priority, records, told, calls, pool, quota, stopping>>
    BY <1>5 DEF Pause, At, Goes
  <2>2. Placed(quota', stage', pool')
    BY <1>1, <2>1, InLineIs, HolderMoves
  <2>3. tried' \in [Run -> 0 .. MaxRetries]
    BY <2>1, RunTyped, RunBounds
  <2> QED BY <2>1, <2>2, <2>3, RunTyped, RunKeeps
<1>6. CASE Again(r)
  <2>1. /\ stage[r] = "pausing" /\ Enters(r, GiveBack(quota, pool[r]))
        /\ UNCHANGED <<priority, records, told, calls, tried, stopping>>
    BY <1>6 DEF Again, At, Given
  <2>2. PICK q, st : q = GiveBack(quota, pool[r]) /\ st = [stage EXCEPT ![r] = "working"]
    OBVIOUS
  <2>3. Placed(q, st, pool)
    BY <1>1, <2>1, <2>2, InLineIs, GiveKeeps DEF Active, Stage
  <2>4. st[r] \notin Active /\ \A s : [st EXCEPT ![r] = s] = [stage EXCEPT ![r] = s]
    BY <2>2, RunTyped DEF Active
  <2>5. Placed(quota', stage', pool')
    BY <2>1, <2>2, <2>3, <2>4, EntersKeeps
  <2> QED BY <2>1, <2>5, RunTyped, RunKeeps
<1> QED BY <1>2, <1>3, <1>4, <1>5, <1>6

LEMMA CancelKeeps == ASSUME RunIInv, NEW r \in Run, Cancelled(r) PROVE RunIInv'
<1>1. /\ Gone(r) /\ UNCHANGED <<told, stopping>>
      /\ quota' = IF Holds(r) THEN GiveBack(quota, pool[r])
                  ELSE IF InLine(r) THEN LeaveLine(quota, pool[r], r) ELSE quota
  BY DEF Cancelled, Given
<1>2. stage' = [stage EXCEPT ![r] = "over"] /\ pool' = [pool EXCEPT ![r] = "pub"]
  BY <1>1, GoneTyped
<1>3. PICK st : st = [stage EXCEPT ![r] = "over"]
  OBVIOUS
<1>4. "over" \in Stage \ Active /\ "pub" \in Pool
  BY DEF Stage, Active, Pool
<1>5. st[r] = "over" /\ stage' = [st EXCEPT ![r] = "over"]
  BY <1>2, <1>3, RunTyped
<1>6. CASE Holds(r) \/ InLine(r)
  <2>1. Placed(quota', st, pool)
    <3>1. CASE Holds(r)
      BY <1>1, <1>3, <1>4, <3>1, InLineIs, GiveKeeps DEF Holds, Active
    <3>2. CASE ~Holds(r)
      BY <1>1, <1>3, <1>4, <1>6, <3>2, InLineIs, LeaveKeeps
    <3> QED BY <3>1, <3>2
  <2>2. Placed(quota', stage', pool')
    BY <1>2, <1>4, <1>5, <2>1, IdleMoves
  <2> QED BY <1>1, <2>2, GoneTyped, RunTyped, RunKeeps
<1>7. CASE ~Holds(r) /\ ~InLine(r)
  <2>1. stage[r] \notin Active
    BY <1>7 DEF Holds, Active
  <2>2. Placed(quota', stage', pool')
    BY <1>1, <1>2, <1>4, <1>7, <2>1, InLineIs, IdleMoves
  <2> QED BY <1>1, <2>2, GoneTyped, RunTyped, RunKeeps
<1> QED BY <1>6, <1>7

LEMMA RunInitInv == RunInit => RunIInv
<1> SUFFICES ASSUME RunInit PROVE RunIInv OBVIOUS
<1>1. /\ stage \in [Run -> Stage] /\ pool \in [Run -> Pool] /\ \A r \in Run : stage[r] = "unborn"
      /\ stopping = FALSE /\ records = {}
  BY DEF RunInit, Stage, Pool
<1>2. quota \in Quotas /\ quota.free = Size /\ \A k \in Pool : quota.line[k] = <<>>
  BY SizeTyped DEF RunInit, Quotas
<1>3. ASSUME NEW k \in Pool PROVE Balanced(quota, stage, pool, k)
  <2>1. Len(quota.line[k]) = 0
    BY <1>2
  <2>2. Lined(quota, k) = {} /\ Once(quota.line[k])
    BY <2>1 DEF Lined, Once
  <2>3. Holders(quota, stage, pool, k) = {}
    BY <1>1 DEF Holders, Active
  <2>4. IsFiniteSet({}) /\ Cardinality({}) = 0
    BY FS_EmptySet
  <2>5. quota.free[k] + 0 = Size[k]
    BY <1>2, SizeTyped
  <2> QED BY <2>2, <2>3, <2>4, <2>5 DEF Balanced
<1>4. Placed(quota, stage, pool)
  BY <1>1, <1>2, <1>3 DEF Placed
<1>5. \A k \in Pool : quota.free[k] \in 0 .. Size[k] /\ quota.line[k] \in Seq(Run)
  BY <1>4, PlacedTyped
<1>6. (CHOOSE p \in Priority : TRUE) \in Priority
  BY RunBounds
<1>7. priority \in [Run -> Priority]
  BY <1>6 DEF RunInit
<1>8. calls \in [Run -> 0 .. MaxRunCalls] /\ tried \in [Run -> 0 .. MaxRetries]
      /\ told \in [Run -> {"nothing", "running", "done", "failed"}]
  BY RunBounds DEF RunInit
<1>9. RunTypeOK
  BY <1>1, <1>5, <1>7, <1>8 DEF RunTypeOK
<1> QED BY <1>4, <1>9 DEF RunIInv

LEMMA RunStepInv == RunIInv /\ [RunNext]_runVars => RunIInv'
<1> SUFFICES ASSUME RunIInv, [RunNext]_runVars PROVE RunIInv'
  OBVIOUS
<1>1. CASE Shutdown
  BY <1>1, RunTyped, InLineIs, RunKeeps DEF Shutdown, RunIInv
<1>2. ASSUME NEW r \in Run, Step(r) \/ \E p \in Priority : SubmitRun(r, p) PROVE RunIInv'
  BY <1>2, IdleStepKeeps, CallStepKeeps, CancelKeeps DEF Step
<1>3. CASE UNCHANGED runVars
  <2>1. UNCHANGED <<stage, priority, records, told, calls, tried, pool, quota, stopping>>
    BY <1>3 DEF runVars
  <2> QED BY <2>1, RunTyped, RunKeeps DEF RunIInv
<1> QED BY <1>1, <1>2, <1>3 DEF RunNext

\* The runs of a process, their calls and the pools keep their types.  (TaskRunner, _LlmQuota)
THEOREM RunTypeCorrect == RunSpec => []RunTypeOK
<1>1. RunIInv => RunTypeOK
  BY DEF RunIInv
<1> QED BY <1>1, RunInitInv, RunStepInv, PTL DEF RunSpec

\* Every place of a pool is free or somebody's: whichever pool a call was given, whatever attempts
\* failed and whoever was cancelled in a line or at a call, no place is lost and none is made.
\* (_LlmQuota.__aenter__ and __aexit__, BaseAgent._call, TaskRunner.shutdown)
PlacesAddUp ==
  \A k \in Pool : quota.free[k] + Cardinality({r \in Run : pool[r] = k /\ Holds(r)}) = Size[k]
THEOREM PlacesAreKept == RunSpec => []PlacesAddUp
<1>1. RunIInv => PlacesAddUp
  <2> SUFFICES ASSUME RunIInv, NEW k \in Pool
               PROVE  quota.free[k] + Cardinality({r \in Run : pool[r] = k /\ Holds(r)}) = Size[k]
    BY DEF PlacesAddUp
  <2>1. Holders(quota, stage, pool, k) = {r \in Run : pool[r] = k /\ Holds(r)}
    BY InLineIs DEF Holders, Holds, Active
  <2>2. quota.free[k] + Cardinality(Holders(quota, stage, pool, k)) = Size[k]
    BY DEF RunIInv, Placed, Balanced
  <2> QED BY <2>1, <2>2
<1> QED BY <1>1, RunInitInv, RunStepInv, PTL DEF RunSpec

-----------------------------------------------------------------------------
(* Alerts and thaw jobs keep their types *)

LEMMA AlertInitTyped == AlertInit => AlertTypeOK
<1> SUFFICES ASSUME AlertInit PROVE AlertTypeOK OBVIOUS
<1>1. outgoing \in [Monitor -> Seq(Report)]
  <2>1. <<>> \in Seq(Report)
    OBVIOUS
  <2> QED BY <2>1 DEF AlertInit
<1>2. audited \in [Monitor -> Report] /\ heard \in Report
  BY DEF AlertInit, Report
<1>3. flips \in 0 .. MaxFlips /\ sentInMinute \in 0 .. NotifyCap + 1 /\ sendFaults \in 0 .. MaxSendFaults
  BY AlertBounds DEF AlertInit
<1> QED BY <1>1, <1>2, <1>3 DEF AlertInit, AlertTypeOK

\* A process writes its audit log and queues a message.
LEMMA ReportsTyped ==
  ASSUME AlertTypeOK, NEW p \in Monitor, NEW r \in Report, Reports(p, r)
  PROVE  audited' \in [Monitor -> Report] /\ outgoing' \in [Monitor -> Seq(Report)]
<1>1. Append(outgoing[p], r) \in Seq(Report)
  BY DEF AlertTypeOK
<1> QED BY <1>1 DEF Reports, AlertTypeOK

LEMMA AlertStepTyped == AlertTypeOK /\ [AlertNext]_alertVars => AlertTypeOK'
<1> SUFFICES ASSUME AlertTypeOK, [AlertNext]_alertVars PROVE AlertTypeOK'
  OBVIOUS
<1>1. CASE UNCHANGED alertVars
  BY <1>1 DEF alertVars, AlertTypeOK
<1>2. CASE Cross
  BY <1>2, AlertBounds DEF Cross, AlertTypeOK, messageVars
<1>3. CASE CoolingEnds
  BY <1>3 DEF CoolingEnds, AlertTypeOK, messageVars
<1>4. CASE MinuteEnds
  BY <1>4, AlertBounds DEF MinuteEnds, AlertTypeOK
<1>5. ASSUME NEW r \in Report, QuietEnds(r) PROVE AlertTypeOK'
  BY <1>5 DEF QuietEnds, AlertTypeOK
<1>6. ASSUME NEW p \in Monitor, Raise(p) PROVE AlertTypeOK'
  <2>1. audited' \in [Monitor -> Report] /\ outgoing' \in [Monitor -> Seq(Report)]
    BY <1>6, ReportsTyped DEF Raise, Report
  <2> QED BY <1>6, <2>1 DEF Raise, AlertTypeOK, messageVars
<1>7. ASSUME NEW p \in Monitor, Resolve(p) PROVE AlertTypeOK'
  <2>1. audited' \in [Monitor -> Report] /\ outgoing' \in [Monitor -> Seq(Report)]
    BY <1>7, ReportsTyped DEF Resolve, Report
  <2> QED BY <1>7, <2>1 DEF Resolve, AlertTypeOK, messageVars
<1>8. ASSUME NEW p \in Monitor, Dispatch(p) PROVE AlertTypeOK'
  <2>1. outgoing[p] \in Seq(Report) /\ outgoing[p] # <<>>
    BY <1>8 DEF Dispatch, AlertTypeOK
  <2>2. Head(outgoing[p]) \in Report /\ Tail(outgoing[p]) \in Seq(Report)
    BY <2>1
  <2>3. outgoing' \in [Monitor -> Seq(Report)]
    BY <1>8, <2>2 DEF Dispatch, AlertTypeOK
  <2>4. /\ quiet' \subseteq Report /\ sentInMinute' \in 0 .. NotifyCap + 1 /\ heard' \in Report
        /\ sendFaults' \in 0 .. MaxSendFaults
    BY <1>8, <2>2, AlertBounds DEF Dispatch, AlertTypeOK, messageVars
  <2> QED BY <1>8, <2>3, <2>4 DEF Dispatch, AlertTypeOK
<1> QED BY <1>1, <1>2, <1>3, <1>4, <1>5, <1>6, <1>7, <1>8 DEF AlertNext

\* The worker stops only before the restart.
ThawIInv == ThawTypeOK /\ (~thawWorker => thawRestarts = 0)

LEMMA ThawInitTyped == ThawInit => ThawIInv
BY ThawBounds DEF ThawInit, ThawTypeOK, ThawIInv

\* A job becomes another one.
LEMMA ThawGoesTyped ==
  ASSUME ThawIInv, NEW j \in DOMAIN thaws, NEW job \in Thaw, ThawGoes(j, job)
  PROVE  ThawIInv'
<1>1. thaws' = [thaws EXCEPT ![j] = job] /\ UNCHANGED <<tokens, thawWorker, thawRestarts>>
  BY DEF ThawGoes
<1>2. thaws' \in Seq(Thaw) /\ Len(thaws') = Len(thaws)
  BY <1>1 DEF ThawTypeOK, ThawIInv
<1> QED BY <1>1, <1>2 DEF ThawTypeOK, ThawIInv

LEMMA ThawJobs == ASSUME ThawIInv, NEW j \in DOMAIN thaws PROVE thaws[j] \in Thaw
BY DEF ThawTypeOK, ThawIInv

\* The fields a step of a job replaces.
LEMMA ThawFits ==
  ASSUME NEW job \in Thaw
  PROVE  /\ \A s \in {"queued", "running", "done", "cancelled"} : [job EXCEPT !.status = s] \in Thaw
         /\ \A r \in {"none", "scanning", "restoring", "dead"} : [job EXCEPT !.runner = r] \in Thaw
         /\ \A n \in 0 .. MaxItems : [job EXCEPT !.total = n] \in Thaw /\ [job EXCEPT !.cursor = n] \in Thaw
         /\ \A n \in 0 .. MaxRetry : [job EXCEPT !.attempts = n] \in Thaw
         /\ [job EXCEPT !.cancelled = TRUE] \in Thaw
         /\ job.cursor \in Nat /\ job.total \in 0 .. MaxItems /\ job.attempts \in Nat
<1>1. \A s \in {"queued", "running", "done", "cancelled"} : [job EXCEPT !.status = s] \in Thaw
  BY DEF Thaw
<1>2. \A r \in {"none", "scanning", "restoring", "dead"} : [job EXCEPT !.runner = r] \in Thaw
  BY DEF Thaw
<1>3. \A n \in 0 .. MaxItems : [job EXCEPT !.total = n] \in Thaw
  BY DEF Thaw
<1>4. \A n \in 0 .. MaxItems : [job EXCEPT !.cursor = n] \in Thaw
  BY DEF Thaw
<1>5. \A n \in 0 .. MaxRetry : [job EXCEPT !.attempts = n] \in Thaw
  BY DEF Thaw
<1>6. [job EXCEPT !.cancelled = TRUE] \in Thaw
  BY DEF Thaw
<1>7. job.cursor \in Nat /\ job.total \in 0 .. MaxItems /\ job.attempts \in Nat
  BY ThawBounds DEF Thaw
<1> QED BY <1>1, <1>2, <1>3, <1>4, <1>5, <1>6, <1>7

LEMMA ThawStepTyped == ThawIInv /\ [ThawNext]_thawVars => ThawIInv'
<1> SUFFICES ASSUME ThawIInv, [ThawNext]_thawVars PROVE ThawIInv'
  OBVIOUS
<1>1. CASE UNCHANGED thawVars
  BY <1>1 DEF thawVars, ThawTypeOK, ThawIInv
<1>2. CASE Estimate \/ Expire \/ StopWorker
  BY <1>2 DEF Estimate, Expire, StopWorker, ThawTypeOK, ThawIInv
<1>3. CASE Confirm
  <2>1. PICK t \in tokens : thaws' = Append(thaws, NewThaw(t))
    BY <1>3 DEF Confirm
  <2>2. t \in Token
    BY DEF ThawTypeOK, ThawIInv
  <2>3. NewThaw(t) \in Thaw
    BY <2>2, ThawBounds DEF NewThaw, Thaw, Token
  <2> HIDE DEF NewThaw
  <2>4. thaws' \in Seq(Thaw) /\ Len(thaws') = Len(thaws) + 1
    BY <2>1, <2>3 DEF ThawTypeOK, ThawIInv
  <2>5. Len(thaws') <= MaxThaws
    BY <1>3, <2>4, ThawBounds DEF Confirm, ThawTypeOK, ThawIInv
  <2> QED BY <1>3, <2>4, <2>5 DEF Confirm, ThawTypeOK, ThawIInv
<1>4. CASE WorkerRound
  <2>1. ASSUME NEW j \in DOMAIN thaws PROVE Begins(thaws[j]) \in Thaw
    <3>1. thaws[j] \in Thaw
      BY ThawJobs
    <3>2. [thaws[j] EXCEPT !.status = "running"] \in Thaw
      BY <3>1, ThawFits
    <3>3. [[thaws[j] EXCEPT !.status = "running"] EXCEPT !.runner = "scanning"] \in Thaw
      BY <3>2, ThawFits
    <3> QED BY <3>1, <3>3 DEF Begins
  <2>2. thaws' = [j \in DOMAIN thaws |-> Begins(thaws[j])] /\ UNCHANGED <<tokens, thawWorker, thawRestarts>>
    BY <1>4 DEF WorkerRound
  <2>3. thaws' \in Seq(Thaw) /\ Len(thaws') = Len(thaws)
    <3>1. DOMAIN thaws = 1 .. Len(thaws) /\ Len(thaws) \in Nat
      BY DEF ThawTypeOK, ThawIInv
    <3> QED BY <2>1, <2>2, <3>1
  <2> QED BY <2>2, <2>3 DEF ThawTypeOK, ThawIInv
<1>5. CASE StartWorker
  BY <1>5, ThawBounds DEF StartWorker, ThawTypeOK, ThawIInv
<1>6. ASSUME NEW j \in 1 .. MaxThaws, Scan(j) \/ ScanFails(j) \/ CancelThaw(j) \/ Finish(j) PROVE ThawIInv'
  <2>1. j \in DOMAIN thaws
    BY <1>6 DEF Scan, ScanFails, CancelThaw, Finish, Thawing
  <2> DEFINE job == thaws[j]
  <2>2. job \in Thaw
    BY <2>1, ThawJobs
  <2>3. CASE Scan(j)
    <3>1. PICK n \in 0 .. MaxItems : ThawGoes(j, [job EXCEPT !.runner = "restoring", !.total = n])
      BY <2>3 DEF Scan
    <3>2. [job EXCEPT !.runner = "restoring"] \in Thaw
      BY <2>2, ThawFits
    <3>3. [[job EXCEPT !.runner = "restoring"] EXCEPT !.total = n] \in Thaw
      BY <3>2, ThawFits
    <3> QED BY <2>1, <3>1, <3>3, ThawGoesTyped
  <2>4. CASE ScanFails(j)
    <3>1. [job EXCEPT !.runner = "dead"] \in Thaw
      BY <2>2, ThawFits
    <3> QED BY <2>1, <2>4, <3>1, ThawGoesTyped DEF ScanFails
  <2>5. CASE CancelThaw(j)
    <3>1. [job EXCEPT !.cancelled = TRUE] \in Thaw
      BY <2>2, ThawFits
    <3> QED BY <2>1, <2>5, <3>1, ThawGoesTyped DEF CancelThaw
  <2>6. CASE Finish(j)
    <3>1. PICK s \in {"cancelled", "done"} : ThawGoes(j, [job EXCEPT !.status = s])
      BY <2>6 DEF Finish
    <3>2. [job EXCEPT !.status = s] \in Thaw
      BY <2>2, ThawFits
    <3> QED BY <2>1, <3>1, <3>2, ThawGoesTyped
  <2> QED BY <1>6, <2>3, <2>4, <2>5, <2>6
<1>7. ASSUME NEW j \in 1 .. MaxThaws, TryRestore(j) PROVE ThawIInv'
  <2>1. j \in DOMAIN thaws /\ ThawGoes(j, Attempts(thaws[j])) /\ thaws[j].cursor < thaws[j].total
    BY <1>7 DEF TryRestore, Thawing
  <2> DEFINE job == thaws[j]
  <2>2. job \in Thaw
    BY <2>1, ThawJobs
  <2>3. Attempts(job) \in Thaw
    <3>1. job.cursor \in Nat /\ job.total \in 0 .. MaxItems /\ job.attempts \in Nat
      BY <2>2, ThawFits
    <3>2. job.cursor + 1 \in 0 .. MaxItems /\ 0 \in 0 .. MaxRetry
      BY <2>1, <3>1, ThawBounds
    <3>3. [job EXCEPT !.attempts = 0] \in Thaw
      BY <2>2, <3>2, ThawFits
    <3>4. [[job EXCEPT !.attempts = 0] EXCEPT !.cursor = job.cursor + 1] \in Thaw
      BY <3>2, <3>3, ThawFits
    <3>5. job.attempts < MaxRetry => [job EXCEPT !.attempts = job.attempts + 1] \in Thaw
      <4> SUFFICES ASSUME job.attempts < MaxRetry PROVE [job EXCEPT !.attempts = job.attempts + 1] \in Thaw
        OBVIOUS
      <4>1. job.attempts + 1 \in 0 .. MaxRetry
        BY <3>1, ThawBounds
      <4> QED BY <2>2, <4>1, ThawFits
    <3>6. CASE job.attempts < MaxRetry
      BY <3>5, <3>6 DEF Attempts
    <3>7. CASE ~(job.attempts < MaxRetry)
      <4>1. Attempts(job) = [[job EXCEPT !.attempts = 0] EXCEPT !.cursor = job.cursor + 1]
        BY <2>2, <3>7 DEF Attempts, Thaw
      <4> QED BY <3>4, <4>1
    <3> QED BY <3>6, <3>7
  <2> QED BY <2>1, <2>3, ThawGoesTyped
<1> QED BY <1>1, <1>2, <1>3, <1>4, <1>5, <1>6, <1>7 DEF ThawNext

-----------------------------------------------------------------------------
(* All services side by side *)

\* In the composition every service starts as on its own ...
LEMMA ServicesInit ==
  Init => ThawInit /\ AlertInit /\ InstanceInit /\ RunInit /\ MarketInit /\ BatchInit /\ ReviewInit
BY DEF Init

\* ... and makes a step of its own, or none.
LEMMA ServicesStep ==
  [Next]_servicesVars =>
    /\ [ThawNext]_thawVars /\ [AlertNext]_alertVars /\ [InstanceNext]_instanceVars /\ [RunNext]_runVars
    /\ [MarketNext]_marketVars /\ [BatchNext]_batchVars /\ [ReviewNext]_reviewVars
<1>1. CASE UNCHANGED servicesVars
  BY <1>1 DEF servicesVars
<1>2. CASE Next
  BY <1>2 DEF Next
<1> QED BY <1>1, <1>2

\* Every state variable of every service stays within its type.  (the types each module states)
THEOREM ServicesTypeCorrect == Spec => []ServicesTypeOK
<1> DEFINE Inv == /\ ThawIInv /\ AlertTypeOK /\ InstanceIInv /\ RunIInv /\ MarketIInv /\ BatchIInv /\ ReviewIInv
<1>1. Init => Inv
  BY ServicesInit, ThawInitTyped, AlertInitTyped, InstanceInitInv, RunInitInv, MarketInitInv, BatchInitInv,
     ReviewInitInv
<1>2. Inv /\ [Next]_servicesVars => Inv'
  BY ServicesStep, ThawStepTyped, AlertStepTyped, InstanceStepInv, RunStepInv, MarketStepInv, BatchStepInv,
     ReviewStepInv
<1>3. Inv => ServicesTypeOK
  BY DEF ServicesTypeOK, ThawIInv, InstanceIInv, RunIInv, MarketIInv, BatchIInv, ReviewIInv
<1> HIDE DEF Inv
<1> QED BY <1>1, <1>2, <1>3, PTL DEF Spec
=============================================================================
