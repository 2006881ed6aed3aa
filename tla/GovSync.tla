------------------------------- MODULE GovSync -------------------------------
(***************************************************************************)
(* The governance switches of several server processes.  Each answers from *)
(* its own cache of an override and of a list of admitted owners; Redis    *)
(* holds both with a version, a write publishes an invalidation, and each  *)
(* process subscribes, loads everything once subscribed and reloads what a *)
(* message names.  Every request to Redis is a step of its own.            *)
(*                                                                         *)
(* Simplifications, by name.                                               *)
(*  - One feature; emergency-disable is a write of each.                   *)
(*  - Messages of one kind that wait for a process are one: its reload     *)
(*    reads what is there, not what the message says.                      *)
(*  - The answer to PUBLISH and what follows it are one step with it.      *)
(*  - Fail is any error of Redis or of the connection.                     *)
(***************************************************************************)
EXTENDS Naturals, FiniteSets

CONSTANTS
  Instance,      \* server processes
  Owner,         \* users a list may admit
  Switch,        \* what an override says: on or off
  MaxWrites,     \* bound: writes begun
  MaxGovFaults   \* bound: failures

Retries == 3
Kind == {"ovr", "gray"}
Unset == "unset"

ASSUME GovBounds == MaxWrites \in Nat /\ MaxGovFaults \in Nat /\ Unset \notin Switch

VARIABLES
  ovrKey,    \* Redis: the override with the version it was written with
  ovrSeq,    \* Redis: the version counter of overrides
  grayKey,   \* Redis: the set of owners; empty, it does not exist
  graySeq,   \* Redis: the version counter of the list
  snapshot,  \* Redis: a snapshot of both
  cache,     \* each process: _ovr, _ovr_ver, _gray, _gray_ver
  degraded,  \* processes whose store refuses writes
  inbox,     \* invalidations on their way to each process
  sync,      \* each process's subscription and what it has read
  writer,    \* each process's write in hand
  writes, govFaults,
  missed,    \* history: kinds a process lost a message or a reload of since it last read them
  raced      \* history: two writes of the override were in hand at once

govVars == <<ovrKey, ovrSeq, grayKey, graySeq, snapshot, cache, degraded, inbox, sync, writer,
             writes, govFaults, missed, raced>>
redisVars == <<ovrKey, ovrSeq, grayKey, graySeq>>

Version == Nat
Override == [ver : Version, val : Switch \cup {Unset}]
NoOverride == [ver |-> 0, val |-> Unset]
List == [ver : Version, members : SUBSET Owner]
NoList == [ver |-> 0, members |-> {}]
Cache == [ovr : Override, gray : List]
EmptyCache == [ovr |-> NoOverride, gray |-> NoList]

\* What a subscription or a write is doing, and what it has read so far.
Sync == [pc : {"down", "all", "allgray", "allver", "allmembers", "allapply", "listen", "ovr", "ovrapply",
               "gray", "graymembers", "grayapply"},
         boot : BOOLEAN, ovr : Override, gray : List, found : BOOLEAN]
Booting == [pc |-> "all", boot |-> TRUE, ovr |-> NoOverride, gray |-> NoList, found |-> FALSE]
Listening == [Booting EXCEPT !.boot = FALSE, !.pc = "listen"]
Writer == [pc : {"idle", "incr", "set", "check", "publish",
                 "change", "gincr", "members", "gpublish"},
           val : Switch \cup {Unset}, add : SUBSET Owner, remove : SUBSET Owner, ver : Version,
           members : SUBSET Owner, tries : 0 .. Retries, next : SUBSET Owner]
NoWriter == [pc |-> "idle", val |-> Unset, add |-> {}, remove |-> {}, ver |-> 0, members |-> {},
             tries |-> 0, next |-> {}]

GovTypeOK ==
  /\ ovrKey \in Override /\ ovrSeq \in Version /\ grayKey \subseteq Owner /\ graySeq \in Version
  /\ snapshot \in Cache
  /\ cache \in [Instance -> Cache] /\ degraded \subseteq Instance
  /\ inbox \in [Instance -> SUBSET Kind] /\ sync \in [Instance -> Sync]
  /\ writer \in [Instance -> Writer]
  /\ writes \in 0 .. MaxWrites /\ govFaults \in 0 .. MaxGovFaults
  /\ missed \in [Instance -> SUBSET Kind] /\ raced \in BOOLEAN

\* Nothing has been set yet, and every process listens.
GovInit ==
  /\ ovrKey = NoOverride /\ ovrSeq = 0 /\ grayKey = {} /\ graySeq = 0 /\ snapshot = EmptyCache
  /\ cache = [i \in Instance |-> EmptyCache] /\ degraded = {}
  /\ inbox = [i \in Instance |-> {}]
  /\ sync = [i \in Instance |-> Listening]
  /\ writer = [i \in Instance |-> NoWriter]
  /\ writes = 0 /\ govFaults = 0
  /\ missed = [i \in Instance |-> {}] /\ raced = FALSE

-----------------------------------------------------------------------------
\* _apply_ovr_cache and _apply_gray_cache: an older version is ignored.
Takes(old, new) == new.ver >= old.ver
AppliedOvr(old, new) == IF new.val = Unset THEN NoOverride ELSE IF Takes(old, new) THEN new ELSE old
\* Mutant: an empty list is passed over, as load_all does.
AppliedGrayFound(old, new) == IF Takes(old, new) /\ new.members # {} THEN new ELSE old
AppliedGray(old, new) == IF Takes(old, new) THEN new ELSE old

Serving(i) == ~sync[i].boot
Subscribed(i) == Serving(i) /\ sync[i].pc # "down"

\* A message reaches who is subscribed; the others miss it.
Publishes(kind) ==
  /\ inbox' = [i \in Instance |-> IF Subscribed(i) THEN inbox[i] \cup {kind} ELSE inbox[i]]
  /\ missed' = [i \in Instance |-> IF Subscribed(i) THEN missed[i] ELSE missed[i] \cup {kind}]
AllMiss(kinds) == missed' = [i \in Instance |-> missed[i] \cup kinds]

-----------------------------------------------------------------------------
(* Writes: set_governance_override_remote and gray_set_remote. *)

WriterAt(i, pc) == writer[i].pc = pc
WriterGoes(i, pc) == writer' = [writer EXCEPT ![i].pc = pc]
WriterEnds(i) == writer' = [writer EXCEPT ![i] = NoWriter]
OvrWriting(i) == writer[i].pc \in {"incr", "set", "check", "publish"}

\* A write begins unless the store is degraded.
Begin(i, state) ==
  /\ Serving(i) /\ WriterAt(i, "idle") /\ i \notin degraded /\ writes < MaxWrites
  /\ writes' = writes + 1
  /\ writer' = [writer EXCEPT ![i] = state]
  /\ raced' = (raced \/ (state.pc = "incr" /\ \E j \in Instance : OvrWriting(j)))

SetOverride(i) ==
  /\ \E v \in Switch : Begin(i, [NoWriter EXCEPT !.pc = "incr", !.val = v])
  /\ UNCHANGED <<redisVars, snapshot, cache, degraded, inbox, sync, govFaults, missed>>
SetGate(i) ==
  /\ \E o \in Owner : \/ Begin(i, [NoWriter EXCEPT !.pc = "change", !.add = {o}])
                      \/ Begin(i, [NoWriter EXCEPT !.pc = "change", !.remove = {o}])
  /\ UNCHANGED <<redisVars, snapshot, cache, degraded, inbox, sync, govFaults, missed>>

\* A snapshot, taken once and between writes, is what load_all reads.  Restoring it writes its override and adds its
\* owners; what was set since stays.
Snapshot(i) ==
  /\ Serving(i) /\ snapshot = EmptyCache /\ writes > 0 /\ \A j \in Instance : WriterAt(j, "idle")
  /\ snapshot' = [ovr |-> ovrKey, gray |-> [ver |-> graySeq, members |-> grayKey]]
  /\ degraded' = degraded \ {i}
  /\ UNCHANGED <<redisVars, cache, inbox, sync, writer, writes, govFaults, missed, raced>>
RestoreSnapshot(i) ==
  /\ LET owners == snapshot.gray.members IN
       \/ /\ snapshot.ovr.val # Unset
          /\ Begin(i, [NoWriter EXCEPT !.pc = "incr", !.val = snapshot.ovr.val, !.next = owners])
       \/ /\ snapshot.ovr.val = Unset /\ owners # {}
          /\ Begin(i, [NoWriter EXCEPT !.pc = "change", !.add = owners])
  /\ UNCHANGED <<redisVars, snapshot, cache, degraded, inbox, sync, govFaults, missed>>

\* write_override: INCR, SET, GET; a value of somebody else is written over.
Incr(i) ==
  /\ WriterAt(i, "incr")
  /\ ovrSeq' = ovrSeq + 1
  /\ writer' = [writer EXCEPT ![i].pc = "set", ![i].ver = ovrSeq + 1, ![i].tries = @ + 1]
  /\ UNCHANGED <<ovrKey, grayKey, graySeq, snapshot, cache, degraded, inbox, sync, writes, govFaults, missed, raced>>
Set(i) ==
  /\ WriterAt(i, "set")
  /\ ovrKey' = [ver |-> writer[i].ver, val |-> writer[i].val] /\ WriterGoes(i, "check")
  /\ UNCHANGED <<ovrSeq, grayKey, graySeq, snapshot, cache, degraded, inbox, sync, writes, govFaults, missed, raced>>
Check(i) ==
  /\ WriterAt(i, "check")
  /\ \/ ovrKey.ver = writer[i].ver /\ WriterGoes(i, "publish") /\ UNCHANGED missed
     \/ ovrKey.ver # writer[i].ver /\ writer[i].tries < Retries /\ WriterGoes(i, "incr") /\ UNCHANGED missed
     \/ ovrKey.ver # writer[i].ver /\ writer[i].tries = Retries /\ WriterEnds(i) /\ AllMiss({"ovr"})
  /\ UNCHANGED <<redisVars, snapshot, cache, degraded, inbox, sync, writes, govFaults, raced>>
Published(i) ==
  /\ cache' = [cache EXCEPT ![i].ovr = AppliedOvr(@, [ver |-> writer[i].ver, val |-> writer[i].val])]
  /\ writer' = [writer EXCEPT ![i] =
       IF @.next = {} THEN NoWriter ELSE [NoWriter EXCEPT !.pc = "change", !.add = writer[i].next]]
  /\ degraded' = degraded \ {i}
Publish(i) ==
  /\ WriterAt(i, "publish") /\ Publishes("ovr") /\ Published(i)
  /\ UNCHANGED <<redisVars, snapshot, sync, writes, govFaults, raced>>

\* gray_apply: the set, INCR, the set as it is by then.
Change(i) ==
  /\ WriterAt(i, "change")
  /\ grayKey' = (grayKey \cup writer[i].add) \ writer[i].remove /\ WriterGoes(i, "gincr")
  /\ UNCHANGED <<ovrKey, ovrSeq, graySeq, snapshot, cache, degraded, inbox, sync, writes, govFaults, missed, raced>>
GrayIncr(i) ==
  /\ WriterAt(i, "gincr")
  /\ graySeq' = graySeq + 1
  /\ writer' = [writer EXCEPT ![i].pc = "members", ![i].ver = graySeq + 1]
  /\ UNCHANGED <<ovrKey, ovrSeq, grayKey, snapshot, cache, degraded, inbox, sync, writes, govFaults, missed, raced>>
Members(i) ==
  /\ WriterAt(i, "members")
  /\ writer' = [writer EXCEPT ![i].pc = "gpublish", ![i].members = grayKey]
  /\ UNCHANGED <<redisVars, snapshot, cache, degraded, inbox, sync, writes, govFaults, missed, raced>>
GrayPublished(i) ==
  /\ cache' = [cache EXCEPT ![i].gray = AppliedGray(@, [ver |-> writer[i].ver, members |-> writer[i].members])]
  /\ WriterEnds(i) /\ degraded' = degraded \ {i}
GrayPublish(i) ==
  /\ WriterAt(i, "gpublish") /\ Publishes("gray") /\ GrayPublished(i)
  /\ UNCHANGED <<redisVars, snapshot, sync, writes, govFaults, raced>>

-----------------------------------------------------------------------------
(* Reading: prewarm, the subscription and its messages. *)

SyncAt(i, pc) == sync[i].pc = pc
Reads(i, kind) == missed' = [missed EXCEPT ![i] = @ \ {kind}]

\* Subscribed, or subscribed again: everything is loaded.
Subscribe(i) ==
  /\ SyncAt(i, "down") /\ sync' = [sync EXCEPT ![i].pc = "all"]
  /\ UNCHANGED <<redisVars, snapshot, cache, degraded, inbox, writer, writes, govFaults, missed, raced>>

\* load_all: the override, the names of the lists there are, and of each its version and members.
LoadOvr(i) ==
  /\ SyncAt(i, "all") /\ Reads(i, "ovr")
  /\ sync' = [sync EXCEPT ![i].pc = "allgray", ![i].ovr = ovrKey]
  /\ UNCHANGED <<redisVars, snapshot, cache, degraded, inbox, writer, writes, govFaults, raced>>
LoadNames(i) ==
  /\ SyncAt(i, "allgray")
  /\ sync' = [sync EXCEPT ![i].pc = IF grayKey # {} THEN "allver" ELSE "allapply", ![i].found = FALSE]
  /\ UNCHANGED <<redisVars, snapshot, cache, degraded, inbox, writer, writes, govFaults, missed, raced>>
LoadGray(i) ==
  /\ SyncAt(i, "allver") /\ Reads(i, "gray")
  /\ sync' = [sync EXCEPT ![i].pc = "allmembers", ![i].gray.ver = graySeq]
  /\ UNCHANGED <<redisVars, snapshot, cache, degraded, inbox, writer, writes, govFaults, raced>>
LoadMembers(i) ==
  /\ SyncAt(i, "allmembers")
  /\ sync' = [sync EXCEPT ![i].pc = "allapply", ![i].gray.members = grayKey, ![i].found = TRUE]
  /\ UNCHANGED <<redisVars, snapshot, cache, degraded, inbox, writer, writes, govFaults, missed, raced>>
ApplyAll(i) ==
  /\ SyncAt(i, "allapply")
  /\ cache' = [cache EXCEPT
       ![i].ovr = IF sync[i].ovr.val = Unset THEN @ ELSE AppliedOvr(@, sync[i].ovr),
       ![i].gray = IF sync[i].found THEN AppliedGray(@, sync[i].gray) ELSE @]
  /\ degraded' = degraded \ {i}
  /\ sync' = [sync EXCEPT ![i] = [Listening EXCEPT !.pc = IF sync[i].boot THEN "down" ELSE @]]
  /\ UNCHANGED <<redisVars, snapshot, inbox, writer, writes, govFaults, missed, raced>>

\* _handle_invalidated: after a delay the one thing is read and applied.
Receive(i) ==
  /\ SyncAt(i, "listen")
  /\ \E kind \in inbox[i] :
       /\ inbox' = [inbox EXCEPT ![i] = @ \ {kind}]
       /\ sync' = [sync EXCEPT ![i].pc = kind]
  /\ UNCHANGED <<redisVars, snapshot, cache, degraded, writer, writes, govFaults, missed, raced>>
ReloadOvr(i) ==
  /\ SyncAt(i, "ovr") /\ Reads(i, "ovr")
  /\ sync' = [sync EXCEPT ![i].pc = "ovrapply", ![i].ovr = ovrKey]
  /\ UNCHANGED <<redisVars, snapshot, cache, degraded, inbox, writer, writes, govFaults, raced>>
ApplyOvr(i) ==
  /\ SyncAt(i, "ovrapply")
  /\ cache' = [cache EXCEPT ![i].ovr = AppliedOvr(@, sync[i].ovr)]
  /\ sync' = [sync EXCEPT ![i] = Listening]
  /\ UNCHANGED <<redisVars, snapshot, degraded, inbox, writer, writes, govFaults, missed, raced>>
ReloadGray(i) ==
  /\ SyncAt(i, "gray") /\ Reads(i, "gray")
  /\ sync' = [sync EXCEPT ![i].pc = "graymembers", ![i].gray.ver = graySeq]
  /\ UNCHANGED <<redisVars, snapshot, cache, degraded, inbox, writer, writes, govFaults, raced>>
ReloadMembers(i) ==
  /\ SyncAt(i, "graymembers")
  /\ sync' = [sync EXCEPT ![i].pc = "grayapply", ![i].gray.members = grayKey]
  /\ UNCHANGED <<redisVars, snapshot, cache, degraded, inbox, writer, writes, govFaults, missed, raced>>
ApplyGray(i) ==
  /\ SyncAt(i, "grayapply")
  /\ cache' = [cache EXCEPT ![i].gray = AppliedGray(@, sync[i].gray)]
  /\ sync' = [sync EXCEPT ![i] = Listening]
  /\ UNCHANGED <<redisVars, snapshot, degraded, inbox, writer, writes, govFaults, missed, raced>>

-----------------------------------------------------------------------------
(* Failures. *)

WrittenBy(i) == CASE writer[i].pc \in {"check", "publish"} -> {"ovr"}
                  [] writer[i].pc \in {"gincr", "members", "gpublish"} -> {"gray"}
                  [] OTHER -> {}
Fault == govFaults < MaxGovFaults /\ govFaults' = govFaults + 1

\* A request of a write fails: it is refused, although Redis may have taken it.
WriteFails(i) ==
  /\ writer[i].pc \in {"incr", "set", "check", "change", "gincr", "members"} /\ Fault
  /\ WriterEnds(i) /\ degraded' = degraded \cup {i}
  /\ AllMiss(WrittenBy(i))
  /\ UNCHANGED <<redisVars, snapshot, cache, inbox, sync, writes, raced>>

\* PUBLISH fails: that is only logged.
PublishFails(i) ==
  /\ Fault
  /\ \/ WriterAt(i, "publish") /\ Published(i) /\ AllMiss({"ovr"})
     \/ WriterAt(i, "gpublish") /\ GrayPublished(i) /\ AllMiss({"gray"})
  /\ UNCHANGED <<redisVars, snapshot, inbox, sync, writes, raced>>

\* A full load fails: the store is degraded, and the subscription listens all the same.
LoadFails(i) ==
  /\ sync[i].pc \in {"all", "allgray", "allver", "allmembers"} /\ Fault
  /\ degraded' = degraded \cup {i}
  /\ missed' = [missed EXCEPT ![i] = Kind]
  /\ sync' = [sync EXCEPT ![i] = [Listening EXCEPT !.pc = IF sync[i].boot THEN "down" ELSE @]]
  /\ UNCHANGED <<redisVars, snapshot, cache, inbox, writer, writes, raced>>

\* A reload fails: that is only logged.
ReloadFails(i) ==
  /\ sync[i].pc \in {"ovr", "gray", "graymembers"} /\ Fault
  /\ missed' = [missed EXCEPT ![i] = @ \cup {IF SyncAt(i, "ovr") THEN "ovr" ELSE "gray"}]
  /\ sync' = [sync EXCEPT ![i] = Listening]
  /\ UNCHANGED <<redisVars, snapshot, cache, degraded, inbox, writer, writes, raced>>

\* The connection is lost while listening, with the messages under way.
Disconnect(i) ==
  /\ SyncAt(i, "listen") /\ Fault
  /\ sync' = [sync EXCEPT ![i].pc = "down"]
  /\ missed' = [missed EXCEPT ![i] = @ \cup inbox[i]]
  /\ inbox' = [inbox EXCEPT ![i] = {}]
  /\ UNCHANGED <<redisVars, snapshot, cache, degraded, writer, writes, raced>>

\* The process ends and comes back with an empty cache.
Restart(i) ==
  /\ Fault
  /\ cache' = [cache EXCEPT ![i] = EmptyCache] /\ degraded' = degraded \ {i}
  /\ inbox' = [inbox EXCEPT ![i] = {}] /\ sync' = [sync EXCEPT ![i] = Booting]
  /\ WriterEnds(i)
  /\ missed' = [j \in Instance |->
       (IF j = i THEN {} ELSE missed[j]) \cup WrittenBy(i)]
  /\ UNCHANGED <<redisVars, snapshot, writes, raced>>

GovNext == \E i \in Instance :
  \/ SetOverride(i) \/ SetGate(i) \/ Snapshot(i) \/ RestoreSnapshot(i)
  \/ Incr(i) \/ Set(i) \/ Check(i) \/ Publish(i)
  \/ Change(i) \/ GrayIncr(i) \/ Members(i) \/ GrayPublish(i)
  \/ Subscribe(i) \/ LoadOvr(i) \/ LoadNames(i) \/ LoadGray(i) \/ LoadMembers(i) \/ ApplyAll(i)
  \/ Receive(i) \/ ReloadOvr(i) \/ ApplyOvr(i) \/ ReloadGray(i) \/ ReloadMembers(i) \/ ApplyGray(i)
  \/ WriteFails(i) \/ PublishFails(i) \/ LoadFails(i) \/ ReloadFails(i) \/ Disconnect(i) \/ Restart(i)

GovSpec == GovInit /\ [][GovNext]_govVars

-----------------------------------------------------------------------------
\* When no write is in hand and no message waits, every process answers what Redis holds,
\* whatever order its own writes, its full load and its reloads were applied in, unless a
\* message or a reload of that kind was lost on it, or two writes of the override
\* overlapped.  A write of the list that stops before its version was counted does no harm:
\* what is read under an old version is newer than it, never older.
\* (write_override, gray_apply and _publish, _handle_invalidated, the full load of each new
\* subscription, and the versions both caches compare)
InStep(i) == SyncAt(i, "listen") /\ inbox[i] = {} /\ \A j \in Instance : WriterAt(j, "idle")
CachesSettle ==
  \A i \in Instance : InStep(i) =>
    /\ ("ovr" \notin missed[i] /\ ~raced => cache[i].ovr.val = ovrKey.val)
    /\ ("gray" \notin missed[i] => cache[i].gray.members = grayKey)
=============================================================================
