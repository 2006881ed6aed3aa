-------------------------------- MODULE Keys --------------------------------
(***************************************************************************)
(* The master keys of the encrypted artifacts and their rotation from      *)
(* version 1 to version 2 (storage/crypto_gate.py): what a server process  *)
(* started with one setting seals and opens, rewrapping what the old key   *)
(* sealed, and the check before the old key is retired.  The operator goes *)
(* through the phases of docs/P6-6-6; each is a setting, which a process   *)
(* takes up when it is restarted.                                          *)
(*                                                                         *)
(* Simplifications, by name.                                               *)
(*  - One artifact and the archived copies of its versions.                *)
(*  - The operator changes the setting when all processes run the last one.*)
(*  - A blob is what decides whether it opens: the version in its head and *)
(*    the key its header's HMAC was made with.                             *)
(*  - Key files are there or not, all of them; ENCRYPT_LEGACY_VERSIONS     *)
(*    adds nothing: it tries the current key on a blob of another one.     *)
(***************************************************************************)
EXTENDS Naturals

CONSTANT Server  \* processes

\* ENCRYPT_CIPHER_VERSION, ENCRYPT_LEGACY_KEYFILES, ENCRYPT_GRAY_MASTER_KEYFILES.
Config ==
  [first   |-> [current |-> 1, legacy |-> {},  gray |-> FALSE],
   gray    |-> [current |-> 1, legacy |-> {},  gray |-> TRUE],
   second  |-> [current |-> 2, legacy |-> {1}, gray |-> FALSE],
   retired |-> [current |-> 2, legacy |-> {},  gray |-> FALSE],
   back    |-> [current |-> 1, legacy |-> {2}, gray |-> FALSE]]
Setting == DOMAIN Config

VARIABLES
  setting,   \* the deployed setting
  running,   \* the setting each process was started with
  unlocked,  \* processes that have loaded their keys (_lock)
  keyfiles,  \* the key files can be read
  macfile,   \* ENCRYPT_HMAC_KEYFILE is set
  mainBlob,  \* the artifact's object
  oldBlobs,  \* the archived copies
  sealing,   \* what each process is about to put
  cleared,   \* the old key has passed the check for being retired
  rotation   \* what else has happened (history)

keyVars == <<setting, running, unlocked, keyfiles, macfile, mainBlob, oldBlobs, sealing, cleared, rotation>>

\* ver 0 is plain text; mac is the version whose master the HMAC key derives from, 0 the file's.
Blob == [ver : 0 .. 2, mac : 0 .. 2]
Resting == [pc |-> "idle", blob |-> [ver |-> 0, mac |-> 0]]
Sealing == [pc : {"idle", "put", "rewrap"}, blob : Blob]

KeyTypeOK ==
  /\ setting \in Setting /\ running \in [Server -> Setting] /\ unlocked \subseteq Server
  /\ keyfiles \in BOOLEAN /\ macfile \in BOOLEAN
  /\ mainBlob \in Blob /\ oldBlobs \subseteq Blob
  /\ sealing \in [Server -> Sealing]
  /\ cleared \in BOOLEAN
  /\ rotation \in [restored : BOOLEAN, unseen : BOOLEAN]

KeyInit ==
  /\ setting = "first" /\ running = [p \in Server |-> "first"]
  /\ unlocked = {} /\ keyfiles = TRUE /\ macfile \in BOOLEAN
  /\ mainBlob = [ver |-> 0, mac |-> 0]
  /\ oldBlobs = {mainBlob}
  /\ sealing = [p \in Server |-> Resting]
  /\ cleared = FALSE
  /\ rotation = [restored |-> FALSE, unseen |-> FALSE]

-----------------------------------------------------------------------------
Current(p) == Config[running[p]].current
Legacy(p) == Config[running[p]].legacy

\* _unlock: no version of the archive is as new as the current one, and all files load.
CanUnlock(p) == p \in unlocked \/ (keyfiles /\ \A v \in Legacy(p) : v < Current(p))
MacOf(v, p) == IF v = Current(p) /\ macfile THEN 0 ELSE v

\* _bundle_for and _split, then the header: the current key, or one of the archive, whose
\* HMAC key is always derived.
Opens(p, b) ==
  \/ b.ver = 0
  \/ CanUnlock(p) /\ b.ver \in {Current(p)} \cup Legacy(p) /\ b.mac = MacOf(b.ver, p)

\* encrypt_artifact: with the current key, with the next one for some of the writes when
\* gray, and not at all when there is no key.
Sealed(p) ==
  IF ~CanUnlock(p) THEN {[ver |-> 0, mac |-> 0]}
  ELSE {[ver |-> v, mac |-> MacOf(v, p)] :
          v \in {Current(p)} \cup IF Config[running[p]].gray THEN {Current(p) + 1} ELSE {}}
Unlocking(p) == unlocked' = IF CanUnlock(p) THEN unlocked \cup {p} ELSE unlocked

Encrypt(p) ==
  /\ sealing[p].pc = "idle"
  /\ \E b \in Sealed(p) : sealing' = [sealing EXCEPT ![p] = [pc |-> "put", blob |-> b]]
  /\ Unlocking(p)
  /\ UNCHANGED <<setting, running, keyfiles, macfile, mainBlob, oldBlobs, cleared, rotation>>

\* _rewrap_one of what is stored now: the same blocks under the current key ...
Rewrapped(p, b) == [b EXCEPT !.ver = Current(p), !.mac = MacOf(Current(p), p)]
RewrapRead(p) ==
  /\ sealing[p].pc = "idle"
  /\ mainBlob.ver \notin {0, Current(p)} /\ Opens(p, mainBlob)
  /\ sealing' = [sealing EXCEPT ![p] = [pc |-> "rewrap", blob |-> Rewrapped(p, mainBlob)]]
  /\ Unlocking(p)
  /\ UNCHANGED <<setting, running, keyfiles, macfile, mainBlob, oldBlobs, cleared, rotation>>

\* ... is put in its place, by a put like any other: it makes a version too.
PutBlob(p) ==
  /\ sealing[p].pc \in {"put", "rewrap"}
  /\ mainBlob' = sealing[p].blob
  /\ oldBlobs' = oldBlobs \cup {mainBlob'}
  /\ sealing' = [sealing EXCEPT ![p] = Resting]
  /\ UNCHANGED <<setting, running, unlocked, keyfiles, macfile, cleared, rotation>>

\* A rollback of the artifact puts an archived copy back as it is.
RestoreCopy ==
  /\ mainBlob' \in oldBlobs
  /\ rotation' = [rotation EXCEPT !.restored = TRUE]
  /\ UNCHANGED <<setting, running, unlocked, keyfiles, macfile, oldBlobs, sealing, cleared>>

-----------------------------------------------------------------------------
\* No process still runs an earlier setting.
Settled == \A p \in Server : running[p] = setting

\* scan_legacy_refs reads the heads of what is not under _v, _tx or _tmp; what it cannot
\* read it leaves out.
Referenced(v, missed) == ~missed /\ mainBlob.ver = v

\* retire_legacy_key of version 1, forced or not.  Mutant: the current version is counted.
RetireCurrent(p) ==
  /\ running[p] = "second" /\ ~cleared
  /\ \E forced, missed \in BOOLEAN :
       /\ forced \/ ~Referenced(Current(p), missed)
       /\ rotation' = [rotation EXCEPT !.unseen = @ \/ forced \/ missed \/ ~Settled]
  /\ cleared' = TRUE
  /\ UNCHANGED <<setting, running, unlocked, keyfiles, macfile, mainBlob, oldBlobs, sealing>>
Retire(p) ==
  /\ running[p] = "second" /\ ~cleared
  /\ \E forced, missed \in BOOLEAN :
       /\ forced \/ ~Referenced(1, missed)
       /\ rotation' = [rotation EXCEPT !.unseen = @ \/ forced \/ missed \/ ~Settled]
  /\ cleared' = TRUE
  /\ UNCHANGED <<setting, running, unlocked, keyfiles, macfile, mainBlob, oldBlobs, sealing>>

\* The operator's next phase: gray, switch, retire once the check has passed, take the
\* archived key up again, or go back.
Phases == {<<"first", "gray">>, <<"first", "second">>, <<"gray", "second">>, <<"second", "retired">>,
           <<"retired", "second">>, <<"second", "back">>, <<"back", "second">>}
Deploy ==
  /\ Settled
  /\ \E s \in Setting :
       /\ <<setting, s>> \in Phases
       /\ s = "retired" => cleared
       /\ setting' = s
  /\ cleared' = FALSE
  /\ UNCHANGED <<running, unlocked, keyfiles, macfile, mainBlob, oldBlobs, sealing, rotation>>

\* A process is restarted: what it was about to put is lost.
RestartServer(p) ==
  /\ running' = [running EXCEPT ![p] = setting]
  /\ unlocked' = unlocked \ {p}
  /\ sealing' = [sealing EXCEPT ![p] = Resting]
  /\ UNCHANGED <<setting, keyfiles, macfile, mainBlob, oldBlobs, cleared, rotation>>

KeyFiles ==
  /\ keyfiles' = ~keyfiles
  /\ UNCHANGED <<setting, running, unlocked, macfile, mainBlob, oldBlobs, sealing, cleared, rotation>>

KeyNext ==
  \/ \E p \in Server : Encrypt(p) \/ RewrapRead(p) \/ PutBlob(p) \/ Retire(p) \/ RestartServer(p)
  \/ RestoreCopy \/ Deploy \/ KeyFiles

KeySpec == KeyInit /\ [][KeyNext]_keyVars

-----------------------------------------------------------------------------
\* With the keys at hand, HMAC keys derived from them and no phase under way: before and
\* after the switch every process opens the artifact and all its versions, whoever wrote,
\* rewrapped or restarted in between; and once the old key is gone, still the artifact,
\* unless an old version was put back, or the check was forced, missed an object or
\* was made while a process still had the old setting.
\* (encrypt_artifact, _bundle_for, rotate_rewrap_deks, retire_legacy_key)
KeysSuffice ==
  Settled /\ keyfiles /\ ~macfile =>
    \A p \in Server :
      /\ setting \in {"first", "second"} /\ ~rotation.unseen => \A b \in oldBlobs \cup {mainBlob} : Opens(p, b)
      /\ setting = "retired" /\ rotation = [restored |-> FALSE, unseen |-> FALSE] => Opens(p, mainBlob)
=============================================================================
