------------------------------ MODULE MCStorage ------------------------------
(***************************************************************************)
(* The storage components, and the page of a task, checked side by side.   *)
(* They share no state that their models keep: a behaviour belongs to one  *)
(* of them, which the variable component names, and the others rest in one *)
(* of their initial states.                                                *)
(***************************************************************************)
EXTENDS Backends, Upload, Versions, CipherStream, Keys, Tiers, GovSync, Download, TaskPage, TLC

CONSTANTS p, q, x, y

VARIABLE component

Component == {"backends", "upload", "versions", "cipher", "keys", "tiers", "overrides", "download",
              "page"}
Is(c) == component = c

storageVars == <<component, backendVars, uploadVars, versionVars, cipherVars, keyVars, tierVars,
                 govVars, downloadVars, pageVars>>

Init ==
  /\ component \in Component
  /\ BackendInit  /\ (Is("backends")  \/ (store = "local" /\ legacy = None))
  /\ UploadInit   /\ (Is("upload")    \/ ~sealed)
  /\ VersionInit
  /\ CipherInit   /\ (Is("cipher")    \/ (plain = 0 /\ declared = 0))
  /\ KeyInit      /\ (Is("keys")      \/ ~macfile)
  /\ TierInit     /\ (Is("tiers")     \/ (early = {} /\ class = "standard"))
  /\ GovInit
  /\ DownloadInit /\ (Is("download")  \/ file.size = Longest)
  /\ PageInit

Next ==
  /\ UNCHANGED component
  /\ \/ /\ Is("backends") /\ BackendNext
        /\ UNCHANGED <<uploadVars, versionVars, cipherVars, keyVars, tierVars, govVars, downloadVars, pageVars>>
     \/ /\ Is("upload") /\ UploadNext
        /\ UNCHANGED <<backendVars, versionVars, cipherVars, keyVars, tierVars, govVars, downloadVars, pageVars>>
     \/ /\ Is("versions") /\ VersionNext
        /\ UNCHANGED <<backendVars, uploadVars, cipherVars, keyVars, tierVars, govVars, downloadVars, pageVars>>
     \/ /\ Is("cipher") /\ CipherNext
        /\ UNCHANGED <<backendVars, uploadVars, versionVars, keyVars, tierVars, govVars, downloadVars, pageVars>>
     \/ /\ Is("keys") /\ KeyNext
        /\ UNCHANGED <<backendVars, uploadVars, versionVars, cipherVars, tierVars, govVars, downloadVars, pageVars>>
     \/ /\ Is("tiers") /\ TierNext
        /\ UNCHANGED <<backendVars, uploadVars, versionVars, cipherVars, keyVars, govVars, downloadVars, pageVars>>
     \/ /\ Is("overrides") /\ GovNext
        /\ UNCHANGED <<backendVars, uploadVars, versionVars, cipherVars, keyVars, tierVars, downloadVars, pageVars>>
     \/ /\ Is("download") /\ DownloadNext
        /\ UNCHANGED <<backendVars, uploadVars, versionVars, cipherVars, keyVars, tierVars, govVars, pageVars>>
     \/ /\ Is("page") /\ PageNext
        /\ UNCHANGED <<backendVars, uploadVars, versionVars, cipherVars, keyVars, tierVars, govVars, downloadVars>>

Spec == Init /\ [][Next]_storageVars

\* Every state variable of the component at work stays within its type: records, bounded
\* counters, program counters.  (the types each module states)
StorageTypeOK ==
  /\ Is("backends") => BackendTypeOK
  /\ Is("upload") => UploadTypeOK
  /\ Is("versions") => VersionTypeOK
  /\ Is("cipher") => CipherTypeOK
  /\ Is("keys") => KeyTypeOK
  /\ Is("tiers") => TierTypeOK
  /\ Is("overrides") => GovTypeOK
  /\ Is("download") => DownloadTypeOK
  /\ Is("page") => PageTypeOK

Symmetric == Permutations({p, q}) \cup Permutations({x, y})
=============================================================================
