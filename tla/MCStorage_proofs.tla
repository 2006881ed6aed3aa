-------------------------- MODULE MCStorage_proofs --------------------------
(***************************************************************************)
(* The composition that the run Storage checks: every component keeps its  *)
(* promises in it.                                                         *)
(***************************************************************************)
EXTENDS MCStorage, Storage_proofs, CipherStream_proofs

\* Every component starts as on its own ...
LEMMA StorageInit ==
  Init => /\ BackendInit /\ UploadInit /\ VersionInit /\ CipherInit /\ KeyInit /\ TierInit /\ GovInit
          /\ DownloadInit /\ PageInit
BY DEF Init

\* ... and makes a step of its own, or none.
LEMMA StorageStep ==
  [Next]_storageVars =>
    /\ [BackendNext]_backendVars /\ [UploadNext]_uploadVars /\ [VersionNext]_versionVars
    /\ [CipherNext]_cipherVars /\ [KeyNext]_keyVars /\ [TierNext]_tierVars /\ [GovNext]_govVars
    /\ [DownloadNext]_downloadVars /\ [PageNext]_pageVars
<1>1. CASE UNCHANGED storageVars
  BY <1>1 DEF storageVars
<1>2. CASE Next
  BY <1>2 DEF Next
<1> QED BY <1>1, <1>2

\* A behaviour of the composition is one of each component.
LEMMA StorageComponents ==
  Spec => /\ BackendSpec /\ UploadSpec /\ VersionSpec /\ CipherSpec /\ KeySpec /\ TierSpec /\ GovSpec
          /\ DownloadSpec /\ PageSpec
BY StorageInit, StorageStep, PTL
DEF Spec, BackendSpec, UploadSpec, VersionSpec, CipherSpec, KeySpec, TierSpec, GovSpec, DownloadSpec, PageSpec

\* Every state variable of every component stays within its type.  (the types each module states)
THEOREM StorageTypeCorrect == Spec => []StorageTypeOK
<1>1. /\ BackendTypeOK /\ UploadTypeOK /\ VersionTypeOK /\ CipherTypeOK /\ KeyTypeOK /\ TierTypeOK /\ GovTypeOK
      /\ DownloadTypeOK /\ PageTypeOK
      => StorageTypeOK
  BY DEF StorageTypeOK
<1> QED
  BY <1>1, StorageComponents, BackendTypeCorrect, UploadTypeCorrect, VersionTypeCorrect, CipherTypeCorrect,
     KeyTypeCorrect, TierTypeCorrect, GovTypeCorrect, DownloadTypeCorrect, PageTypeCorrect, PTL
=============================================================================
