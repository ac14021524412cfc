---------------------------- MODULE AssetLibrary ----------------------------
(***************************************************************************)
(* The asset library of a tenant (asset-service.ts): rows of Asset, and    *)
(* the blobs their storage keys name.  No transaction spans the two, so    *)
(* every operation is a request that reads rows, then writes them, then    *)
(* removes blobs that are no longer needed; others run in between, and it  *)
(* may stop between any two steps.                                         *)
(***************************************************************************)
EXTENDS Naturals, FiniteSets

CONSTANTS
  Keys,      \* storage keys; each is made from a random id and used once
  AssetIds,  \* ids of Asset rows, used once
  Requests   \* requests being served

Nothing == "none"

ASSUME LibraryAssumption == Nothing \notin Keys \union AssetIds

VARIABLES
  blobs,    \* storage keys with a blob
  minted,   \* storage keys used so far
  asset,    \* Asset rows
  linked,   \* assets some draft uses (ContentDraftAsset)
  request   \* requests between two steps

libraryVars == <<blobs, minted, asset, linked, request>>

\* key: storageKey.  path: the blob sourcePath names.  meta: the file the technical
\* metadata describes.  from: the asset it is a derivative of.
Unused == [is |-> "unused", key |-> Nothing, path |-> Nothing, meta |-> Nothing, from |-> Nothing]
Gone == [Unused EXCEPT !.is = "gone"]
Row(key, path, meta, from) == [is |-> "row", key |-> key, path |-> path, meta |-> meta, from |-> from]

Idle == [op |-> "idle", asset |-> Nothing, key |-> Nothing, old |-> Nothing, for |-> Nothing]
Operations == {"upload", "finalize", "insert", "uploadInsert", "replace", "removeOld",
               "delete", "removeBlob", "derive", "update"}

LibraryTypeOK ==
  /\ blobs \subseteq minted /\ minted \subseteq Keys
  /\ \A a \in AssetIds :
       \/ asset[a] \in {Unused, Gone}
       \/ /\ asset[a].is = "row"
          /\ asset[a].key \in Keys \union {Nothing}
          /\ {asset[a].path, asset[a].meta} \subseteq Keys
          /\ asset[a].from \in AssetIds \union {Nothing}
  /\ linked \subseteq {a \in AssetIds : asset[a].is = "row"}
  /\ \A r \in Requests : request[r].op \in Operations \union {"idle"}

Rows == {a \in AssetIds : asset[a].is = "row"}
RowsOf(k) == {a \in Rows : asset[a].key = k}
Fresh(k) == k \notin minted
Ask(r, op, a, k, old, for) ==
  request' = [request EXCEPT ![r] = [op |-> op, asset |-> a, key |-> k, old |-> old, for |-> for]]
Become(r, op) == request' = [request EXCEPT ![r].op = op]
End(r) == request' = [request EXCEPT ![r] = Idle]
NewRow(row) ==
  \E a \in AssetIds : asset[a] = Unused /\ asset' = [asset EXCEPT ![a] = row]

\* Deleting a blob may fail; the callers go on either way.
RemoveBlob(k) == blobs' \in {blobs, blobs \ {k}}

-----------------------------------------------------------------------------
(* Registering a file: finalizeTenantAssetFromBlob, uploadTenantAsset *)

\* uploadTenantAsset stores the file itself before it registers it.
Upload(r) ==
  /\ request[r] = Idle
  /\ \E k \in Keys :
       /\ Fresh(k)
       /\ minted' = minted \union {k}
       /\ blobs' = blobs \union {k}
       /\ Ask(r, "upload", Nothing, k, Nothing, Nothing)
  /\ UNCHANGED <<asset, linked>>

\* storage.head, then the look-up outside the transaction: "missing" and "found" end
\* the request.
FinalizeVerdict(k) ==
  IF k \notin blobs THEN "missing" ELSE IF RowsOf(k) # {} THEN "found" ELSE "absent"

FinalizeRead(r) ==
  LET k == request[r].key IN
  /\ request[r].op \in {"finalize", "upload"}
  /\ IF FinalizeVerdict(k) = "absent"
       THEN Become(r, IF request[r].op = "upload" THEN "uploadInsert" ELSE "insert")
       ELSE End(r)
  /\ UNCHANGED <<blobs, minted, asset, linked>>

\* Fault: no second look under the lock.
FinalizeInsertBlind(r) ==
  /\ request[r].op \in {"insert", "uploadInsert"}
  /\ NewRow(Row(request[r].key, request[r].key, request[r].key, Nothing))
  /\ End(r)
  /\ UNCHANGED <<blobs, minted, linked>>

\* The transaction under the advisory lock of the key looks again before it creates.
FinalizeInsert(r) ==
  LET k == request[r].key IN
  /\ request[r].op \in {"insert", "uploadInsert"}
  /\ IF RowsOf(k) = {} THEN NewRow(Row(k, k, k, Nothing)) ELSE UNCHANGED asset
  /\ End(r)
  /\ UNCHANGED <<blobs, minted, linked>>

\* The registration fails: uploadTenantAsset removes the file it stored.
FinalizeFails(r) ==
  /\ request[r].op \in {"finalize", "upload", "insert", "uploadInsert"}
  /\ IF request[r].op \in {"upload", "uploadInsert"}
       THEN RemoveBlob(request[r].key)
       ELSE UNCHANGED blobs
  /\ End(r)
  /\ UNCHANGED <<minted, asset, linked>>

-----------------------------------------------------------------------------
(* Replacing the file of an asset *)

\* replaceTenantAssetContent up to the upload of the new file.
ReplaceRead(r, a) ==
  /\ request[r] = Idle
  /\ a \in Rows
  /\ \E k \in Keys :
       /\ Fresh(k)
       /\ minted' = minted \union {k}
       /\ blobs' = blobs \union {k}
       /\ Ask(r, "replace", a, k, asset[a].key, Nothing)
  /\ UNCHANGED <<asset, linked>>

\* The transaction updates the row by id; it fails if the row has gone.
ReplaceCommit(r) ==
  LET a == request[r].asset
      k == request[r].key
  IN /\ request[r].op = "replace"
     /\ a \in Rows
     /\ asset' = [asset EXCEPT ![a].key = k, ![a].path = k, ![a].meta = k]
     /\ IF request[r].old = Nothing THEN End(r) ELSE Become(r, "removeOld")
     /\ UNCHANGED <<blobs, minted, linked>>

ReplaceFails(r) ==
  /\ request[r].op = "replace"
  /\ RemoveBlob(request[r].key)
  /\ End(r)
  /\ UNCHANGED <<minted, asset, linked>>

RemoveOld(r) ==
  /\ request[r].op = "removeOld"
  /\ RemoveBlob(request[r].old)
  /\ End(r)
  /\ UNCHANGED <<minted, asset, linked>>

-----------------------------------------------------------------------------
(* Derivatives, metadata, deletion *)

\* createTenantAssetDerivatives with one plan: an existing derivative is returned.  A
\* derivative shares the file of its source and has no storage key of its own.
DeriveRead(r, a) ==
  /\ request[r] = Idle
  /\ a \in Rows
  /\ \A b \in Rows : asset[b].from # a
  /\ Ask(r, "derive", a, asset[a].path, asset[a].meta, Nothing)
  /\ UNCHANGED <<blobs, minted, asset, linked>>

DeriveCreate(r) ==
  /\ request[r].op = "derive"
  /\ NewRow(Row(Nothing, request[r].key, request[r].old, request[r].asset))
  /\ End(r)
  /\ UNCHANGED <<blobs, minted, linked>>

\* updateTenantAssetMetadata writes back the metadata it read, with a few fields changed.
UpdateRead(r, a) ==
  /\ request[r] = Idle
  /\ a \in Rows
  /\ Ask(r, "update", a, Nothing, asset[a].meta, Nothing)
  /\ UNCHANGED <<blobs, minted, asset, linked>>

UpdateWrite(r) ==
  /\ request[r].op = "update"
  /\ request[r].asset \in Rows
  /\ asset' = [asset EXCEPT ![request[r].asset].meta = request[r].old]
  /\ End(r)
  /\ UNCHANGED <<blobs, minted, linked>>

DeleteRead(r, a) ==
  /\ request[r] = Idle
  /\ a \in Rows \ linked
  /\ Ask(r, "delete", a, asset[a].key, Nothing, Nothing)
  /\ UNCHANGED <<blobs, minted, asset, linked>>

\* Fault: the links stay.
DeleteRowAlone(r) ==
  /\ request[r].op = "delete"
  /\ request[r].asset \in Rows
  /\ asset' = [asset EXCEPT ![request[r].asset] = Gone]
  /\ IF request[r].key = Nothing THEN End(r) ELSE Become(r, "removeBlob")
  /\ UNCHANGED <<blobs, minted, linked>>

\* The links to drafts go with the row.
DeleteRow(r) ==
  LET a == request[r].asset IN
  /\ request[r].op = "delete"
  /\ a \in Rows
  /\ asset' = [asset EXCEPT ![a] = Gone]
  /\ linked' = linked \ {a}
  /\ IF request[r].key = Nothing THEN End(r) ELSE Become(r, "removeBlob")
  /\ UNCHANGED <<blobs, minted>>

DeleteBlob(r) ==
  /\ request[r].op = "removeBlob"
  /\ RemoveBlob(request[r].key)
  /\ End(r)
  /\ UNCHANGED <<minted, asset, linked>>

\* drafts/new and drafts/[id]/asset: a draft takes an asset, or gives it up.
LinkAsset(a) ==
  /\ a \in Rows
  /\ linked' \in {linked \union {a}, linked \ {a}}
  /\ UNCHANGED <<blobs, minted, asset, request>>

\* A request stops, or its next write fails: a row has gone, the database is away.
Stop(r) ==
  /\ request[r].op \in {"upload", "uploadInsert", "replace", "removeOld", "delete", "removeBlob",
                        "derive", "update"}
  /\ End(r)
  /\ UNCHANGED <<blobs, minted, asset, linked>>

ServiceStep(r) ==
  \/ Upload(r) \/ FinalizeRead(r) \/ FinalizeInsert(r) \/ FinalizeFails(r)
  \/ ReplaceCommit(r) \/ ReplaceFails(r) \/ RemoveOld(r)
  \/ DeriveCreate(r) \/ UpdateWrite(r) \/ DeleteRow(r) \/ DeleteBlob(r) \/ Stop(r)
  \/ \E a \in AssetIds :
       ReplaceRead(r, a) \/ DeriveRead(r, a) \/ UpdateRead(r, a) \/ DeleteRead(r, a)

LibraryInit ==
  /\ blobs = {} /\ minted = {} /\ linked = {}
  /\ asset = [a \in AssetIds |-> Unused]
  /\ request = [r \in Requests |-> Idle]

LibraryNext == (\E r \in Requests : ServiceStep(r)) \/ (\E a \in AssetIds : LinkAsset(a))

LibrarySpec == LibraryInit /\ [][LibraryNext]_libraryVars

-----------------------------------------------------------------------------
(* Properties *)

\* asset-finalize.test.ts:179 "does not duplicate when finalize and callback race":
\* however often and by whom a file is registered, it has one row.
OneAssetPerFile == \A k \in Keys : Cardinality(RowsOf(k)) <= 1
=============================================================================
