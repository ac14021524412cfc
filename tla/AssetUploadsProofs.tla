-------------------------- MODULE AssetUploadsProofs --------------------------
(***************************************************************************)
(* One row for a file, for any number of files, rows, requests and         *)
(* uploads, however often registrations and completion calls are repeated. *)
(***************************************************************************)
EXTENDS AssetUploads, FiniteSetTheorems, TLAPS

KeyOrNone == Keys \union {Nothing}
AssetRow == [is : {"unused", "gone", "row"}, key : KeyOrNone, path : KeyOrNone, meta : KeyOrNone,
             from : AssetIds \union {Nothing}]
RequestRow == [op : Operations \union {"idle"}, asset : AssetIds \union {Nothing}, key : KeyOrNone,
               old : KeyOrNone, for : Items \union {Nothing}]
ItemRow == [pc : ItemStates, key : KeyOrNone, url : BOOLEAN, attempt : Nat, looks : Nat, again : Nat]

Registering == {"finalize", "upload", "insert", "uploadInsert"}

RowsOK ==
  /\ minted \subseteq Keys
  /\ asset \in [AssetIds -> AssetRow]
  /\ request \in [Requests -> RequestRow]
  /\ item \in [Items -> ItemRow]
  /\ callback \subseteq Callback

\* What a request is about
Aims ==
  \A r \in Requests :
    /\ request[r].op \in Registering => request[r].key \in Keys
    /\ request[r].op = "replace" => request[r].key \in Keys /\ request[r].asset \in AssetIds
    /\ request[r].op = "derive" => request[r].asset \in AssetIds

\* A browser's item knows its key from when it is stored.
ItemAims ==
  \A i \in Items :
    item[i].pc \in {"finalize", "calling", "lookup", "looking"} \/ item[i].url => item[i].key \in Keys

\* Who may still register the file of k, or give it to a
Registers(k) ==
  \/ \E i \in Items : item[i].key = k
  \/ \E c \in callback : c.asset = Nothing /\ c.key = k
  \/ \E r \in Requests : request[r].op \in Registering /\ request[r].key = k
Replaces(k, a) ==
  \/ \E c \in callback : c.asset = a /\ c.key = k
  \/ \E r \in Requests : request[r].op = "replace" /\ request[r].asset = a /\ request[r].key = k

\* A file is uploaded to be registered or to become that of one asset, never both.
OnePurpose ==
  /\ \A k \in Keys : Registers(k) => k \in minted /\ \A a \in AssetIds : ~Replaces(k, a)
  /\ \A k \in Keys, a \in AssetIds : Replaces(k, a) =>
       k \in minted /\ \A b \in AssetIds : b # a => ~Replaces(k, b) /\ asset[b].key # k

OneRow ==
  /\ \A a \in AssetIds : asset[a].key \in minted \union {Nothing}
  /\ \A a \in AssetIds : asset[a].is # "row" => asset[a].key = Nothing
  /\ \A a, b \in AssetIds : asset[a].key = asset[b].key /\ asset[a].key # Nothing => a = b

KeyInv == RowsOK /\ Aims /\ ItemAims /\ OnePurpose /\ OneRow

-----------------------------------------------------------------------------
(* Helpers *)

LEMMA Words ==
  /\ Idle \in RequestRow /\ Unused \in AssetRow /\ Gone \in AssetRow
  /\ \A n \in Nat : NewItem(n) \in ItemRow
  /\ Nothing \notin Keys /\ Nothing \notin AssetIds
BY LibraryAssumption DEF Idle, Unused, Gone, NewItem, RequestRow, AssetRow, ItemRow, KeyOrNone,
   ItemStates, LibraryAssumption

\* A step that starts no use of a file and gives no row a file
LEMMA Quiet ==
  ASSUME KeyInv, RowsOK', Aims', ItemAims', minted \subseteq minted',
         \A k \in Keys : Registers(k)' => Registers(k),
         \A k \in Keys, a \in AssetIds : Replaces(k, a)' => Replaces(k, a),
         \A a \in AssetIds : \/ asset'[a].key = Nothing
                             \/ asset'[a].key = asset[a].key /\ asset'[a].is = "row"
  PROVE  KeyInv'
<1>1. OnePurpose'
  BY Words DEF KeyInv, OnePurpose
<1>2. OneRow'
  BY DEF KeyInv, OneRow
<1> QED BY <1>1, <1>2 DEF KeyInv

\* A file is uploaded and will be registered.
LEMMA MintToRegister ==
  ASSUME KeyInv, RowsOK', Aims', ItemAims', NEW n \in Keys, n \notin minted,
         minted' = minted \union {n}, asset' = asset,
         \A k \in Keys : Registers(k)' => Registers(k) \/ k = n,
         \A k \in Keys, a \in AssetIds : Replaces(k, a)' => Replaces(k, a)
  PROVE  KeyInv'
<1>1. OnePurpose'
  BY DEF KeyInv, OnePurpose
<1>2. OneRow'
  BY DEF KeyInv, OneRow
<1> QED BY <1>1, <1>2 DEF KeyInv

\* A file is uploaded and will become that of one asset.
LEMMA MintToReplace ==
  ASSUME KeyInv, RowsOK', Aims', ItemAims', NEW n \in Keys, n \notin minted, NEW x \in AssetIds,
         minted' = minted \union {n}, asset' = asset,
         \A k \in Keys : Registers(k)' => Registers(k),
         \A k \in Keys, a \in AssetIds : Replaces(k, a)' => Replaces(k, a) \/ (k = n /\ a = x)
  PROVE  KeyInv'
<1>1. \A a \in AssetIds : asset[a].key # n
  BY Words DEF KeyInv, OneRow
<1>2. OnePurpose'
  BY <1>1 DEF KeyInv, OnePurpose
<1>3. OneRow'
  BY DEF KeyInv, OneRow
<1> QED BY <1>2, <1>3 DEF KeyInv

\* A request that makes no use of a file but one that is made already
Calm(q) ==
  /\ q \in RequestRow
  /\ q.op \in Registering => q.key \in Keys /\ Registers(q.key)
  /\ q.op = "replace" => q.key \in Keys /\ q.asset \in AssetIds /\ Replaces(q.key, q.asset)
  /\ q.op = "derive" => q.asset \in AssetIds

LEMMA RequestsAreCalm == KeyInv => Calm(Idle) /\ \A r \in Requests : Calm(request[r])
BY Words DEF KeyInv, RowsOK, Aims, Calm, Registers, Replaces, Idle, Registering

LEMMA CalmStep ==
  ASSUME KeyInv, minted' = minted, callback' \subseteq callback,
         request' \in [Requests -> RequestRow], \A r \in Requests : Calm(request'[r]),
         item' \in [Items -> ItemRow], ItemAims',
         \A i \in Items : item'[i].key \in {item[i].key, Nothing},
         asset' \in [AssetIds -> AssetRow],
         \A a \in AssetIds : \/ asset'[a].key = Nothing
                             \/ asset'[a].key = asset[a].key /\ asset'[a].is = "row"
  PROVE  KeyInv'
<1>1. RowsOK' /\ Aims'
  BY DEF KeyInv, RowsOK, Aims, Calm
<1>2. \A k \in Keys : Registers(k)' => Registers(k)
  BY Words DEF Registers, Calm
<1>3. \A k \in Keys, a \in AssetIds : Replaces(k, a)' => Replaces(k, a)
  BY DEF Replaces, Calm
<1> QED BY <1>1, <1>2, <1>3, Quiet

\* One request changes.
LEMMA OneCalm ==
  ASSUME KeyInv, NEW r \in Requests, NEW q, Calm(q), request' = [request EXCEPT ![r] = q]
  PROVE  request' \in [Requests -> RequestRow] /\ \A s \in Requests : Calm(request'[s])
BY RequestsAreCalm DEF KeyInv, RowsOK, Calm

\* A request goes on or ends, and the library's rows stay or lose a file.
LEMMA OneRequest ==
  ASSUME KeyInv, NEW r \in Requests, NEW q, Calm(q), request' = [request EXCEPT ![r] = q],
         minted' = minted, callback' \subseteq callback, item' = item,
         asset' \in [AssetIds -> AssetRow],
         \A a \in AssetIds : \/ asset'[a].key = Nothing
                             \/ asset'[a].key = asset[a].key /\ asset'[a].is = "row"
  PROVE  KeyInv'
<1>1. item' \in [Items -> ItemRow] /\ ItemAims'
  BY DEF KeyInv, RowsOK, ItemAims
<1> QED BY <1>1, OneCalm, CalmStep

LEMMA SameRows ==
  ASSUME KeyInv, asset' = asset
  PROVE  /\ asset' \in [AssetIds -> AssetRow]
         /\ \A a \in AssetIds : \/ asset'[a].key = Nothing
                                \/ asset'[a].key = asset[a].key /\ asset'[a].is = "row"
BY DEF KeyInv, RowsOK, OneRow, AssetRow

-----------------------------------------------------------------------------
(* The library's requests *)

\* The rest of a step of the service: it is the callback's and the browser's turn after.
Alone == callback' = callback /\ item' = item

LEMMA UploadInv ==
  ASSUME KeyInv, Alone, NEW r \in Requests,
         Upload(r) \/ \E a \in AssetIds : ReplaceRead(r, a)
  PROVE  KeyInv'
<1>1. CASE Upload(r)
  <2>1. PICK k \in Keys : /\ k \notin minted /\ minted' = minted \union {k} /\ asset' = asset
                          /\ Ask(r, "upload", Nothing, k, Nothing, Nothing)
    BY <1>1 DEF Upload, Fresh
  <2> DEFINE q == [op |-> "upload", asset |-> Nothing, key |-> k, old |-> Nothing, for |-> Nothing]
  <2>2. q \in RequestRow /\ q.op = "upload" /\ q.key = k
    BY DEF RequestRow, Operations, KeyOrNone
  <2>3. request' = [request EXCEPT ![r] = q]
    BY <2>1 DEF Ask
  <2> HIDE DEF q
  <2>4. /\ request' \in [Requests -> RequestRow] /\ request'[r] = q
        /\ \A s \in Requests \ {r} : request'[s] = request[s]
    BY <2>2, <2>3 DEF KeyInv, RowsOK
  <2>5. RowsOK' /\ Aims' /\ ItemAims'
    BY <2>1, <2>2, <2>4 DEF KeyInv, RowsOK, Aims, ItemAims, Alone, Registering
  <2>6. \A j \in Keys : Registers(j)' => Registers(j) \/ j = k
    BY <2>2, <2>4 DEF Registers, Alone
  <2>7. \A j \in Keys, a \in AssetIds : Replaces(j, a)' => Replaces(j, a)
    BY <2>2, <2>4 DEF Replaces, Alone
  <2> QED BY <2>1, <2>5, <2>6, <2>7, MintToRegister
<1>2. ASSUME NEW a \in AssetIds, ReplaceRead(r, a) PROVE KeyInv'
  <2>1. PICK k \in Keys : /\ k \notin minted /\ minted' = minted \union {k} /\ asset' = asset
                          /\ Ask(r, "replace", a, k, asset[a].key, Nothing)
    BY <1>2 DEF ReplaceRead, Fresh
  <2> DEFINE q == [op |-> "replace", asset |-> a, key |-> k, old |-> asset[a].key, for |-> Nothing]
  <2>2. q \in RequestRow /\ q.op = "replace" /\ q.key = k /\ q.asset = a
    BY DEF RequestRow, Operations, KeyOrNone, KeyInv, RowsOK, AssetRow
  <2>3. request' = [request EXCEPT ![r] = q]
    BY <2>1 DEF Ask
  <2> HIDE DEF q
  <2>4. /\ request' \in [Requests -> RequestRow] /\ request'[r] = q
        /\ \A s \in Requests \ {r} : request'[s] = request[s]
    BY <2>2, <2>3 DEF KeyInv, RowsOK
  <2>5. RowsOK' /\ Aims' /\ ItemAims'
    BY <2>1, <2>2, <2>4 DEF KeyInv, RowsOK, Aims, ItemAims, Alone, Registering
  <2>6. \A j \in Keys : Registers(j)' => Registers(j)
    BY <2>2, <2>4 DEF Registers, Alone, Registering
  <2>7. \A j \in Keys, b \in AssetIds : Replaces(j, b)' => Replaces(j, b) \/ (j = k /\ b = a)
    BY <2>2, <2>4 DEF Replaces, Alone
  <2> QED BY <2>1, <2>5, <2>6, <2>7, MintToReplace
<1> QED BY <1>1, <1>2

\* A registration that finds no row gives the file its only one.
LEMMA InsertInv ==
  ASSUME KeyInv, callback' = callback, NEW r \in Requests, FinalizeInsert(r),
         item' \in [Items -> ItemRow], ItemAims', \A i \in Items : item'[i].key = item[i].key
  PROVE  KeyInv'
<1> DEFINE k == request[r].key
<1>1. k \in Keys /\ Registers(k) /\ minted' = minted /\ request' = [request EXCEPT ![r] = Idle]
  BY DEF FinalizeInsert, KeyInv, Aims, Registering, Registers, End
<1> HIDE DEF k
<1>2. request' \in [Requests -> RequestRow] /\ \A s \in Requests : Calm(request'[s])
  BY <1>1, RequestsAreCalm, OneCalm
<1>3. CASE asset' = asset
  BY <1>1, <1>2, <1>3, SameRows, CalmStep
<1>4. CASE RowsOf(k) = {} /\ NewRow(Row(k, k, k, Nothing))
  <2>1. PICK x \in AssetIds : asset[x] = Unused /\ asset' = [asset EXCEPT ![x] = Row(k, k, k, Nothing)]
    BY <1>4 DEF NewRow
  <2>2. Row(k, k, k, Nothing) \in AssetRow /\ Row(k, k, k, Nothing).key = k
        /\ Row(k, k, k, Nothing).is = "row"
    BY <1>1 DEF Row, AssetRow, KeyOrNone
  <2>3. /\ asset' \in [AssetIds -> AssetRow] /\ asset'[x].key = k /\ asset'[x].is = "row"
        /\ \A a \in AssetIds \ {x} : asset'[a] = asset[a]
    BY <2>1, <2>2 DEF KeyInv, RowsOK
  <2>4. \A a \in AssetIds : asset[a].key # k
    <3>1. ASSUME NEW a \in AssetIds, asset[a].key = k PROVE FALSE
      <4>1. asset[a].is = "row"
        BY <1>1, <3>1, Words DEF KeyInv, OneRow
      <4> QED BY <1>4, <3>1, <4>1 DEF RowsOf, Rows
    <3> QED BY <3>1
  <2>5. k \in minted /\ \A a \in AssetIds : ~Replaces(k, a)
    BY <1>1 DEF KeyInv, OnePurpose
  <2>6. RowsOK' /\ Aims'
    BY <1>1, <1>2, <2>3 DEF KeyInv, RowsOK, Aims, Calm
  <2>7. \A j \in Keys : Registers(j)' => Registers(j)
    BY <1>2 DEF Registers, Calm
  <2>8. \A j \in Keys, a \in AssetIds : Replaces(j, a)' => Replaces(j, a)
    BY <1>2 DEF Replaces, Calm
  <2>9. OnePurpose'
    BY <1>1, <2>3, <2>5, <2>7, <2>8 DEF KeyInv, OnePurpose
  <2>10. OneRow'
    BY <1>1, <2>3, <2>4, <2>5, Words DEF KeyInv, OneRow
  <2> QED BY <2>6, <2>9, <2>10 DEF KeyInv
<1> QED BY <1>3, <1>4 DEF FinalizeInsert, k

\* Only its own asset is given a file that was uploaded to replace another.
LEMMA ReplaceCommitInv ==
  ASSUME KeyInv, Alone, NEW r \in Requests, ReplaceCommit(r)
  PROVE  KeyInv'
<1>1. PICK k \in Keys, x \in AssetIds :
        /\ request[r].key = k /\ request[r].asset = x /\ request[r].op = "replace"
        /\ asset[x].is = "row" /\ minted' = minted
        /\ asset' = [asset EXCEPT ![x].key = k, ![x].path = k, ![x].meta = k]
        /\ request' = [request EXCEPT ![r] = Idle] \/ request' = [request EXCEPT ![r].op = "removeOld"]
  BY DEF ReplaceCommit, KeyInv, Aims, Rows, End, Become
<1>2. Replaces(k, x) /\ asset[x] \in AssetRow
  BY <1>1 DEF Replaces, KeyInv, RowsOK
<1>3. asset' = [asset EXCEPT ![x] = [asset[x] EXCEPT !.key = k, !.path = k, !.meta = k]]
  BY <1>1, <1>2 DEF AssetRow, KeyInv, RowsOK
<1>4. /\ asset' \in [AssetIds -> AssetRow] /\ asset'[x].key = k /\ asset'[x].is = "row"
      /\ \A a \in AssetIds \ {x} : asset'[a] = asset[a]
  BY <1>1, <1>2, <1>3 DEF KeyInv, RowsOK, AssetRow, KeyOrNone
<1>5. request' \in [Requests -> RequestRow] /\ \A s \in Requests : Calm(request'[s])
  <2>1. request[r] \in RequestRow
    BY DEF KeyInv, RowsOK
  <2>2. Calm(Idle) /\ Calm([request[r] EXCEPT !.op = "removeOld"])
    BY <2>1, RequestsAreCalm DEF Calm, RequestRow, Operations, Registering
  <2>3. \/ request' = [request EXCEPT ![r] = Idle]
        \/ request' = [request EXCEPT ![r] = [request[r] EXCEPT !.op = "removeOld"]]
    BY <1>1, <2>1 DEF KeyInv, RowsOK, RequestRow
  <2> QED BY <2>2, <2>3, OneCalm
<1>6. RowsOK' /\ Aims' /\ ItemAims'
  BY <1>1, <1>4, <1>5 DEF KeyInv, RowsOK, Aims, ItemAims, Calm, Alone
<1>7. \A j \in Keys : Registers(j)' => Registers(j)
  BY <1>5 DEF Registers, Calm, Alone
<1>8. \A j \in Keys, a \in AssetIds : Replaces(j, a)' => Replaces(j, a)
  BY <1>5 DEF Replaces, Calm, Alone
<1>9. k \in minted /\ \A b \in AssetIds : b # x => asset[b].key # k /\ ~Replaces(k, b)
  BY <1>2 DEF KeyInv, OnePurpose
<1>10. OnePurpose'
  BY <1>1, <1>2, <1>4, <1>7, <1>8, <1>9 DEF KeyInv, OnePurpose
<1>11. OneRow'
  BY <1>1, <1>4, <1>9, Words DEF KeyInv, OneRow
<1> QED BY <1>6, <1>10, <1>11 DEF KeyInv

\* A request that stops, fails or has nothing more to do
LEMMA EndCalm ==
  ASSUME KeyInv, NEW r \in Requests, End(r)
  PROVE  request' \in [Requests -> RequestRow] /\ \A s \in Requests : Calm(request'[s])
BY RequestsAreCalm, OneCalm DEF End

LEMMA EndInv ==
  ASSUME KeyInv, Alone, NEW r \in Requests, End(r), minted' = minted,
         asset' \in [AssetIds -> AssetRow],
         \A a \in AssetIds : \/ asset'[a].key = Nothing
                             \/ asset'[a].key = asset[a].key /\ asset'[a].is = "row"
  PROVE  KeyInv'
BY RequestsAreCalm, OneRequest DEF End, Alone

\* The look-up before a registration passes the request on to its second step.
LEMMA FinalizeReadCalm ==
  ASSUME KeyInv, NEW r \in Requests, FinalizeRead(r)
  PROVE  request' \in [Requests -> RequestRow] /\ \A s \in Requests : Calm(request'[s])
<1>1. CASE End(r)
  BY <1>1, EndCalm
<1>2. ASSUME NEW op \in {"insert", "uploadInsert"}, Become(r, op),
             request[r].op \in {"finalize", "upload"}
      PROVE  request' \in [Requests -> RequestRow] /\ \A s \in Requests : Calm(request'[s])
  <2>1. request[r] \in RequestRow /\ request[r].key \in Keys /\ Registers(request[r].key)
    BY <1>2 DEF KeyInv, RowsOK, Aims, Registering, Registers
  <2>2. Calm([request[r] EXCEPT !.op = op])
    BY <2>1 DEF Calm, RequestRow, Operations, Registering
  <2>3. request' = [request EXCEPT ![r] = [request[r] EXCEPT !.op = op]]
    BY <1>2, <2>1 DEF Become, KeyInv, RowsOK, RequestRow
  <2> QED BY <2>2, <2>3, OneCalm
<1> QED BY <1>1, <1>2 DEF FinalizeRead

LEMMA ServiceInv ==
  ASSUME KeyInv, Alone, NEW r \in Requests, ServiceStep(r)
  PROVE  KeyInv'
<1> USE DEF Alone
<1>0. /\ item' \in [Items -> ItemRow] /\ ItemAims'
      /\ \A i \in Items : item'[i].key = item[i].key
  BY DEF KeyInv, RowsOK, ItemAims
<1>1. CASE FinalizeRead(r)
  <2>1. minted' = minted /\ asset' = asset
    BY <1>1 DEF FinalizeRead
  <2> QED BY <1>0, <1>1, <2>1, FinalizeReadCalm, SameRows, CalmStep
<1>2. CASE FinalizeFails(r) \/ ReplaceFails(r) \/ RemoveOld(r) \/ DeleteBlob(r) \/ Stop(r)
  <2>1. End(r) /\ minted' = minted /\ asset' = asset
    BY <1>2 DEF FinalizeFails, ReplaceFails, RemoveOld, DeleteBlob, Stop
  <2> QED BY <2>1, SameRows, EndInv
<1>3. CASE DeriveCreate(r)
  <2>1. PICK x \in AssetIds :
          asset[x] = Unused
          /\ asset' = [asset EXCEPT ![x] = Row(Nothing, request[r].key, request[r].old, request[r].asset)]
    BY <1>3 DEF DeriveCreate, NewRow
  <2>2. request[r] \in RequestRow /\ request[r].asset \in AssetIds
    BY <1>3 DEF DeriveCreate, KeyInv, RowsOK, Aims
  <2>3. /\ Row(Nothing, request[r].key, request[r].old, request[r].asset) \in AssetRow
        /\ Row(Nothing, request[r].key, request[r].old, request[r].asset).key = Nothing
    BY <2>2 DEF Row, AssetRow, RequestRow, KeyOrNone
  <2>4. asset' \in [AssetIds -> AssetRow] /\ asset'[x].key = Nothing
        /\ \A a \in AssetIds \ {x} : asset'[a] = asset[a]
    BY <2>1, <2>3 DEF KeyInv, RowsOK
  <2>5. \A a \in AssetIds : \/ asset'[a].key = Nothing
                            \/ asset'[a].key = asset[a].key /\ asset'[a].is = "row"
    BY <2>4 DEF KeyInv, OneRow, RowsOK, AssetRow
  <2> QED BY <1>3, <2>4, <2>5, EndInv DEF DeriveCreate
<1>4. CASE UpdateWrite(r)
  <2>1. PICK x \in AssetIds : /\ asset[x].is = "row"
                              /\ asset' = [asset EXCEPT ![x].meta = request[r].old]
    BY <1>4 DEF UpdateWrite, Rows
  <2>2. asset[x] \in AssetRow /\ request[r].old \in KeyOrNone
    BY DEF KeyInv, RowsOK, RequestRow
  <2>3. asset' = [asset EXCEPT ![x] = [asset[x] EXCEPT !.meta = request[r].old]]
    BY <2>1, <2>2 DEF KeyInv, RowsOK, AssetRow
  <2>4. /\ asset' \in [AssetIds -> AssetRow]
        /\ asset'[x].key = asset[x].key /\ asset'[x].is = "row"
        /\ \A a \in AssetIds \ {x} : asset'[a] = asset[a]
    BY <2>1, <2>2, <2>3 DEF KeyInv, RowsOK, AssetRow
  <2>5. \A a \in AssetIds : \/ asset'[a].key = Nothing
                            \/ asset'[a].key = asset[a].key /\ asset'[a].is = "row"
    BY <2>4 DEF KeyInv, OneRow, RowsOK, AssetRow
  <2> QED BY <1>4, <2>4, <2>5, EndInv DEF UpdateWrite
<1>5. CASE DeleteRow(r)
  <2>1. PICK x \in AssetIds : asset' = [asset EXCEPT ![x] = Gone]
    BY <1>5 DEF DeleteRow, Rows
  <2>2. /\ asset' \in [AssetIds -> AssetRow]
        /\ \A a \in AssetIds : \/ asset'[a].key = Nothing
                               \/ asset'[a].key = asset[a].key /\ asset'[a].is = "row"
    <3>1. Gone \in AssetRow /\ Gone.key = Nothing
      BY Words DEF Gone, Unused
    <3> QED BY <2>1, <3>1 DEF KeyInv, RowsOK, OneRow, AssetRow
  <2>3. request' \in [Requests -> RequestRow] /\ \A s \in Requests : Calm(request'[s])
    <3>1. CASE End(r)
      BY <3>1, EndCalm
    <3>2. CASE Become(r, "removeBlob")
      <4>1. request[r] \in RequestRow
        BY DEF KeyInv, RowsOK
      <4>2. Calm([request[r] EXCEPT !.op = "removeBlob"])
        BY <4>1 DEF Calm, RequestRow, Operations, Registering
      <4>3. request' = [request EXCEPT ![r] = [request[r] EXCEPT !.op = "removeBlob"]]
        BY <3>2, <4>1 DEF Become, KeyInv, RowsOK, RequestRow
      <4> QED BY <4>2, <4>3, OneCalm
    <3> QED BY <1>5, <3>1, <3>2 DEF DeleteRow
  <2> QED BY <1>0, <1>5, <2>2, <2>3, CalmStep DEF DeleteRow
<1>6. ASSUME NEW a \in AssetIds, DeriveRead(r, a) \/ UpdateRead(r, a) \/ DeleteRead(r, a)
      PROVE  KeyInv'
  <2>1. asset[a] \in AssetRow
    BY DEF KeyInv, RowsOK
  <2>2. PICK op \in {"derive", "update", "delete"}, k \in KeyOrNone, old \in KeyOrNone :
          /\ Ask(r, op, a, k, old, Nothing)
          /\ minted' = minted /\ asset' = asset
    BY <1>6, <2>1 DEF DeriveRead, UpdateRead, DeleteRead, AssetRow, KeyOrNone
  <2> DEFINE q == [op |-> op, asset |-> a, key |-> k, old |-> old, for |-> Nothing]
  <2>3. Calm(q)
    BY DEF Calm, RequestRow, Operations, Registering
  <2>4. request' = [request EXCEPT ![r] = q]
    BY <2>2 DEF Ask
  <2> HIDE DEF q
  <2> QED BY <2>2, <2>3, <2>4, SameRows, OneRequest
<1> QED BY <1>0, <1>1, <1>2, <1>3, <1>4, <1>5, <1>6, UploadInv, InsertInv, ReplaceCommitInv
        DEF ServiceStep

-----------------------------------------------------------------------------
(* The browser and the completion calls *)

\* One item changes.
LEMMA ItemFacts ==
  ASSUME KeyInv, NEW i \in Items, NEW it \in ItemRow, it.key \in {item[i].key, Nothing},
         it.pc \in {"finalize", "calling", "lookup", "looking"} \/ it.url => it.key \in Keys,
         item' = [item EXCEPT ![i] = it]
  PROVE  /\ item' \in [Items -> ItemRow] /\ ItemAims'
         /\ \A j \in Items : item'[j].key \in {item[j].key, Nothing}
         /\ it.key = item[i].key => \A j \in Items : item'[j].key = item[j].key
BY DEF KeyInv, RowsOK, ItemAims

LEMMA MoveFacts ==
  ASSUME KeyInv, NEW i \in Items, NEW pc \in ItemStates, Move(i, pc),
         pc \in {"finalize", "calling", "lookup", "looking"} =>
           item[i].pc \in {"finalize", "calling", "lookup", "looking"}
  PROVE  /\ item' \in [Items -> ItemRow] /\ ItemAims'
         /\ \A j \in Items : item'[j].key = item[j].key
<1>1. item[i] \in ItemRow
  BY DEF KeyInv, RowsOK
<1> DEFINE it == [item[i] EXCEPT !.pc = pc]
<1>2. /\ it \in ItemRow /\ it.key = item[i].key
      /\ it.pc \in {"finalize", "calling", "lookup", "looking"} \/ it.url => it.key \in Keys
  BY <1>1 DEF ItemRow, KeyInv, ItemAims
<1>3. item' = [item EXCEPT ![i] = it]
  BY <1>1 DEF Move, KeyInv, RowsOK, ItemRow
<1> HIDE DEF it
<1> QED BY <1>2, <1>3, ItemFacts

\* A step of the browser that leaves the library as it is
LEMMA BrowserStep ==
  ASSUME KeyInv, callback' = callback, minted' = minted, asset' = asset,
         request' \in [Requests -> RequestRow] /\ \A s \in Requests : Calm(request'[s]),
         item' \in [Items -> ItemRow], ItemAims',
         \A j \in Items : item'[j].key \in {item[j].key, Nothing}
  PROVE  KeyInv'
BY SameRows, CalmStep

LEMMA ClientUploadInv ==
  ASSUME KeyInv, NEW i \in Items, ClientUpload(i)
  PROVE  KeyInv'
<1>0. item[i] \in ItemRow
  BY DEF KeyInv, RowsOK
<1>1. PICK k \in Keys :
        /\ k \notin minted /\ minted' = minted \union {k} /\ asset' = asset /\ request' = request
        /\ \/ /\ callback' = callback \union {[key |-> k, asset |-> Nothing, expected |-> Nothing]}
              /\ \/ item' = [item EXCEPT ![i].pc = "finalize", ![i].key = k, ![i].url = TRUE]
                 \/ item' = [item EXCEPT ![i].pc = "failed", ![i].key = k]
           \/ callback' = callback /\ item' = [item EXCEPT ![i].pc = "failed", ![i].key = k]
  BY DEF ClientUpload, Fresh
<1>2. /\ callback' \subseteq callback \union {[key |-> k, asset |-> Nothing, expected |-> Nothing]}
      /\ callback' \subseteq Callback
  BY <1>1 DEF KeyInv, RowsOK, Callback
<1>3. \/ item' = [item EXCEPT ![i] = [item[i] EXCEPT !.pc = "finalize", !.key = k, !.url = TRUE]]
      \/ item' = [item EXCEPT ![i] = [item[i] EXCEPT !.pc = "failed", !.key = k]]
  BY <1>0, <1>1 DEF KeyInv, RowsOK, ItemRow
<1>4. /\ item' \in [Items -> ItemRow] /\ item'[i].key = k
      /\ \A j \in Items \ {i} : item'[j] = item[j]
  <2>0. "finalize" \in ItemStates /\ "failed" \in ItemStates /\ k \in KeyOrNone
    BY DEF ItemStates, KeyOrNone
  <2>1. PICK it \in ItemRow : item' = [item EXCEPT ![i] = it] /\ it.key = k
    <3>1. CASE item' = [item EXCEPT ![i] = [item[i] EXCEPT !.pc = "failed", !.key = k]]
      <4>1. /\ [item[i] EXCEPT !.pc = "failed", !.key = k] \in ItemRow
            /\ [item[i] EXCEPT !.pc = "failed", !.key = k].key = k
        BY <1>0, <2>0 DEF ItemRow
      <4> QED BY ONLY <3>1, <4>1
    <3>2. CASE item' = [item EXCEPT ![i] = [item[i] EXCEPT !.pc = "finalize", !.key = k, !.url = TRUE]]
      <4>1. /\ [item[i] EXCEPT !.pc = "finalize", !.key = k, !.url = TRUE] \in ItemRow
            /\ [item[i] EXCEPT !.pc = "finalize", !.key = k, !.url = TRUE].key = k
        BY <1>0, <2>0 DEF ItemRow
      <4> QED BY ONLY <3>2, <4>1
    <3> QED BY <1>3, <3>1, <3>2
  <2> QED BY <2>1 DEF KeyInv, RowsOK
<1>5. RowsOK' /\ Aims' /\ ItemAims'
  BY <1>1, <1>2, <1>4 DEF KeyInv, RowsOK, Aims, ItemAims
<1>6. \A j \in Keys : Registers(j)' => Registers(j) \/ j = k
  BY <1>1, <1>2, <1>4 DEF Registers
<1>7. \A j \in Keys, a \in AssetIds : Replaces(j, a)' => Replaces(j, a)
  BY <1>1, <1>2, Words DEF Replaces
<1> QED BY <1>1, <1>5, <1>6, <1>7, MintToRegister

LEMMA ClientReplaceInv ==
  ASSUME KeyInv, NEW x \in AssetIds, ClientReplace(x)
  PROVE  KeyInv'
<1>1. PICK k \in Keys :
        /\ k \notin minted /\ minted' = minted \union {k} /\ asset' = asset /\ request' = request
        /\ item' = item
        /\ callback' = callback \union {[key |-> k, asset |-> x, expected |-> asset[x].key]}
  BY DEF ClientReplace, Fresh
<1>2. callback' \subseteq Callback
  BY <1>1 DEF KeyInv, RowsOK, Callback, AssetRow, KeyOrNone
<1>3. RowsOK' /\ Aims' /\ ItemAims'
  BY <1>1, <1>2 DEF KeyInv, RowsOK, Aims, ItemAims
<1>4. \A j \in Keys : Registers(j)' => Registers(j)
  BY <1>1, Words DEF Registers
<1>5. \A j \in Keys, a \in AssetIds : Replaces(j, a)' => Replaces(j, a) \/ (j = k /\ a = x)
  BY <1>1 DEF Replaces
<1> QED BY <1>1, <1>3, <1>4, <1>5, MintToReplace

LEMMA ClientInv ==
  ASSUME UploadAssumption, KeyInv, NEW i \in Items, ClientStep(i)
  PROVE  KeyInv'
<1>0. item[i] \in ItemRow
  BY DEF KeyInv, RowsOK
<1>1. CASE CallFinalize(i)
  <2>1. /\ item[i].pc = "finalize" /\ Move(i, "calling")
        /\ minted' = minted /\ asset' = asset /\ callback' = callback
    BY <1>1 DEF CallFinalize
  <2>2. item' \in [Items -> ItemRow] /\ ItemAims' /\ \A j \in Items : item'[j].key = item[j].key
    BY <2>1, MoveFacts DEF ItemStates
  <2>3. request' \in [Requests -> RequestRow] /\ \A s \in Requests : Calm(request'[s])
    <3>1. CASE request' = request
      BY <3>1, RequestsAreCalm DEF KeyInv, RowsOK
    <3>2. ASSUME NEW r \in Requests, Ask(r, "finalize", Nothing, item[i].key, Nothing, i)
          PROVE  request' \in [Requests -> RequestRow] /\ \A s \in Requests : Calm(request'[s])
      <4> DEFINE q == [op |-> "finalize", asset |-> Nothing, key |-> item[i].key, old |-> Nothing,
                       for |-> i]
      <4>1. item[i].key \in Keys
        BY <2>1 DEF KeyInv, ItemAims
      <4>2. Calm(q)
        BY <4>1 DEF Calm, RequestRow, Operations, Registering, Registers, KeyOrNone
      <4>3. request' = [request EXCEPT ![r] = q]
        BY <3>2 DEF Ask
      <4> HIDE DEF q
      <4> QED BY <4>2, <4>3, OneCalm
    <3> QED BY <1>1, <3>1, <3>2 DEF CallFinalize
  <2> QED BY <2>1, <2>2, <2>3, BrowserStep
<1>2. CASE GiveUpWaiting(i)
  <2>1. /\ item[i].pc = "calling" /\ minted' = minted /\ asset' = asset /\ callback' = callback
        /\ Detach(i)
    BY <1>2 DEF GiveUpWaiting
  <2>2. request' \in [Requests -> RequestRow] /\ \A s \in Requests : Calm(request'[s])
    <3>1. ASSUME NEW s \in Requests
          PROVE  request'[s] \in RequestRow /\ Calm(request'[s])
      <4>1. request[s] \in RequestRow /\ Calm(request[s])
        BY RequestsAreCalm DEF KeyInv, RowsOK
      <4>2. request'[s] \in {request[s], [request[s] EXCEPT !.for = Nothing]}
        BY <2>1 DEF Detach
      <4> QED BY <4>1, <4>2 DEF Calm, RequestRow
    <3> QED BY <2>1, <3>1 DEF Detach
  <2>3. PICK it \in ItemRow : /\ it.key = item[i].key /\ it.key \in Keys
                              /\ item' = [item EXCEPT ![i] = it]
    <3>1. item[i].key \in Keys
      BY <2>1 DEF KeyInv, ItemAims
    <3>2. CASE item' = [item EXCEPT ![i].pc = "finalize", ![i].attempt = @ + 1]
      <4>0. PICK n \in Nat : n = item[i].attempt + 1
        BY <1>0 DEF ItemRow
      <4> DEFINE it == [item[i] EXCEPT !.pc = "finalize", !.attempt = n]
      <4>1. it \in ItemRow /\ it.key = item[i].key
        <5>1. "finalize" \in ItemStates
          BY DEF ItemStates
        <5> QED BY <1>0, <5>1 DEF ItemRow
      <4>2. item' = [item EXCEPT ![i] = it]
        BY <1>0, <3>2, <4>0 DEF KeyInv, RowsOK, ItemRow
      <4> HIDE DEF it
      <4> QED BY <3>1, <4>1, <4>2
    <3>3. CASE item' = [item EXCEPT ![i].pc = "lookup"]
      <4> DEFINE it == [item[i] EXCEPT !.pc = "lookup"]
      <4>1. it \in ItemRow /\ it.key = item[i].key
        BY <1>0 DEF ItemRow, ItemStates
      <4>2. item' = [item EXCEPT ![i] = it]
        BY <1>0, <3>3 DEF KeyInv, RowsOK, ItemRow
      <4> HIDE DEF it
      <4> QED BY <3>1, <4>1, <4>2
    <3> QED BY <1>2, <3>2, <3>3 DEF GiveUpWaiting
  <2>4. /\ item' \in [Items -> ItemRow] /\ ItemAims'
        /\ \A j \in Items : item'[j].key \in {item[j].key, Nothing}
    BY <2>3, ItemFacts
  <2> QED BY <2>1, <2>2, <2>4, BrowserStep
<1>3. CASE LookUp(i) \/ LookUpAnswered(i) \/ Retry(i)
  <2>1. minted' = minted /\ asset' = asset /\ callback' = callback /\ request' = request
    BY <1>3 DEF LookUp, LookUpAnswered, Retry, libraryVars
  <2>2. request' \in [Requests -> RequestRow] /\ \A s \in Requests : Calm(request'[s])
    BY <2>1, RequestsAreCalm DEF KeyInv, RowsOK
  <2>3. /\ item' \in [Items -> ItemRow] /\ ItemAims'
        /\ \A j \in Items : item'[j].key \in {item[j].key, Nothing}
    <3>1. CASE LookUp(i) \/ LookUpAnswered(i)
      <4>1. item[i].key \in Keys
        BY <3>1 DEF LookUp, LookUpAnswered, KeyInv, ItemAims
      <4>2. CASE Move(i, "looking") \/ Move(i, "ready") \/ Move(i, "failed")
        <5>1. item[i].pc \in {"lookup", "looking"}
          BY <3>1 DEF LookUp, LookUpAnswered
        <5> QED BY <4>2, <5>1, MoveFacts DEF ItemStates
      <4>3. CASE item' = [item EXCEPT ![i].pc = "lookup", ![i].looks = @ + 1]
        <5>0. PICK n \in Nat : n = item[i].looks + 1
          BY <1>0 DEF ItemRow
        <5> DEFINE it == [item[i] EXCEPT !.pc = "lookup", !.looks = n]
        <5>1. it \in ItemRow /\ it.key = item[i].key
          <6>1. "lookup" \in ItemStates
            BY DEF ItemStates
          <6> QED BY <1>0, <6>1 DEF ItemRow
        <5>2. item' = [item EXCEPT ![i] = it]
          BY <1>0, <4>3, <5>0 DEF KeyInv, RowsOK, ItemRow
        <5> HIDE DEF it
        <5> QED BY <4>1, <5>1, <5>2, ItemFacts
      <4> QED BY <3>1, <4>2, <4>3 DEF LookUp, LookUpAnswered
    <3>2. CASE Retry(i)
      <4> DEFINE n == NewItem(item[i].again + 1)
                 it == IF item[i].url THEN [n EXCEPT !.pc = "finalize", !.key = item[i].key, !.url = TRUE]
                                      ELSE n
      <4>1. item[i].url => item[i].key \in Keys
        BY DEF KeyInv, ItemAims
      <4>2. /\ it \in ItemRow /\ it.key \in {item[i].key, Nothing}
            /\ it.pc \in {"finalize", "calling", "lookup", "looking"} \/ it.url => it.key \in Keys
        <5>1. n \in ItemRow /\ n.pc = "new" /\ n.url = FALSE /\ n.key = Nothing
          BY <1>0, Words DEF NewItem, ItemRow
        <5>2. CASE item[i].url
          <6>1. item[i].key \in Keys /\ item[i].key \in KeyOrNone
            BY <4>1, <5>2 DEF KeyOrNone
          <6>2. it = [n EXCEPT !.pc = "finalize", !.key = item[i].key, !.url = TRUE]
            BY <5>2
          <6>3. "finalize" \in ItemStates
            BY DEF ItemStates
          <6> HIDE DEF n
          <6>4. it \in ItemRow /\ it.key = item[i].key
            BY ONLY <5>1, <6>1, <6>2, <6>3 DEF ItemRow
          <6> HIDE DEF it
          <6> QED BY <6>1, <6>4
        <5>3. CASE ~item[i].url
          <6>1. it = n
            BY <5>3
          <6> HIDE DEF n, it
          <6> QED BY <5>1, <6>1
        <5> QED BY <5>2, <5>3
      <4>3. item' = [item EXCEPT ![i] = it]
        BY <3>2 DEF Retry
      <4> HIDE DEF it
      <4> QED BY <4>2, <4>3, ItemFacts
    <3> QED BY <1>3, <3>1, <3>2
  <2> QED BY <2>1, <2>2, <2>3, BrowserStep
<1> QED BY <1>1, <1>2, <1>3, ClientUploadInv DEF ClientStep

LEMMA AnswerInv ==
  ASSUME UploadAssumption, KeyInv, NEW r \in Requests, Answer(r)
  PROVE  KeyInv'
<1>1. callback' = callback /\ request[r].for \in Items
  BY DEF Answer, Waiting, AnsweredRead, AnsweredInsert, AnsweredFailure
<1> DEFINE i == request[r].for
<1>2. item[i] \in ItemRow
  BY <1>1 DEF KeyInv, RowsOK
<1>3. CASE AnsweredRead(r)
  <2>1. FinalizeRead(r) /\ minted' = minted /\ asset' = asset
    BY <1>3 DEF AnsweredRead, FinalizeRead
  <2>2. /\ item' \in [Items -> ItemRow] /\ ItemAims'
        /\ \A j \in Items : item'[j].key \in {item[j].key, Nothing}
    <3>1. CASE item' = [item EXCEPT ![i] = AfterMissing(item[i])]
      <4> DEFINE it == AfterMissing(item[i])
      <4>1. item[i].url => item[i].key \in Keys
        BY <1>1 DEF KeyInv, ItemAims
      <4>2. /\ it \in ItemRow /\ it.key \in {item[i].key, Nothing}
            /\ it.pc \in {"finalize", "calling", "lookup", "looking"} \/ it.url => it.key \in Keys
        BY <1>2, <4>1 DEF AfterMissing, NewItem, ItemRow, ItemStates, KeyOrNone
      <4> HIDE DEF it
      <4> QED BY <1>1, <3>1, <4>2, ItemFacts DEF it
    <3>2. CASE Move(i, "ready")
      BY <1>1, <3>2, MoveFacts DEF ItemStates
    <3>3. CASE item' = item
      BY <3>3 DEF KeyInv, RowsOK, ItemAims
    <3>4. FinalizeVerdict(request[r].key) \in {"missing", "found", "absent"}
      BY DEF FinalizeVerdict
    <3> QED BY <1>3, <3>1, <3>2, <3>3, <3>4 DEF AnsweredRead, Move
  <2> QED BY <1>1, <2>1, <2>2, FinalizeReadCalm, BrowserStep
<1>4. CASE AnsweredInsert(r)
  <2>1. FinalizeInsert(r) /\ Move(i, "ready")
    BY <1>4 DEF AnsweredInsert
  <2>2. item' \in [Items -> ItemRow] /\ ItemAims' /\ \A j \in Items : item'[j].key = item[j].key
    BY <1>1, <2>1, MoveFacts DEF ItemStates
  <2> QED BY <1>1, <2>1, <2>2, InsertInv
<1>5. CASE AnsweredFailure(r)
  <2>1. End(r) /\ minted' = minted /\ asset' = asset /\ Move(i, "failed")
    BY <1>5 DEF AnsweredFailure, FinalizeFails
  <2>2. item' \in [Items -> ItemRow] /\ ItemAims' /\ \A j \in Items : item'[j].key = item[j].key
    BY <1>1, <2>1, MoveFacts DEF ItemStates
  <2> QED BY <1>1, <2>1, <2>2, EndCalm, BrowserStep
<1> QED BY <1>3, <1>4, <1>5 DEF Answer

LEMMA DeliverInv ==
  ASSUME KeyInv, NEW r \in Requests, NEW c \in callback, Deliver(r, c)
  PROVE  KeyInv'
<1>1. c \in Callback /\ callback' \subseteq callback /\ minted' = minted /\ asset' = asset /\ item' = item
  BY DEF Deliver, KeyInv, RowsOK
<1>2. CASE c.asset = Nothing
  <2> DEFINE q == [op |-> "finalize", asset |-> Nothing, key |-> c.key, old |-> Nothing, for |-> Nothing]
  <2>1. Calm(q)
    BY <1>1, <1>2 DEF Calm, RequestRow, Operations, Registering, Registers, KeyOrNone, Callback
  <2>2. request' = [request EXCEPT ![r] = q]
    BY <1>2 DEF Deliver, Ask
  <2> HIDE DEF q
  <2> QED BY <1>1, <2>1, <2>2, SameRows, OneRequest
<1>3. CASE c.asset # Nothing
  <2> DEFINE q == [op |-> "replace", asset |-> c.asset, key |-> c.key, old |-> asset[c.asset].key,
                   for |-> Nothing]
  <2>1. c.asset \in AssetIds /\ c.key \in Keys /\ asset[c.asset].key \in KeyOrNone
    BY <1>1, <1>3 DEF Callback, KeyInv, RowsOK, AssetRow
  <2>2. Calm(q)
    BY <2>1 DEF Calm, RequestRow, Operations, Registering, Replaces, KeyOrNone
  <2>3. request' = [request EXCEPT ![r] = q]
    BY <1>3 DEF Deliver, ReplaceAsked, Ask
  <2> HIDE DEF q
  <2> QED BY <1>1, <2>2, <2>3, SameRows, OneRequest
<1> QED BY <1>2, <1>3

\* Nothing of the uploads changes but the links, or completion calls are lost.
LEMMA StutterInv ==
  ASSUME KeyInv, minted' = minted, asset' = asset, request' = request, item' = item,
         callback' \subseteq callback
  PROVE  KeyInv'
<1>1. request' \in [Requests -> RequestRow] /\ \A s \in Requests : Calm(request'[s])
  BY RequestsAreCalm DEF KeyInv, RowsOK
<1>2. /\ item' \in [Items -> ItemRow] /\ ItemAims'
      /\ \A j \in Items : item'[j].key \in {item[j].key, Nothing}
  BY DEF KeyInv, RowsOK, ItemAims
<1> QED BY <1>1, <1>2, SameRows, CalmStep

-----------------------------------------------------------------------------
(* Rows, blobs and links *)

RowFits(row) ==
  /\ row.is = "unused" => row = Unused
  /\ row.is = "gone" => row = Gone
  /\ row.is = "row" => row.path \in Keys /\ row.meta \in Keys

\* What a request has read from a row to write it to another, or back
RequestFits(q) ==
  /\ q.op \in {"derive", "update"} => q.old \in Keys
  /\ q.op = "derive" => q.key \in Keys

FilesInv ==
  /\ blobs \subseteq minted
  /\ linked \subseteq Rows
  /\ \A a \in AssetIds : RowFits(asset[a])
  /\ \A r \in Requests : RequestFits(request[r])

LEMMA OneFits ==
  ASSUME KeyInv, FilesInv, NEW r \in Requests, NEW q, RequestFits(q),
         request' = [request EXCEPT ![r] = q]
  PROVE  \A s \in Requests : RequestFits(request'[s])
BY DEF KeyInv, RowsOK, FilesInv

LEMMA EndFits ==
  ASSUME KeyInv, FilesInv, NEW r \in Requests, End(r)
  PROVE  \A s \in Requests : RequestFits(request'[s])
<1>1. RequestFits(Idle)
  BY DEF RequestFits, Idle
<1> QED BY <1>1, OneFits DEF End

LEMMA BecomeFits ==
  ASSUME KeyInv, FilesInv, NEW r \in Requests, NEW op, op \notin {"derive", "update"}, Become(r, op)
  PROVE  \A s \in Requests : RequestFits(request'[s])
<1>1. request[r] \in RequestRow
  BY DEF KeyInv, RowsOK
<1>2. RequestFits([request[r] EXCEPT !.op = op])
  BY <1>1 DEF RequestFits, RequestRow
<1>3. request' = [request EXCEPT ![r] = [request[r] EXCEPT !.op = op]]
  BY <1>1 DEF Become, KeyInv, RowsOK, RequestRow
<1> QED BY <1>2, <1>3, OneFits

LEMMA AskFits ==
  ASSUME KeyInv, FilesInv, NEW r \in Requests, NEW op, NEW a, NEW k, NEW old, NEW for,
         Ask(r, op, a, k, old, for),
         op \in {"derive", "update"} => old \in Keys, op = "derive" => k \in Keys
  PROVE  \A s \in Requests : RequestFits(request'[s])
<1> DEFINE q == [op |-> op, asset |-> a, key |-> k, old |-> old, for |-> for]
<1>1. RequestFits(q)
  BY DEF RequestFits
<1>2. request' = [request EXCEPT ![r] = q]
  BY DEF Ask
<1> HIDE DEF q
<1> QED BY <1>1, <1>2, OneFits

\* The rows stay as they are.
LEMMA FilesKept ==
  ASSUME FilesInv, asset' = asset, linked' \subseteq Rows, blobs' \subseteq minted',
         \A r \in Requests : RequestFits(request'[r])
  PROVE  FilesInv'
BY DEF FilesInv, Rows

\* One row changes.
LEMMA RowChanges ==
  ASSUME KeyInv, FilesInv, NEW x \in AssetIds, NEW row, RowFits(row),
         asset' = [asset EXCEPT ![x] = row], linked' \subseteq linked,
         row.is = "row" \/ x \notin linked', blobs' \subseteq minted',
         \A r \in Requests : RequestFits(request'[r])
  PROVE  FilesInv'
<1>1. asset'[x] = row /\ \A a \in AssetIds \ {x} : asset'[a] = asset[a]
  BY DEF KeyInv, RowsOK
<1>2. \A a \in AssetIds : RowFits(asset'[a])
  BY <1>1 DEF FilesInv
<1>3. linked' \subseteq Rows'
  BY <1>1 DEF FilesInv, Rows
<1> QED BY <1>2, <1>3 DEF FilesInv

LEMMA InsertFiles ==
  ASSUME KeyInv, FilesInv, NEW r \in Requests, FinalizeInsert(r)
  PROVE  FilesInv'
<1>1. /\ request[r].key \in Keys /\ End(r) /\ blobs' = blobs /\ minted' = minted /\ linked' = linked
  BY DEF FinalizeInsert, KeyInv, Aims, Registering
<1>2. \A s \in Requests : RequestFits(request'[s])
  BY <1>1, EndFits
<1>3. CASE asset' = asset
  BY <1>1, <1>2, <1>3, FilesKept DEF FilesInv
<1>4. CASE NewRow(Row(request[r].key, request[r].key, request[r].key, Nothing))
  <2> DEFINE row == Row(request[r].key, request[r].key, request[r].key, Nothing)
  <2>1. PICK x \in AssetIds : asset' = [asset EXCEPT ![x] = row]
    BY <1>4 DEF NewRow
  <2>2. RowFits(row) /\ row.is = "row"
    BY <1>1 DEF RowFits, Row
  <2> HIDE DEF row
  <2> QED BY <1>1, <1>2, <2>1, <2>2, RowChanges DEF FilesInv
<1> QED BY <1>3, <1>4 DEF FinalizeInsert

LEMMA ServiceFiles ==
  ASSUME KeyInv, FilesInv, NEW r \in Requests, ServiceStep(r)
  PROVE  FilesInv'
<1>1. CASE Upload(r)
  <2>1. PICK k \in Keys : /\ minted' = minted \union {k} /\ blobs' = blobs \union {k}
                          /\ asset' = asset /\ linked' = linked
                          /\ Ask(r, "upload", Nothing, k, Nothing, Nothing)
    BY <1>1 DEF Upload
  <2>2. \A s \in Requests : RequestFits(request'[s])
    BY <2>1, AskFits
  <2> QED BY <2>1, <2>2, FilesKept DEF FilesInv
<1>2. ASSUME NEW a \in AssetIds, ReplaceRead(r, a) PROVE FilesInv'
  <2>1. PICK k \in Keys : /\ minted' = minted \union {k} /\ blobs' = blobs \union {k}
                          /\ asset' = asset /\ linked' = linked
                          /\ Ask(r, "replace", a, k, asset[a].key, Nothing)
    BY <1>2 DEF ReplaceRead
  <2>2. \A s \in Requests : RequestFits(request'[s])
    BY <2>1, AskFits
  <2> QED BY <2>1, <2>2, FilesKept DEF FilesInv
<1>3. ASSUME NEW a \in AssetIds, DeriveRead(r, a) \/ UpdateRead(r, a) \/ DeleteRead(r, a)
      PROVE  FilesInv'
  <2>1. asset[a].path \in Keys /\ asset[a].meta \in Keys
    BY <1>3 DEF DeriveRead, UpdateRead, DeleteRead, Rows, FilesInv, RowFits
  <2>2. blobs' = blobs /\ minted' = minted /\ asset' = asset /\ linked' = linked
    BY <1>3 DEF DeriveRead, UpdateRead, DeleteRead
  <2>3. \A s \in Requests : RequestFits(request'[s])
    <3>1. CASE DeriveRead(r, a)
      BY <2>1, <3>1, AskFits DEF DeriveRead
    <3>2. CASE UpdateRead(r, a)
      BY <2>1, <3>2, AskFits DEF UpdateRead
    <3>3. CASE DeleteRead(r, a)
      BY <3>3, AskFits DEF DeleteRead
    <3> QED BY <1>3, <3>1, <3>2, <3>3
  <2> QED BY <2>2, <2>3, FilesKept DEF FilesInv
<1>4. CASE FinalizeRead(r)
  <2>1. blobs' = blobs /\ minted' = minted /\ asset' = asset /\ linked' = linked
    BY <1>4 DEF FinalizeRead
  <2>2. \A s \in Requests : RequestFits(request'[s])
    BY <1>4, EndFits, BecomeFits DEF FinalizeRead
  <2> QED BY <2>1, <2>2, FilesKept DEF FilesInv
<1>5. CASE FinalizeFails(r) \/ ReplaceFails(r) \/ RemoveOld(r) \/ DeleteBlob(r) \/ Stop(r)
  <2>1. /\ End(r) /\ blobs' \subseteq blobs /\ minted' = minted /\ asset' = asset /\ linked' = linked
    BY <1>5 DEF FinalizeFails, ReplaceFails, RemoveOld, DeleteBlob, Stop, RemoveBlob
  <2> QED BY <2>1, EndFits, FilesKept DEF FilesInv
<1>6. CASE ReplaceCommit(r)
  <2>1. PICK k \in Keys, x \in AssetIds :
          /\ asset[x].is = "row" /\ asset' = [asset EXCEPT ![x].key = k, ![x].path = k, ![x].meta = k]
          /\ blobs' = blobs /\ minted' = minted /\ linked' = linked
    BY <1>6 DEF ReplaceCommit, KeyInv, Aims, Rows
  <2>2. asset[x] \in AssetRow
    BY DEF KeyInv, RowsOK
  <2> DEFINE row == [asset[x] EXCEPT !.key = k, !.path = k, !.meta = k]
  <2>3. asset' = [asset EXCEPT ![x] = row]
    BY <2>1, <2>2 DEF KeyInv, RowsOK, AssetRow
  <2>4. RowFits(row) /\ row.is = "row"
    BY <2>1, <2>2 DEF RowFits, AssetRow
  <2>5. \A s \in Requests : RequestFits(request'[s])
    BY <1>6, EndFits, BecomeFits DEF ReplaceCommit
  <2> HIDE DEF row
  <2> QED BY <2>1, <2>3, <2>4, <2>5, RowChanges DEF FilesInv
<1>7. CASE DeriveCreate(r)
  <2> DEFINE row == Row(Nothing, request[r].key, request[r].old, request[r].asset)
  <2>1. PICK x \in AssetIds : asset' = [asset EXCEPT ![x] = row]
    BY <1>7 DEF DeriveCreate, NewRow
  <2>2. RowFits(row) /\ row.is = "row"
    BY <1>7 DEF DeriveCreate, RowFits, Row, FilesInv, RequestFits
  <2>3. blobs' = blobs /\ minted' = minted /\ linked' = linked /\ End(r)
    BY <1>7 DEF DeriveCreate
  <2> HIDE DEF row
  <2> QED BY <2>1, <2>2, <2>3, EndFits, RowChanges DEF FilesInv
<1>8. CASE UpdateWrite(r)
  <2>1. PICK x \in AssetIds : /\ asset[x].is = "row"
                              /\ asset' = [asset EXCEPT ![x].meta = request[r].old]
    BY <1>8 DEF UpdateWrite, Rows
  <2>2. asset[x] \in AssetRow /\ request[r].old \in Keys
    BY <1>8 DEF UpdateWrite, KeyInv, RowsOK, FilesInv, RequestFits
  <2> DEFINE row == [asset[x] EXCEPT !.meta = request[r].old]
  <2>3. asset' = [asset EXCEPT ![x] = row]
    BY <2>1, <2>2 DEF KeyInv, RowsOK, AssetRow
  <2>4. RowFits(row) /\ row.is = "row"
    BY <2>1, <2>2 DEF RowFits, AssetRow, FilesInv
  <2>5. blobs' = blobs /\ minted' = minted /\ linked' = linked /\ End(r)
    BY <1>8 DEF UpdateWrite
  <2> HIDE DEF row
  <2> QED BY <2>1, <2>3, <2>4, <2>5, EndFits, RowChanges DEF FilesInv
<1>9. CASE DeleteRow(r)
  <2>1. PICK x \in AssetIds : /\ asset' = [asset EXCEPT ![x] = Gone] /\ linked' = linked \ {x}
                              /\ blobs' = blobs /\ minted' = minted
    BY <1>9 DEF DeleteRow, Rows
  <2>2. RowFits(Gone)
    BY DEF RowFits, Gone, Unused
  <2>3. \A s \in Requests : RequestFits(request'[s])
    BY <1>9, EndFits, BecomeFits DEF DeleteRow
  <2> QED BY <2>1, <2>2, <2>3, RowChanges DEF FilesInv
<1> QED BY <1>1, <1>2, <1>3, <1>4, <1>5, <1>6, <1>7, <1>8, <1>9, InsertFiles DEF ServiceStep

LEMMA ClientFiles ==
  ASSUME KeyInv, FilesInv, NEW i \in Items, ClientStep(i)
  PROVE  FilesInv'
<1>1. CASE ClientUpload(i)
  <2>1. /\ blobs' \subseteq minted' /\ asset' = asset /\ linked' = linked /\ request' = request
    BY <1>1 DEF ClientUpload, FilesInv
  <2> QED BY <2>1, FilesKept DEF FilesInv
<1>2. CASE CallFinalize(i)
  <2>1. blobs' = blobs /\ minted' = minted /\ asset' = asset /\ linked' = linked
    BY <1>2 DEF CallFinalize
  <2>2. \A s \in Requests : RequestFits(request'[s])
    BY <1>2, AskFits DEF CallFinalize, FilesInv
  <2> QED BY <2>1, <2>2, FilesKept DEF FilesInv
<1>3. CASE GiveUpWaiting(i)
  <2>1. blobs' = blobs /\ minted' = minted /\ asset' = asset /\ linked' = linked /\ Detach(i)
    BY <1>3 DEF GiveUpWaiting
  <2>2. ASSUME NEW s \in Requests PROVE RequestFits(request'[s])
    <3>1. request[s] \in RequestRow /\ RequestFits(request[s])
      BY DEF KeyInv, RowsOK, FilesInv
    <3>2. request'[s] \in {request[s], [request[s] EXCEPT !.for = Nothing]}
      BY <2>1 DEF Detach
    <3> QED BY <3>1, <3>2 DEF RequestFits, RequestRow
  <2> QED BY <2>1, <2>2, FilesKept DEF FilesInv
<1>4. CASE LookUp(i) \/ LookUpAnswered(i) \/ Retry(i)
  BY <1>4 DEF LookUp, LookUpAnswered, Retry, libraryVars, FilesInv, Rows
<1> QED BY <1>1, <1>2, <1>3, <1>4 DEF ClientStep

LEMMA AnswerFiles ==
  ASSUME KeyInv, FilesInv, NEW r \in Requests, Answer(r)
  PROVE  FilesInv'
<1>1. ServiceStep(r)
  BY DEF Answer, AnsweredRead, AnsweredInsert, AnsweredFailure, ServiceStep
<1> QED BY <1>1, ServiceFiles

LEMMA DeliverFiles ==
  ASSUME KeyInv, FilesInv, NEW r \in Requests, NEW c \in callback, Deliver(r, c)
  PROVE  FilesInv'
<1>1. blobs' = blobs /\ minted' = minted /\ asset' = asset /\ linked' = linked
  BY DEF Deliver
<1>2. \A s \in Requests : RequestFits(request'[s])
  BY AskFits DEF Deliver, ReplaceAsked
<1> QED BY <1>1, <1>2, FilesKept DEF FilesInv

LEMMA FilesStep == KeyInv /\ FilesInv /\ [UploadNext]_uploadVars => FilesInv'
<1> SUFFICES ASSUME KeyInv, FilesInv, [UploadNext]_uploadVars PROVE FilesInv'
  OBVIOUS
<1>1. ASSUME NEW a \in AssetIds, ClientReplace(a) PROVE FilesInv'
  <2>1. /\ blobs' \subseteq minted' /\ asset' = asset /\ linked' = linked /\ request' = request
    BY <1>1 DEF ClientReplace, FilesInv
  <2> QED BY <2>1, FilesKept DEF FilesInv
<1>2. ASSUME NEW a \in AssetIds, LinkAsset(a) PROVE FilesInv'
  <2>1. /\ blobs' = blobs /\ minted' = minted /\ asset' = asset /\ request' = request
        /\ linked' \subseteq Rows
    BY <1>2 DEF LinkAsset, FilesInv
  <2> QED BY <2>1, FilesKept DEF FilesInv
<1>3. ASSUME NEW c \in callback, LoseCallback(c) PROVE FilesInv'
  BY <1>3 DEF LoseCallback, libraryVars, FilesInv, Rows
<1>4. CASE UNCHANGED uploadVars
  BY <1>4 DEF uploadVars, libraryVars, FilesInv, Rows
<1> QED BY <1>1, <1>2, <1>3, <1>4, ClientFiles, AnswerFiles, ServiceFiles, DeliverFiles DEF UploadNext

-----------------------------------------------------------------------------
(* What the browser knows and waits for *)

\* An item that has not begun knows of no stored file; the counters stay within bounds.
ItemFits(it) ==
  /\ it.pc = "new" => ~it.url
  /\ it.attempt \in 1..FinalizeAttempts /\ it.looks \in 1..Lookups /\ it.again \in 0..Retries
ItemsInv == \A i \in Items : ItemFits(item[i])

\* The request an item waits for registers the item's file, and is the only one.
WaitsFor(r) ==
  /\ request[r].op \in {"finalize", "insert"}
  /\ item[request[r].for].pc = "calling"
  /\ item[request[r].for].key = request[r].key
WaitInv ==
  /\ \A r \in Requests : Waiting(r) => WaitsFor(r)
  /\ \A r, s \in Requests : Waiting(r) /\ request[s].for = request[r].for => s = r

LEMMA NewFits ==
  ASSUME UploadAssumption, NEW n \in 0..Retries
  PROVE  /\ NewItem(n) \in ItemRow /\ ItemFits(NewItem(n))
         /\ NewItem(n).pc = "new" /\ NewItem(n).url = FALSE /\ NewItem(n).key = Nothing
         /\ NewItem(n).attempt = 1 /\ NewItem(n).looks = 1 /\ NewItem(n).again = n
BY DEF NewItem, ItemFits, ItemRow, ItemStates, KeyOrNone, UploadAssumption

LEMMA OneItem ==
  ASSUME KeyInv, ItemsInv, NEW i \in Items, NEW it, ItemFits(it), item' = [item EXCEPT ![i] = it]
  PROVE  ItemsInv' /\ item'[i] = it /\ \A j \in Items \ {i} : item'[j] = item[j]
BY DEF KeyInv, RowsOK, ItemsInv

LEMMA MoveFits ==
  ASSUME KeyInv, ItemsInv, NEW i \in Items, NEW pc, pc # "new", Move(i, pc)
  PROVE  /\ ItemsInv' /\ item'[i].pc = pc /\ item'[i].key = item[i].key
         /\ \A j \in Items \ {i} : item'[j] = item[j]
<1>1. item[i] \in ItemRow /\ ItemFits(item[i])
  BY DEF KeyInv, RowsOK, ItemsInv
<1> DEFINE it == [item[i] EXCEPT !.pc = pc]
<1>2. ItemFits(it) /\ it.pc = pc /\ it.key = item[i].key
  BY <1>1 DEF ItemFits, ItemRow
<1>3. item' = [item EXCEPT ![i] = it]
  BY <1>1 DEF Move, KeyInv, RowsOK, ItemRow
<1> HIDE DEF it
<1> QED BY <1>2, <1>3, OneItem

\* What a step of one item does to it: the item's file changes only if it has gone, or
\* the browser did not know that it is stored.
Lasts(i) == item[i].url /\ item'[i].key # item[i].key => item[i].key \notin blobs

\* A step of the browser's own
LEMMA ClientItem ==
  ASSUME UploadAssumption, KeyInv, ItemsInv, NEW i \in Items, ClientStep(i)
  PROVE  /\ ItemsInv' /\ \A j \in Items \ {i} : item'[j] = item[j]
         /\ Lasts(i)
         /\ CallFinalize(i) => item'[i].pc = "calling" /\ item'[i].key = item[i].key
<1>0. item[i] \in ItemRow /\ ItemFits(item[i])
  BY DEF KeyInv, RowsOK, ItemsInv
<1>1. CASE ClientUpload(i)
  <2>1. ~item[i].url /\ item[i].pc = "new"
    BY <1>0, <1>1 DEF ClientUpload, ItemFits
  <2>2. PICK k \in Keys :
          \/ item' = [item EXCEPT ![i].pc = "finalize", ![i].key = k, ![i].url = TRUE]
          \/ item' = [item EXCEPT ![i].pc = "failed", ![i].key = k]
    BY <1>1 DEF ClientUpload
  <2> DEFINE fin == [item[i] EXCEPT !.pc = "finalize", !.key = k, !.url = TRUE]
             fail == [item[i] EXCEPT !.pc = "failed", !.key = k]
  <2>3. item' = [item EXCEPT ![i] = fin] \/ item' = [item EXCEPT ![i] = fail]
    BY <1>0, <2>2 DEF KeyInv, RowsOK, ItemRow
  <2>4. ItemFits(fin) /\ ItemFits(fail)
    BY <1>0 DEF ItemFits, ItemRow
  <2> HIDE DEF fin, fail
  <2>5. ~CallFinalize(i)
    BY <2>1 DEF CallFinalize
  <2> QED BY <2>1, <2>3, <2>4, <2>5, OneItem DEF Lasts
<1>2. CASE CallFinalize(i)
  BY <1>2, MoveFits DEF CallFinalize, Lasts
<1>3. CASE GiveUpWaiting(i)
  <2>1. item[i].pc = "calling" /\ ~CallFinalize(i)
    BY <1>3 DEF GiveUpWaiting, CallFinalize
  <2>2. CASE /\ item[i].attempt < FinalizeAttempts
             /\ item' = [item EXCEPT ![i].pc = "finalize", ![i].attempt = @ + 1]
    <3>0. PICK n \in 1..FinalizeAttempts : n = item[i].attempt + 1
      BY <1>0, <2>2 DEF ItemFits, UploadAssumption
    <3> DEFINE it == [item[i] EXCEPT !.pc = "finalize", !.attempt = n]
    <3>1. item' = [item EXCEPT ![i] = it]
      BY <1>0, <2>2, <3>0 DEF KeyInv, RowsOK, ItemRow
    <3>2. ItemFits(it) /\ it.key = item[i].key
      BY <1>0 DEF ItemFits, ItemRow
    <3> HIDE DEF it
    <3> QED BY <2>1, <3>1, <3>2, OneItem DEF Lasts
  <2>3. CASE Move(i, "lookup")
    BY <2>1, <2>3, MoveFits DEF Lasts
  <2> QED BY <1>3, <2>2, <2>3 DEF GiveUpWaiting, Move
<1>4. CASE LookUp(i) \/ LookUpAnswered(i)
  <2>1. item[i].pc \in {"lookup", "looking"} /\ ~CallFinalize(i)
    BY <1>4 DEF LookUp, LookUpAnswered, CallFinalize
  <2>2. CASE item[i].looks < Lookups /\ item' = [item EXCEPT ![i].pc = "lookup", ![i].looks = @ + 1]
    <3>0. PICK n \in 1..Lookups : n = item[i].looks + 1
      BY <1>0, <2>2 DEF ItemFits, UploadAssumption
    <3> DEFINE it == [item[i] EXCEPT !.pc = "lookup", !.looks = n]
    <3>1. item' = [item EXCEPT ![i] = it]
      BY <1>0, <2>2, <3>0 DEF KeyInv, RowsOK, ItemRow
    <3>2. ItemFits(it) /\ it.key = item[i].key
      BY <1>0, <2>1 DEF ItemFits, ItemRow
    <3> HIDE DEF it
    <3> QED BY <2>1, <3>1, <3>2, OneItem DEF Lasts
  <2>3. CASE Move(i, "looking") \/ Move(i, "ready") \/ Move(i, "failed")
    BY <2>1, <2>3, MoveFits DEF Lasts
  <2> QED BY <1>4, <2>2, <2>3 DEF LookUp, LookUpAnswered
<1>5. CASE Retry(i)
  <2>1. item[i].pc = "failed" /\ ~CallFinalize(i)
    BY <1>5 DEF Retry, CallFinalize
  <2>2. PICK n \in 0..Retries : n = item[i].again + 1
    BY <1>0, <1>5 DEF Retry, ItemFits, UploadAssumption
  <2> DEFINE new == NewItem(n)
             it == [new EXCEPT !.pc = "finalize", !.key = item[i].key, !.url = TRUE]
  <2>3. /\ new \in ItemRow /\ ItemFits(new)
    BY NewFits
  <2>4. CASE item[i].url
    <3>1. item' = [item EXCEPT ![i] = it]
      BY <1>5, <2>2, <2>4 DEF Retry
    <3> HIDE DEF new
    <3>2. ItemFits(it) /\ it.key = item[i].key
      BY <2>3 DEF ItemFits, ItemRow
    <3> HIDE DEF it
    <3> QED BY <2>1, <3>1, <3>2, OneItem DEF Lasts
  <2>5. CASE ~item[i].url
    <3>1. item' = [item EXCEPT ![i] = new]
      BY <1>5, <2>2, <2>5 DEF Retry
    <3> HIDE DEF new, it
    <3> QED BY <2>1, <2>3, <2>5, <3>1, OneItem DEF Lasts
  <2> QED BY <2>4, <2>5
<1> QED BY <1>1, <1>2, <1>3, <1>4, <1>5 DEF ClientStep

\* A request is answered: the file its item registers is the one it looked for.
LEMMA AnswerItem ==
  ASSUME UploadAssumption, KeyInv, ItemsInv, WaitInv, NEW r \in Requests, Answer(r)
  PROVE  /\ ItemsInv' /\ \A j \in Items \ {request[r].for} : item'[j] = item[j]
         /\ Lasts(request[r].for)
         /\ item' = item \/ End(r)
<1>1. request[r].for \in Items /\ WaitsFor(r)
  BY DEF Answer, Waiting, AnsweredRead, AnsweredInsert, AnsweredFailure, WaitInv
<1> DEFINE i == request[r].for
<1>2. item[i] \in ItemRow /\ ItemFits(item[i]) /\ item[i].key = request[r].key
  BY <1>1 DEF KeyInv, RowsOK, ItemsInv, WaitsFor
<1>3. CASE AnsweredRead(r)
  <2>1. FinalizeRead(r)
    BY <1>3 DEF AnsweredRead
  <2>2. CASE FinalizeVerdict(request[r].key) = "missing"
    <3>1. End(r) /\ item[i].key \notin blobs
      BY <1>2, <2>1, <2>2 DEF FinalizeRead, FinalizeVerdict
    <3>2. item' = [item EXCEPT ![i] = AfterMissing(item[i])]
      BY <1>3, <2>2 DEF AnsweredRead
    <3>3. ItemFits(AfterMissing(item[i]))
      <4>1. CASE item[i].again = 0
        BY <1>2, <4>1 DEF AfterMissing, ItemFits, ItemRow
      <4>2. CASE item[i].again # 0
        BY <1>2, <4>2, NewFits DEF AfterMissing, ItemFits
      <4> QED BY <4>1, <4>2
    <3> QED BY <1>1, <3>1, <3>2, <3>3, OneItem DEF Lasts
  <2>3. CASE FinalizeVerdict(request[r].key) = "found"
    <3>1. End(r) /\ Move(i, "ready")
      BY <1>3, <2>1, <2>3 DEF AnsweredRead, FinalizeRead, Move
    <3> QED BY <1>1, <3>1, MoveFits DEF Lasts
  <2>4. CASE FinalizeVerdict(request[r].key) = "absent"
    <3>1. item' = item
      BY <1>3, <2>4 DEF AnsweredRead
    <3> QED BY <3>1 DEF Lasts, ItemsInv
  <2> QED BY <2>2, <2>3, <2>4 DEF FinalizeVerdict
<1>4. CASE AnsweredInsert(r) \/ AnsweredFailure(r)
  <2>1. End(r) /\ (Move(i, "ready") \/ Move(i, "failed"))
    BY <1>4 DEF AnsweredInsert, AnsweredFailure, FinalizeInsert, FinalizeFails
  <2> QED BY <1>1, <2>1, MoveFits DEF Lasts
<1> QED BY <1>3, <1>4 DEF Answer

\* A step that leaves the items alone, or is of one item i
LEMMA ItemsStep ==
  ASSUME UploadAssumption, KeyInv, ItemsInv, WaitInv, [UploadNext]_uploadVars
  PROVE  ItemsInv' /\ \A i \in Items : Lasts(i)
<1>1. ASSUME NEW i \in Items, ClientStep(i) PROVE ItemsInv' /\ \A j \in Items : Lasts(j)
  BY <1>1, ClientItem DEF Lasts
<1>2. ASSUME NEW r \in Requests, Answer(r) PROVE ItemsInv' /\ \A j \in Items : Lasts(j)
  BY <1>2, AnswerItem DEF Lasts
<1>3. CASE item' = item
  BY <1>3 DEF ItemsInv, Lasts
<1> QED BY <1>1, <1>2, <1>3
        DEF UploadNext, Deliver, LoseCallback, ClientReplace, uploadVars

\* Requests that go on waiting do so for an item that has not changed.
LEMMA WaitKept ==
  ASSUME WaitInv,
         \A r \in Requests : request'[r].for \in Items =>
           /\ request'[r].for = request[r].for /\ request'[r].key = request[r].key
           /\ request'[r].op \in {"finalize", "insert"}
           /\ item'[request[r].for] = item[request[r].for]
  PROVE  WaitInv'
<1>1. ASSUME NEW r \in Requests, request'[r].for \in Items
      PROVE  WaitsFor(r)' /\ \A s \in Requests : request'[s].for = request'[r].for => s = r
  <2>1. Waiting(r) /\ WaitsFor(r)
    BY <1>1 DEF WaitInv, Waiting
  <2>2. WaitsFor(r)'
    BY <1>1, <2>1 DEF WaitsFor
  <2>3. ASSUME NEW s \in Requests, request'[s].for = request'[r].for PROVE s = r
    BY <1>1, <2>1, <2>3 DEF WaitInv
  <2> QED BY <2>2, <2>3
<1> QED BY <1>1 DEF WaitInv, Waiting

\* A request that is nobody's stays so.
LEMMA ServiceWaits ==
  ASSUME UploadAssumption, KeyInv, NEW r \in Requests, ServiceStep(r), ~Waiting(r)
  PROVE  request'[r].for \notin Items /\ \A s \in Requests \ {r} : request'[s] = request[s]
<1>0. request \in [Requests -> RequestRow] /\ Nothing \notin Items /\ Idle.for = Nothing
  BY DEF KeyInv, RowsOK, UploadAssumption, Idle
<1>1. ASSUME NEW op, NEW a, NEW k, NEW old, Ask(r, op, a, k, old, Nothing)
      PROVE  request'[r].for = Nothing /\ \A s \in Requests \ {r} : request'[s] = request[s]
  BY <1>0, <1>1 DEF Ask
<1>2. ASSUME End(r)
      PROVE  request'[r].for = Nothing /\ \A s \in Requests \ {r} : request'[s] = request[s]
  BY <1>0, <1>2 DEF End
<1>3. ASSUME NEW op, Become(r, op)
      PROVE  request'[r].for = request[r].for /\ \A s \in Requests \ {r} : request'[s] = request[s]
  BY <1>0, <1>3 DEF Become, RequestRow
<1>4. \/ \E op, a, k, old : Ask(r, op, a, k, old, Nothing)
      \/ End(r)
      \/ \E op : Become(r, op)
  BY DEF ServiceStep, Upload, FinalizeRead, FinalizeInsert, FinalizeFails, ReplaceRead, ReplaceCommit,
         ReplaceFails, RemoveOld, DeriveRead, DeriveCreate, UpdateRead, UpdateWrite, DeleteRead,
         DeleteRow, DeleteBlob, Stop
<1> QED BY <1>0, <1>1, <1>2, <1>3, <1>4 DEF Waiting

LEMMA ClientWaits ==
  ASSUME UploadAssumption, KeyInv, ItemsInv, WaitInv, NEW i \in Items, ClientStep(i)
  PROVE  WaitInv'
<1>0. /\ request \in [Requests -> RequestRow] /\ Nothing \notin Items
      /\ \A j \in Items \ {i} : item'[j] = item[j]
  BY ClientItem DEF KeyInv, RowsOK, UploadAssumption
<1>1. CASE ClientUpload(i) \/ LookUp(i) \/ LookUpAnswered(i) \/ Retry(i)
  <2>1. item[i].pc # "calling" /\ request' = request
    BY <1>1 DEF ClientUpload, LookUp, LookUpAnswered, Retry, libraryVars
  <2> QED BY <1>0, <2>1, WaitKept DEF WaitInv, Waiting, WaitsFor
<1>2. CASE GiveUpWaiting(i)
  <2>1. Detach(i)
    BY <1>2 DEF GiveUpWaiting
  <2>2. ASSUME NEW s \in Requests, request'[s].for \in Items
        PROVE  request'[s] = request[s] /\ request[s].for # i
    <3>1. request[s] \in RequestRow
      BY <1>0
    <3>2. request'[s] = IF request[s].for = i THEN [request[s] EXCEPT !.for = Nothing] ELSE request[s]
      BY <2>1 DEF Detach
    <3> QED BY <1>0, <2>2, <3>1, <3>2 DEF RequestRow
  <2> QED BY <1>0, <2>2, WaitKept DEF WaitInv, Waiting, WaitsFor
<1>3. CASE CallFinalize(i)
  <2>1. item[i].pc = "finalize" /\ item'[i].pc = "calling" /\ item'[i].key = item[i].key
    BY <1>3, ClientItem DEF CallFinalize
  <2>2. \A s \in Requests : request[s].for # i
    BY <2>1 DEF WaitInv, Waiting, WaitsFor
  <2>3. CASE request' = request
    BY <1>0, <2>2, <2>3, WaitKept DEF WaitInv, Waiting, WaitsFor
  <2>4. ASSUME NEW r \in Requests, Ask(r, "finalize", Nothing, item[i].key, Nothing, i)
        PROVE  WaitInv'
    <3>1. /\ request'[r].for = i /\ request'[r].op = "finalize" /\ request'[r].key = item[i].key
          /\ \A s \in Requests \ {r} : request'[s] = request[s]
      BY <1>0, <2>4 DEF Ask
    <3>2. WaitsFor(r)'
      BY <2>1, <3>1 DEF WaitsFor
    <3>3. ASSUME NEW s \in Requests \ {r}, request[s].for \in Items PROVE WaitsFor(s)'
      <4>1. WaitsFor(s) /\ request'[s] = request[s] /\ item'[request[s].for] = item[request[s].for]
        BY <1>0, <2>2, <3>1, <3>3 DEF WaitInv, Waiting
      <4> QED BY <4>1 DEF WaitsFor
    <3>4. \A s \in Requests : request'[s].for \in Items => WaitsFor(s)'
      BY <3>1, <3>2, <3>3
    <3>5. ASSUME NEW s \in Requests, NEW t \in Requests, request'[s].for \in Items,
                 request'[t].for = request'[s].for
          PROVE  t = s
      BY <2>2, <3>1, <3>5 DEF WaitInv, Waiting
    <3> QED BY <3>4, <3>5 DEF WaitInv, Waiting
  <2> QED BY <1>3, <2>3, <2>4 DEF CallFinalize
<1> QED BY <1>1, <1>2, <1>3 DEF ClientStep

LEMMA AnswerWaits ==
  ASSUME UploadAssumption, KeyInv, ItemsInv, WaitInv, NEW r \in Requests, Answer(r)
  PROVE  WaitInv'
<1>0. /\ request \in [Requests -> RequestRow] /\ Nothing \notin Items /\ Idle.for = Nothing
      /\ Waiting(r) /\ WaitsFor(r)
  BY DEF KeyInv, RowsOK, UploadAssumption, Idle, Answer, AnsweredRead, AnsweredInsert, AnsweredFailure,
         WaitInv
<1>1. \A s \in Requests \ {r} : request[s].for \in Items => item'[request[s].for] = item[request[s].for]
  BY <1>0, AnswerItem DEF WaitInv
<1>2. CASE End(r)
  <2>1. request'[r] = Idle /\ \A s \in Requests \ {r} : request'[s] = request[s]
    BY <1>0, <1>2 DEF End
  <2> QED BY <1>0, <1>1, <2>1, WaitKept DEF WaitInv, Waiting, WaitsFor
<1>3. CASE ~End(r)
  <2>1. item' = item /\ Become(r, "insert")
    BY <1>0, <1>3, AnswerItem DEF WaitsFor, Answer, AnsweredRead, AnsweredInsert, AnsweredFailure,
       FinalizeRead, FinalizeInsert, FinalizeFails
  <2>2. /\ request'[r].op = "insert" /\ request'[r].for = request[r].for /\ request'[r].key = request[r].key
        /\ \A s \in Requests \ {r} : request'[s] = request[s]
    BY <1>0, <2>1 DEF Become, RequestRow
  <2> QED BY <2>1, <2>2, WaitKept DEF WaitInv, Waiting, WaitsFor
<1> QED BY <1>2, <1>3

LEMMA WaitStep ==
  ASSUME UploadAssumption, KeyInv, ItemsInv, WaitInv, [UploadNext]_uploadVars
  PROVE  WaitInv'
<1>0. request \in [Requests -> RequestRow] /\ Nothing \notin Items
  BY DEF KeyInv, RowsOK, UploadAssumption
<1>1. ASSUME NEW r \in Requests, ServiceStep(r), ~Waiting(r), item' = item PROVE WaitInv'
  BY <1>1, ServiceWaits, WaitKept DEF WaitInv, Waiting, WaitsFor
<1>2. ASSUME NEW r \in Requests, NEW c \in callback, Deliver(r, c) PROVE WaitInv'
  <2>1. /\ item' = item
        /\ \E op, a, k, old : Ask(r, op, a, k, old, Nothing)
    BY <1>2 DEF Deliver, ReplaceAsked
  <2>2. request'[r].for = Nothing /\ \A s \in Requests \ {r} : request'[s] = request[s]
    BY <1>0, <2>1 DEF Ask
  <2> QED BY <1>0, <2>1, <2>2, WaitKept DEF WaitInv, Waiting, WaitsFor
<1>3. CASE request' = request /\ item' = item
  BY <1>3 DEF WaitInv, Waiting, WaitsFor
<1> QED BY <1>1, <1>2, <1>3, ClientWaits, AnswerWaits
        DEF UploadNext, LoseCallback, ClientReplace, LinkAsset, uploadVars, libraryVars

-----------------------------------------------------------------------------
(* The theorems *)

\* The invariant holds at the start and every step keeps it.
THEOREM UploadInvariance == UploadSpec => []KeyInv
<1>1. UploadInit => KeyInv
  <2> SUFFICES ASSUME UploadInit PROVE KeyInv
    OBVIOUS
  <2>1. /\ minted = {} /\ callback = {} /\ asset = [a \in AssetIds |-> Unused]
        /\ request = [r \in Requests |-> Idle] /\ item = [i \in Items |-> NewItem(0)]
    BY DEF UploadInit, LibraryInit
  <2>2. RowsOK
    BY <2>1, Words DEF RowsOK
  <2>3. Aims /\ ItemAims
    BY <2>1 DEF Aims, ItemAims, Idle, NewItem, Registering
  <2>4. \A k \in Keys : ~Registers(k) /\ \A a \in AssetIds : ~Replaces(k, a)
    BY <2>1, Words DEF Registers, Replaces, Idle, NewItem, Registering
  <2>5. OneRow
    BY <2>1 DEF OneRow, Unused
  <2> QED BY <2>2, <2>3, <2>4, <2>5 DEF KeyInv, OnePurpose
<1>2. KeyInv /\ [UploadNext]_uploadVars => KeyInv'
  <2> SUFFICES ASSUME KeyInv, [UploadNext]_uploadVars PROVE KeyInv'
    OBVIOUS
  <2>1. ASSUME NEW i \in Items, ClientStep(i) PROVE KeyInv'
    BY <2>1, ClientInv, UploadAssumption
  <2>2. ASSUME NEW r \in Requests, Answer(r) PROVE KeyInv'
    BY <2>2, AnswerInv, UploadAssumption
  <2>3. ASSUME NEW r \in Requests, ServiceStep(r), UNCHANGED <<item, callback>> PROVE KeyInv'
    BY <2>3, ServiceInv DEF Alone
  <2>4. ASSUME NEW r \in Requests, NEW c \in callback, Deliver(r, c) PROVE KeyInv'
    BY <2>4, DeliverInv
  <2>5. ASSUME NEW c \in callback, LoseCallback(c) PROVE KeyInv'
    BY <2>5, StutterInv DEF LoseCallback, libraryVars
  <2>6. ASSUME NEW a \in AssetIds, LinkAsset(a), UNCHANGED <<item, callback>> PROVE KeyInv'
    BY <2>6, StutterInv DEF LinkAsset
  <2>7. CASE UNCHANGED uploadVars
    BY <2>7, StutterInv DEF uploadVars, libraryVars
  <2> QED BY <2>1, <2>2, <2>3, <2>4, <2>5, <2>6, <2>7, ClientReplaceInv DEF UploadNext
<1> QED BY <1>1, <1>2, PTL DEF UploadSpec

\* asset-service.ts finalizeTenantAssetFromBlob: however often, by whom and in whatever
\* order a file is registered, uploaded again or given to an asset, it has one row.
THEOREM OneRowPerFile == UploadSpec => []OneAssetPerFile
<1>1. ASSUME KeyInv, NEW k \in Keys PROVE Cardinality(RowsOf(k)) <= 1
  <2>1. CASE RowsOf(k) = {}
    BY <2>1, FS_EmptySet
  <2>2. ASSUME NEW a \in RowsOf(k) PROVE Cardinality(RowsOf(k)) <= 1
    <3>1. RowsOf(k) = {a}
      BY <1>1, <2>2, Words DEF KeyInv, OneRow, RowsOf, Rows
    <3>2. Cardinality({a}) = 1
      BY FS_Singleton
    <3> QED BY <3>1, <3>2
  <2> QED BY <2>1, <2>2
<1>2. KeyInv => OneAssetPerFile
  BY <1>1 DEF OneAssetPerFile
<1> QED BY <1>2, UploadInvariance, PTL

LEMMA WholeInvariance == UploadSpec => [](KeyInv /\ FilesInv /\ ItemsInv /\ WaitInv)
<1>1. UploadInit => FilesInv /\ ItemsInv /\ WaitInv
  <2> SUFFICES ASSUME UploadInit PROVE FilesInv /\ ItemsInv /\ WaitInv
    OBVIOUS
  <2>1. /\ minted = {} /\ blobs = {} /\ linked = {} /\ asset = [a \in AssetIds |-> Unused]
        /\ request = [r \in Requests |-> Idle] /\ item = [i \in Items |-> NewItem(0)]
    BY DEF UploadInit, LibraryInit
  <2>2. FilesInv
    BY <2>1 DEF FilesInv, RowFits, RequestFits, Unused, Idle
  <2>3. ItemsInv
    <3>1. 0 \in 0..Retries
      BY UploadAssumption DEF UploadAssumption
    <3> QED BY <2>1, <3>1, NewFits, UploadAssumption DEF ItemsInv
  <2>4. WaitInv
    BY <2>1, UploadAssumption DEF WaitInv, Waiting, Idle, UploadAssumption
  <2> QED BY <2>2, <2>3, <2>4
<1>2. KeyInv /\ FilesInv /\ ItemsInv /\ WaitInv /\ [UploadNext]_uploadVars
        => (FilesInv /\ ItemsInv /\ WaitInv)'
  BY FilesStep, ItemsStep, WaitStep, UploadAssumption
<1> QED BY <1>1, <1>2, UploadInvariance, PTL DEF UploadSpec

\* The rows, blobs, requests and uploads are what AssetLibrary and AssetUploads say: no
\* file is known that was not stored, no draft uses an asset that has gone, and the
\* browser's attempts, look-ups and retries stay within their bounds.
THEOREM UploadTypeCorrect == UploadSpec => []ContentTypeOK
<1>1. KeyInv /\ FilesInv => LibraryTypeOK
  <2> SUFFICES ASSUME KeyInv, FilesInv PROVE LibraryTypeOK
    OBVIOUS
  <2>1. ASSUME NEW a \in AssetIds
        PROVE  \/ asset[a] \in {Unused, Gone}
               \/ /\ asset[a].is = "row"
                  /\ asset[a].key \in Keys \union {Nothing}
                  /\ {asset[a].path, asset[a].meta} \subseteq Keys
                  /\ asset[a].from \in AssetIds \union {Nothing}
    BY DEF KeyInv, RowsOK, AssetRow, KeyOrNone, FilesInv, RowFits
  <2>2. \A r \in Requests : request[r].op \in Operations \union {"idle"}
    BY DEF KeyInv, RowsOK, RequestRow
  <2> QED BY <2>1, <2>2 DEF LibraryTypeOK, FilesInv, Rows, KeyInv, RowsOK
<1>2. KeyInv /\ ItemsInv => UploadTypeOK
  <2> SUFFICES ASSUME KeyInv, ItemsInv PROVE UploadTypeOK
    OBVIOUS
  <2>1. ASSUME NEW i \in Items
        PROVE  /\ item[i].pc \in ItemStates
               /\ item[i].key \in minted \union {Nothing}
               /\ item[i].url => item[i].key # Nothing
    <3>1. item[i] \in ItemRow
      BY DEF KeyInv, RowsOK
    <3>2. item[i].key \in Keys => item[i].key \in minted
      BY DEF KeyInv, OnePurpose, Registers
    <3> QED BY <3>1, <3>2, Words DEF ItemRow, KeyOrNone, KeyInv, ItemAims
  <2> QED BY <2>1 DEF UploadTypeOK, ItemsInv, ItemFits, KeyInv, RowsOK
<1> QED BY <1>1, <1>2, WholeInvariance, PTL DEF ContentTypeOK

\* dashboard-console.tsx handleRetryUploadItem: a person who retries uploads a file
\* again only if the stored one has gone, whatever requests and answers are lost, late
\* or repeated, for any number of attempts and retries.
THEOREM RetriesKeepFiles == UploadSpec => RetryKeepsFile
<1>1. KeyInv /\ ItemsInv /\ WaitInv /\ [UploadNext]_uploadVars =>
        [\A i \in Items : item[i].url /\ item'[i].key # item[i].key => item[i].key \notin blobs]_uploadVars
  BY ItemsStep, UploadAssumption DEF Lasts
<1> QED BY <1>1, WholeInvariance, PTL DEF UploadSpec, RetryKeepsFile
=============================================================================
