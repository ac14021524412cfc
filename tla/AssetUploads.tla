---------------------------- MODULE AssetUploads ----------------------------
(***************************************************************************)
(* Files on their way into the library: the browser stores a file, asks    *)
(* for its registration and asks again when no answer comes, while the     *)
(* blob store calls back to register the same file, once or several times. *)
(***************************************************************************)
EXTENDS AssetLibrary

CONSTANTS
  Items,             \* files a person uploads
  FinalizeAttempts,  \* finalizeAttempts of resolveUploadedAssetAfterUpload
  Lookups,           \* attempts of waitForRegisteredAsset
  Retries            \* how often a person retries a failed item (bound)

ASSUME UploadAssumption ==
  /\ {FinalizeAttempts, Lookups} \subseteq Nat \ {0} /\ Retries \in Nat
  /\ Nothing \notin Items

VARIABLES
  item,      \* the upload queue of the browser
  callback   \* completion calls the blob store has yet to make

uploadVars == <<libraryVars, item, callback>>

\* url: the browser knows that the file is stored.  again: the person has retried.
NewItem(again) == [pc |-> "new", key |-> Nothing, url |-> FALSE, attempt |-> 1, looks |-> 1, again |-> again]
ItemStates == {"new", "finalize", "calling", "lookup", "looking", "ready", "failed"}
Callback == [key : Keys, asset : AssetIds \union {Nothing}, expected : Keys \union {Nothing}]

UploadTypeOK ==
  /\ \A i \in Items :
       /\ item[i].pc \in ItemStates
       /\ item[i].key \in minted \union {Nothing}
       /\ item[i].url => item[i].key # Nothing
       /\ item[i].attempt \in 1..FinalizeAttempts
       /\ item[i].looks \in 1..Lookups
       /\ item[i].again \in 0..Retries
  /\ callback \subseteq Callback

Move(i, pc) == item' = [item EXCEPT ![i].pc = pc]
Detach(i) ==
  request' = [r \in Requests |->
                IF request[r].for = i THEN [request[r] EXCEPT !.for = Nothing] ELSE request[r]]

\* uploadOne: the file may be stored without the browser learning of it.
ClientUpload(i) ==
  /\ item[i].pc = "new"
  /\ \E k \in Keys :
       /\ Fresh(k)
       /\ minted' = minted \union {k}
       /\ \/ /\ blobs' = blobs \union {k}
             /\ callback' = callback \union {[key |-> k, asset |-> Nothing, expected |-> Nothing]}
             /\ \/ item' = [item EXCEPT ![i].pc = "finalize", ![i].key = k, ![i].url = TRUE]
                \/ item' = [item EXCEPT ![i].pc = "failed", ![i].key = k]
          \/ /\ UNCHANGED <<blobs, callback>>
             /\ item' = [item EXCEPT ![i].pc = "failed", ![i].key = k]
  /\ UNCHANGED <<asset, linked, request>>

\* finalizeUploadedAsset: the call may be lost on its way.
CallFinalize(i) ==
  /\ item[i].pc = "finalize"
  /\ Move(i, "calling")
  /\ \/ \E r \in Requests : request[r] = Idle /\ Ask(r, "finalize", Nothing, item[i].key, Nothing, i)
     \/ UNCHANGED request
  /\ UNCHANGED <<blobs, minted, asset, linked, callback>>

Waiting(r) == request[r].for \in Items

\* "missing": a first attempt fails; a retry uploads the file again, as a new item.
AfterMissing(it) ==
  IF it.again = 0 THEN [it EXCEPT !.pc = "failed"] ELSE NewItem(it.again)

AnsweredRead(r) ==
  LET i == request[r].for
      verdict == FinalizeVerdict(request[r].key)
  IN /\ Waiting(r)
     /\ FinalizeRead(r)
     /\ item' = CASE verdict = "missing" -> [item EXCEPT ![i] = AfterMissing(item[i])]
                  [] verdict = "found" -> [item EXCEPT ![i].pc = "ready"]
                  [] verdict = "absent" -> item

AnsweredInsert(r) ==
  Waiting(r) /\ FinalizeInsert(r) /\ Move(request[r].for, "ready")

\* An answer that is no reason to ask again (400 for any error of the handler)
AnsweredFailure(r) ==
  Waiting(r) /\ FinalizeFails(r) /\ Move(request[r].for, "failed")

\* Fault: the attempts are not counted.
GiveUpWaitingForever(i) ==
  /\ item[i].pc = "calling"
  /\ Move(i, "finalize")
  /\ Detach(i)
  /\ UNCHANGED <<blobs, minted, asset, linked, callback>>

\* A time-out, a network error or a 5xx: the request may still be at work.
GiveUpWaiting(i) ==
  /\ item[i].pc = "calling"
  /\ item' = IF item[i].attempt < FinalizeAttempts
               THEN [item EXCEPT ![i].pc = "finalize", ![i].attempt = @ + 1]
               ELSE [item EXCEPT ![i].pc = "lookup"]
  /\ Detach(i)
  /\ UNCHANGED <<blobs, minted, asset, linked, callback>>

\* waitForRegisteredAsset: a look-up has no time-out of its own,
LookUp(i) ==
  /\ item[i].pc = "lookup"
  /\ Move(i, "looking")
  /\ UNCHANGED <<libraryVars, callback>>

\* and its answer, if one comes, may be a failure or a refusal for good.
LookUpAnswered(i) ==
  /\ item[i].pc = "looking"
  /\ \/ RowsOf(item[i].key) # {} /\ Move(i, "ready")
     \/ Move(i, "failed")
     \/ item[i].looks < Lookups /\ item' = [item EXCEPT ![i].pc = "lookup", ![i].looks = @ + 1]
  /\ UNCHANGED <<libraryVars, callback>>

\* Fault: a retry always uploads the file again.
RetryAfresh(i) ==
  /\ item[i].pc = "failed"
  /\ item[i].again < Retries
  /\ item' = [item EXCEPT ![i] = NewItem(item[i].again + 1)]
  /\ UNCHANGED <<libraryVars, callback>>

\* handleRetryUploadItem: a file that is known to be stored is only registered again.
Retry(i) ==
  /\ item[i].pc = "failed"
  /\ item[i].again < Retries
  /\ item' = [item EXCEPT ![i] =
       IF item[i].url
         THEN [NewItem(item[i].again + 1) EXCEPT !.pc = "finalize", !.key = item[i].key, !.url = TRUE]
         ELSE NewItem(item[i].again + 1)]
  /\ UNCHANGED <<libraryVars, callback>>

\* handleReplaceAsset: the browser stores the new file; the row follows in the callback.
ClientReplace(a) ==
  /\ a \in Rows
  /\ \E k \in Keys :
       /\ Fresh(k)
       /\ minted' = minted \union {k}
       /\ blobs' = blobs \union {k}
       /\ callback' = callback \union {[key |-> k, asset |-> a, expected |-> asset[a].key]}
  /\ UNCHANGED <<asset, linked, request, item>>

\* replaceTenantAssetWithBlob up to its transaction
ReplaceAsked(r, c) ==
  /\ c.asset \in Rows
  /\ c.expected \in {Nothing, asset[c.asset].key}
  /\ Ask(r, "replace", c.asset, c.key, asset[c.asset].key, Nothing)

\* onUploadCompleted, once more or for the last time
Deliver(r, c) ==
  /\ request[r] = Idle
  /\ c \in callback
  /\ IF c.asset = Nothing
       THEN Ask(r, "finalize", Nothing, c.key, Nothing, Nothing)
       ELSE ReplaceAsked(r, c)
  /\ callback' \in {callback, callback \ {c}}
  /\ UNCHANGED <<blobs, minted, asset, linked, item>>

LoseCallback(c) ==
  /\ c \in callback
  /\ callback' = callback \ {c}
  /\ UNCHANGED <<libraryVars, item>>

ClientStep(i) ==
  \/ ClientUpload(i) \/ CallFinalize(i) \/ GiveUpWaiting(i) \/ LookUp(i)
  \/ LookUpAnswered(i) \/ Retry(i)

Answer(r) == (AnsweredRead(r) \/ AnsweredInsert(r) \/ AnsweredFailure(r)) /\ UNCHANGED callback

UploadNext ==
  \/ \E i \in Items : ClientStep(i)
  \/ \E r \in Requests :
       \/ Answer(r)
       \/ ~Waiting(r) /\ ServiceStep(r) /\ UNCHANGED <<item, callback>>
       \/ \E c \in callback : Deliver(r, c)
  \/ \E c \in callback : LoseCallback(c)
  \/ \E a \in AssetIds :
       \/ ClientReplace(a)
       \/ LinkAsset(a) /\ UNCHANGED <<item, callback>>

UploadInit ==
  /\ LibraryInit
  /\ item = [i \in Items |-> NewItem(0)]
  /\ callback = {}

\* The browser's own steps are promises and timers.  Nothing is assumed of the server: no
\* request need ever be answered, and what ends the wait for a look-up is its answer alone.
BrowserFairness ==
  \A i \in Items : WF_uploadVars(CallFinalize(i) \/ GiveUpWaiting(i) \/ LookUp(i))

UploadSpec == UploadInit /\ [][UploadNext]_uploadVars /\ BrowserFairness

-----------------------------------------------------------------------------
(* Properties *)

\* The rows, blobs, requests and uploads are what their modules say.
ContentTypeOK == LibraryTypeOK /\ UploadTypeOK

\* asset-service.test.ts:564 "retry of registration does not re-upload blob": a person
\* who retries an item whose url the browser has received uploads its file again only if
\* the stored file has gone.  Without the url, stored or not, the file is uploaded again.
RetryKeepsFile ==
  [][\A i \in Items : item[i].url /\ item'[i].key # item[i].key => item[i].key \notin blobs]_uploadVars

\* An upload that has begun ends, whatever becomes of its requests to finalize and of the
\* callback, unless it waits for ever for the answer of one look-up.
UploadsEnd ==
  \A i \in Items :
    []<>(item[i].pc # "looking") =>
      (item[i].pc \in {"finalize", "calling", "lookup", "looking"} ~> item[i].pc \in {"new", "ready", "failed"})
=============================================================================
