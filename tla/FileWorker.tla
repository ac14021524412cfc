------------------------------ MODULE FileWorker ------------------------------
(***************************************************************************)
(* The file worker (apps/worker): it loads the publication queue, sends    *)
(* the entries of a date one after the other and saves the whole queue     *)
(* once, behind the last of them.  Runs may overlap and may be cut off.    *)
(***************************************************************************)
EXTENDS Naturals, FiniteSets

CONSTANTS
  Entries,   \* entries of publication-queue.json
  Dates,     \* dates they may be scheduled for
  DateOf,    \* scheduledFor of every entry
  WorkerRuns,\* processes of the worker
  MaxPosts   \* bound on the posts counted of one entry

ASSUME FileWorkerAssumption == DateOf \in [Entries -> Dates] /\ MaxPosts \in Nat \ {0, 1}

VARIABLES
  queueFile,  \* status of every entry on file; Torn after a torn write
  workerRun,  \* worker processes
  sent,       \* how often the network has received every entry
  hindered    \* what has happened that may repeat a post

fileWorkerVars == <<queueFile, workerRun, sent, hindered>>

EntryStatuses == {"waiting", "ready", "failed"}
Torn == [e \in Entries |-> "unreadable"]

\* dates: those still to be done.  copy: the queue as loaded.  todo: entries of the
\* current date not yet looked at.
NoRun == [live |-> FALSE, dates |-> {}, copy |-> Torn, todo |-> {}]
Loaded(w) == workerRun[w].copy # Torn

FileWorkerTypeOK ==
  /\ queueFile = Torn \/ queueFile \in [Entries -> EntryStatuses]
  /\ \A w \in WorkerRuns :
       /\ workerRun[w].dates \subseteq Dates /\ workerRun[w].todo \subseteq Entries
       /\ workerRun[w].copy = Torn \/ workerRun[w].copy \in [Entries -> EntryStatuses]
  /\ sent \in [Entries -> 0..MaxPosts]

\* runScheduled with one date, runDateRange and runFullQueue with several; live is
\* neither dryRun nor mode "draft".
StartWorker(w) ==
  /\ workerRun[w] = NoRun
  /\ \E dates \in SUBSET Dates \ {{}}, live \in BOOLEAN :
       workerRun' = [workerRun EXCEPT ![w] = [NoRun EXCEPT !.dates = dates, !.live = live]]
  /\ hindered' = IF \A v \in WorkerRuns \ {w} : workerRun[v] = NoRun THEN hindered
                 ELSE hindered \union {"overlap"}
  /\ UNCHANGED <<queueFile, sent>>

\* loadQueue: a queue that cannot be read ends the run.
LoadQueue(w) ==
  /\ workerRun[w].dates # {} /\ ~Loaded(w)
  /\ IF queueFile = Torn
       THEN workerRun' = [workerRun EXCEPT ![w] = NoRun]
       ELSE \E d \in workerRun[w].dates :
              workerRun' = [workerRun EXCEPT ![w].copy = queueFile,
                                             ![w].dates = @ \ {d},
                                             ![w].todo = {e \in Entries : DateOf[e] = d}]
  /\ UNCHANGED <<queueFile, sent, hindered>>

\* Fault: an entry is not skipped when it is ready.
ToBePublishedAgain(w, e) == workerRun[w].copy[e] \in EntryStatuses

\* The status "published" is only ever set by hand.
ToBePublished(w, e) == workerRun[w].copy[e] # "ready"

\* publishEntry: a dry run sends nothing and succeeds; a call may fail although the
\* network has taken the post.
PublishEntry(w) ==
  \E e \in workerRun[w].todo :
    \E result \in {"ready", "failed"}, reaches \in BOOLEAN :
      /\ Loaded(w) /\ ToBePublished(w, e)
      /\ reaches => workerRun[w].live
      /\ result = "ready" /\ workerRun[w].live => reaches
      /\ workerRun' = [workerRun EXCEPT ![w].copy[e] = result, ![w].todo = @ \ {e}]
      /\ sent[e] < MaxPosts
      /\ sent' = IF reaches THEN [sent EXCEPT ![e] = @ + 1] ELSE sent
      /\ hindered' = IF reaches /\ result = "failed" THEN hindered \union {"unclear"} ELSE hindered
      /\ UNCHANGED queueFile

SkipEntry(w) ==
  \E e \in workerRun[w].todo :
    /\ Loaded(w) /\ ~ToBePublished(w, e)
    /\ workerRun' = [workerRun EXCEPT ![w].todo = @ \ {e}]
    /\ UNCHANGED <<queueFile, sent, hindered>>

\* saveQueue writes every entry as this run knows it; then the next date is loaded afresh.
SaveQueue(w) ==
  /\ Loaded(w) /\ workerRun[w].todo = {}
  /\ queueFile' = workerRun[w].copy
  /\ workerRun' = [workerRun EXCEPT ![w] =
       IF workerRun[w].dates = {} THEN NoRun ELSE [workerRun[w] EXCEPT !.copy = Torn]]
  /\ UNCHANGED <<sent, hindered>>

\* A run is cut off, perhaps while it writes.
CutOffWorker(w) ==
  /\ workerRun[w] # NoRun
  /\ \/ UNCHANGED queueFile
     \/ Loaded(w) /\ workerRun[w].todo = {} /\ queueFile' = Torn
  /\ workerRun' = [workerRun EXCEPT ![w] = NoRun]
  /\ hindered' = hindered \union {"cut_off"}
  /\ UNCHANGED sent

FileWorkerInit ==
  /\ queueFile = [e \in Entries |-> "waiting"]
  /\ workerRun = [w \in WorkerRuns |-> NoRun]
  /\ sent = [e \in Entries |-> 0]
  /\ hindered = {}

FileWorkerNext ==
  \E w \in WorkerRuns :
    StartWorker(w) \/ LoadQueue(w) \/ PublishEntry(w) \/ SkipEntry(w) \/ SaveQueue(w) \/ CutOffWorker(w)

FileWorkerSpec == FileWorkerInit /\ [][FileWorkerNext]_fileWorkerVars

-----------------------------------------------------------------------------
\* An entry reaches its network once, however many dates, dry runs and retries there
\* are, unless runs overlapped, one was cut off or a network's answer was lost.
RepeatsNeedHindrance == \A e \in Entries : sent[e] > 1 => hindered # {}
=============================================================================
