---------------------------- MODULE EmailDelivery ----------------------------
(***************************************************************************)
(* Transactional mail: createAndSendEmail and the webhook that receives    *)
(* the provider's reports.  A delivery row is unique per idempotency key;  *)
(* callers with the same key, and handlers of different reports, work on   *)
(* it at the same time.  The provider honours the idempotency key the      *)
(* adapter passes for a while: until it forgets the key, a repeated call   *)
(* gives the message it already has.                                       *)
(***************************************************************************)
EXTENDS Naturals, FiniteSets

CONSTANTS
  Keys,      \* idempotency keys, one per mail
  Callers,   \* calls of createAndSendEmail
  Handlers,  \* webhook requests being served
  Events     \* svix ids of the provider's reports

ReportTypes == {"SENT", "DELIVERED", "DELAYED", "FAILED", "BOUNCED", "COMPLAINED"}
TerminalStatuses == {"DELIVERED", "BOUNCED", "COMPLAINED"}
DeliveryStatuses == ReportTypes \union {"NONE", "PENDING", "DISABLED"}

VARIABLES
  provider,  \* EMAIL_PROVIDER of the deployment: "disabled" or "resend"
  delivery,  \* EmailDelivery of each key: status, and the mail whose message id is stored
  caller,    \* [pc, key, mail] of each call: the mail it was told of
  message,   \* external: the mails sent for each key, and whether the key is remembered
  report,    \* external: the report behind each svix id, [key, mail, type]
  seen,      \* EmailWebhookEvent rows
  handler,   \* [pc, event, status]: the report served and the status it read
  applied,   \* history: how often each report was written to a delivery
  disturbed  \* history: keys of calls that overlapped, or stopped before their record

mailVars == <<provider, delivery, caller, message, report, seen, handler, applied, disturbed>>

NoReport == [key |-> "none", mail |-> 0, type |-> "NONE"]
IdleHandler == [pc |-> "idle", event |-> "none", status |-> "NONE"]

MailTypeOK ==
  /\ provider \in {"disabled", "resend"}
  /\ delivery \in [Keys -> [status : DeliveryStatuses, stored : Nat]]
  /\ caller \in [Callers -> [pc : {"new", "disable", "send", "sent", "rejected", "done"},
                             key : Keys, mail : Nat]]
  /\ message \in [Keys -> [known : BOOLEAN, mails : Nat]]
  /\ report \in [Events -> [key : Keys, mail : Nat, type : ReportTypes] \union {NoReport}]
  /\ seen \subseteq Events
  /\ handler \in [Handlers -> [pc : {"idle", "read"}, event : Events \union {"none"},
                               status : DeliveryStatuses]]
  /\ applied \in [Events -> Nat]
  /\ disturbed \subseteq Keys

-----------------------------------------------------------------------------
(* createAndSendEmail *)

Go(c, pc) == caller' = [caller EXCEPT ![c].pc = pc]
External == <<message, report, seen, handler, applied>>
Working(k) == {c \in Callers : caller[c].key = k /\ caller[c].pc \in {"send", "sent", "rejected"}}

\* Fault: a mail that was recorded as failed is sent again.
UnsentOrFailed(status) == status \in {"PENDING", "FAILED"}

Unsent(status) == status = "PENDING"

\* The row is created, or the one with the same key is read.  One that is not PENDING
\* ends the call.  With the provider disabled a new row is DISABLED at once, a PENDING
\* one by a later update.
CreateRow(c) ==
  LET k == caller[c].key
      found == delivery[k].status
  IN /\ caller[c].pc = "new"
     /\ delivery' = [delivery EXCEPT ![k].status =
                       IF found # "NONE" THEN found
                       ELSE IF provider = "disabled" THEN "DISABLED" ELSE "PENDING"]
     /\ Go(c, IF ~Unsent(delivery'[k].status) THEN "done"
              ELSE IF provider = "disabled" THEN "disable" ELSE "send")
     /\ disturbed' = IF Working(k) = {} THEN disturbed ELSE disturbed \union {k}
     /\ UNCHANGED <<provider, External>>

DisableRow(c) ==
  /\ caller[c].pc = "disable"
  /\ delivery' = [delivery EXCEPT ![caller[c].key].status = "DISABLED"]
  /\ Go(c, "done")
  /\ UNCHANGED <<provider, disturbed, External>>

\* External: a key the provider remembers gives the mail it has, any other a new one.
Accept(k) == message' = [message EXCEPT ![k] =
               [known |-> TRUE, mails |-> IF @.known THEN @.mails ELSE @.mails + 1]]

\* provider.send: the answer may be lost after the message was accepted, which the
\* adapter turns into a rejection.
SendCall(c) ==
  LET k == caller[c].key IN
  /\ caller[c].pc = "send"
  /\ \/ /\ Accept(k)
        /\ \/ caller' = [caller EXCEPT ![c].pc = "sent", ![c].mail = message'[k].mails]
           \/ Go(c, "rejected")
     \/ Go(c, "rejected") /\ UNCHANGED message
  /\ UNCHANGED <<provider, delivery, report, seen, handler, applied, disturbed>>

RecordSent(c) ==
  /\ caller[c].pc = "sent"
  /\ delivery' = [delivery EXCEPT ![caller[c].key] = [status |-> "SENT", stored |-> caller[c].mail]]
  /\ Go(c, "done")
  /\ UNCHANGED <<provider, disturbed, External>>

\* A rejection, or an update to SENT that failed, is recorded as FAILED.
RecordFailed(c) ==
  /\ caller[c].pc \in {"sent", "rejected"}
  /\ delivery' = [delivery EXCEPT ![caller[c].key].status = "FAILED"]
  /\ Go(c, "done")
  /\ UNCHANGED <<provider, disturbed, External>>

\* The process stops, or the update fails and so does the one in the catch block.
Abandon(c) ==
  /\ caller[c].pc \in {"disable", "send", "sent", "rejected"}
  /\ disturbed' = IF caller[c].pc \in {"sent", "rejected"} THEN disturbed \union {caller[c].key}
                   ELSE disturbed
  /\ Go(c, "done")
  /\ UNCHANGED <<provider, delivery, External>>

Redeploy ==
  /\ provider' \in {"disabled", "resend"} \ {provider}
  /\ UNCHANGED <<delivery, caller, disturbed, External>>

-----------------------------------------------------------------------------
(* The provider's reports and the webhook *)

Emit(e, k, type) ==
  /\ report[e] = NoReport
  /\ \E mail \in 1..message[k].mails :
       report' = [report EXCEPT ![e] = [key |-> k, mail |-> mail, type |-> type]]
  /\ UNCHANGED <<provider, delivery, caller, message, seen, handler, applied, disturbed>>

\* External: the time for which the provider remembers a key passes.
Forget(k) ==
  /\ message[k].known
  /\ message' = [message EXCEPT ![k].known = FALSE]
  /\ UNCHANGED <<provider, delivery, caller, report, seen, handler, applied, disturbed>>

\* Fault: the report is not looked up before it is applied.
UnservedUnchecked(e) == \A h \in Handlers : handler[h].event # e

\* The transaction inserts the report; a second delivery of it waits for the first on
\* the unique key and then returns.  A report whose message no row has is kept and
\* acknowledged, with no further effect.  The status is read here.
Unserved(e) == e \notin seen /\ \A h \in Handlers : handler[h].event # e

WebhookRead(h, e) ==
  LET k == report[e].key IN
  /\ handler[h].pc = "idle"
  /\ report[e] # NoReport
  /\ Unserved(e)
  /\ IF delivery[k].stored = report[e].mail
       THEN /\ handler' = [handler EXCEPT ![h] =
                             [pc |-> "read", event |-> e, status |-> delivery[k].status]]
            /\ UNCHANGED seen
       ELSE /\ seen' = seen \union {e}
            /\ UNCHANGED handler
  /\ UNCHANGED <<provider, delivery, caller, message, report, applied, disturbed>>

Degrades(status, type) == status \in TerminalStatuses /\ status # type

\* The status goes to the row whatever it is by now; the transaction commits both.
WebhookWrite(h) ==
  LET e == handler[h].event
      k == report[e].key
      type == report[e].type
  IN /\ handler[h].pc = "read"
     /\ IF Degrades(handler[h].status, type) THEN UNCHANGED <<delivery, applied>>
        ELSE /\ delivery' = [delivery EXCEPT ![k].status = type]
             /\ applied' = [applied EXCEPT ![e] = @ + 1]
     /\ seen' = seen \union {e}
     /\ handler' = [handler EXCEPT ![h] = IdleHandler]
     /\ UNCHANGED <<provider, caller, message, report, disturbed>>

\* The transaction fails; the provider delivers the report again.
WebhookAbort(h) ==
  /\ handler[h].pc = "read"
  /\ handler' = [handler EXCEPT ![h] = IdleHandler]
  /\ UNCHANGED <<provider, delivery, caller, message, report, seen, applied, disturbed>>

MailNext ==
  \/ \E c \in Callers : \/ CreateRow(c) \/ DisableRow(c) \/ SendCall(c) 
                        \/ RecordSent(c) \/ RecordFailed(c) \/ Abandon(c)
  \/ \E h \in Handlers : \/ \E e \in Events : WebhookRead(h, e)
                         \/ WebhookWrite(h) \/ WebhookAbort(h)
  \/ \E k \in Keys : \/ \E e \in Events, type \in ReportTypes : Emit(e, k, type)
                     \/ Forget(k)
  \/ Redeploy

MailInit ==
  /\ provider \in {"disabled", "resend"}
  /\ delivery = [k \in Keys |-> [status |-> "NONE", stored |-> 0]]
  /\ caller \in [Callers -> [pc : {"new"}, key : Keys, mail : {0}]]
  /\ message = [k \in Keys |-> [known |-> FALSE, mails |-> 0]]
  /\ report = [e \in Events |-> NoReport]
  /\ seen = {}
  /\ handler = [h \in Handlers |-> IdleHandler]
  /\ applied = [e \in Events |-> 0]
  /\ disturbed = {}

MailSpec == MailInit /\ [][MailNext]_mailVars

-----------------------------------------------------------------------------
(* Properties *)

\* email-delivery-service.ts:64 "Idempotent return": a person gets a mail a second time
\* only if two calls with its key overlapped, or one stopped between the provider's
\* answer and its record; no key memory of the provider is needed for that, and a mail
\* recorded as sent, failed or disabled is not sent by any later call.
SecondMailNeedsOverlap == \A k \in Keys : message[k].mails > 1 => k \in disturbed

\* webhooks/resend: a report is written to its delivery at most once, however often
\* the provider delivers it and whichever of its transactions fail.
EventAppliedOnce == \A e \in Events : applied[e] <= 1

\* webhooks/resend: a delivery says DELIVERED, DELAYED, BOUNCED or COMPLAINED only if
\* a report of the provider about a mail of its key said so, and that report is on file.
ReportedStatusIsOnFile ==
  \A k \in Keys : delivery[k].status \in TerminalStatuses \union {"DELAYED"} =>
    \E e \in seen : report[e].key = k /\ report[e].type = delivery[k].status

\* A status of the provider is on file before it shows, and counts once.
ReportsAreFaithful == EventAppliedOnce /\ ReportedStatusIsOnFile
=============================================================================
