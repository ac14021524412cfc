---------------------------- MODULE StrategyDesk ----------------------------
(***************************************************************************)
(* Strategy generation and its settings (api/strategy and api/admin) and   *)
(* the decisions on campaigns (api/campaigns), for one tenant.  Every      *)
(* request reads rows, waits, and writes what it made of them; a model's   *)
(* provider is paid for a call whatever becomes of its answer.             *)
(***************************************************************************)
EXTENDS Naturals, FiniteSets

CONSTANTS
  Providers,     \* paid model providers
  ApiKeys,       \* their keys
  DeskRequests,  \* concurrent requests
  MaxCalls,      \* bound on the paid calls
  MaxEntries,    \* bound on the usage entries
  MaxListed      \* usage entries a report lists (take: 500)

ASSUME DeskAssumption ==
  /\ IsFiniteSet(DeskRequests)
  /\ MaxCalls \in Nat /\ MaxEntries \in Nat /\ MaxListed \in Nat \ {0}

VARIABLES
  settings,   \* Tenant.llmConfig and costConfig
  typed,      \* every setting as it was last asked for
  campaign,   \* status of a campaign
  projects,   \* Project rows of the tenant
  desk,       \* requests under way
  paid,       \* calls a provider has been paid for
  logged,     \* strategy_generated entries of the audit log, numbered as they came
  charged,    \* the entries that name a cost
  lost,       \* paid calls that came to no usable answer
  collided    \* two requests have been under way at once

deskVars == <<settings, typed, campaign, projects, desk, paid, logged, charged, lost, collided>>

NoKey == "none"
Masked == "masked"
Deterministic == "deterministic"
Limits == 0..MaxCalls

\* What maxSpendPerPeriodUsd admits is counted in calls.
Settings == [provider : Providers \union {Deterministic}, key : ApiKeys \union {NoKey},
             enabled : SUBSET Providers, limit : Limits]

NoRequest == [op |-> "none"]
Free(r) == desk[r] = NoRequest
Under(r, op) == desk[r].op = op

DeskTypeOK ==
  /\ settings \in Settings /\ typed \in Settings
  /\ campaign \in {"absent", "PROPOSED", "APPROVED", "REJECTED"}
  /\ projects \in 0..Cardinality(DeskRequests)
  /\ paid \in 0..MaxCalls /\ lost \in 0..MaxCalls
  /\ logged \in 0..MaxEntries /\ charged \in SUBSET (1..logged)
  /\ \A r \in DeskRequests :
       desk[r].op \in {"none", "save", "generate", "log", "decide", "strategy"}

Enter(r, request) ==
  /\ Free(r)
  /\ desk' = [desk EXCEPT ![r] = request]
  /\ collided' = (collided \/ \E q \in DeskRequests \ {r} : ~Free(q))
  /\ UNCHANGED <<settings, typed, campaign, projects, paid, logged, charged, lost>>
Leave(r) == desk' = [desk EXCEPT ![r] = NoRequest]

-----------------------------------------------------------------------------
(* Settings: PUT llm-config and PUT llm-governance *)

\* Fault: the masked key a form was filled with is taken for a key.
KeyFromFormUnmasked(existing, key) == IF key = Masked THEN NoKey ELSE key

\* The key a form sends back: masked means the one on file.
KeyFromForm(existing, key) == IF key = Masked THEN existing ELSE key

\* The document is read and spread under the fields of the form.
BeginSaveConfig(r) ==
  \E provider \in Providers \union {Deterministic}, key \in ApiKeys \union {Masked} :
    LET Change(document) == [document EXCEPT !.provider = provider, !.key = KeyFromForm(document.key, key)]
    IN  Enter(r, [op |-> "save", document |-> Change(settings),
                  asked |-> IF key = Masked THEN [provider |-> provider]
                            ELSE [provider |-> provider, key |-> key]])

BeginSaveGovernance(r) ==
  \E enabled \in SUBSET Providers, limit \in Limits :
    Enter(r, [op |-> "save", document |-> [settings EXCEPT !.enabled = enabled, !.limit = limit],
              asked |-> [enabled |-> enabled, limit |-> limit]])

Asked(document, fields) ==
  [f \in DOMAIN document |-> IF f \in DOMAIN fields THEN fields[f] ELSE document[f]]

\* The whole document is written.
Save(r) ==
  /\ Under(r, "save")
  /\ settings' = desk[r].document
  /\ typed' = Asked(typed, desk[r].asked)
  /\ Leave(r)
  /\ UNCHANGED <<campaign, projects, paid, logged, charged, lost, collided>>

-----------------------------------------------------------------------------
(* POST strategy/generate *)

\* A provider and key of the request take precedence over those of the tenant.
BeginGenerate(r) ==
  \E provider \in {settings.provider} \union Providers \union {Deterministic},
     key \in {settings.key} \union ApiKeys :
    Enter(r, [op |-> "generate", provider |-> provider, key |-> key])

\* generateStrategyWithLLM: what fails, even behind a paid call, becomes the
\* deterministic strategy and has no usage.
CallModel(r) ==
  LET cost(c) == desk' = [desk EXCEPT ![r] = [op |-> "log", cost |-> c]] IN
  /\ Under(r, "generate")
  /\ \/ UNCHANGED <<paid, lost>> /\ cost(FALSE)
     \/ /\ desk[r].provider # Deterministic /\ desk[r].key # NoKey /\ paid < MaxCalls
        /\ paid' = paid + 1
        /\ \/ lost' = lost + 1 /\ cost(FALSE)
           \/ UNCHANGED lost /\ cost(TRUE)
  /\ UNCHANGED <<settings, typed, campaign, projects, logged, charged, collided>>

\* Fault: a fallback is charged like the call it stands for.
ChargedAnyway(r) == charged \union {logged + 1}

\* Only an answer with usage has a cost.
Charged(r) == IF desk[r].cost THEN charged \union {logged + 1} ELSE charged

\* Every generation is entered, those that fell back to the deterministic strategy too.
LogGeneration(r) ==
  /\ Under(r, "log") /\ logged < MaxEntries
  /\ logged' = logged + 1
  /\ charged' = Charged(r)
  /\ Leave(r)
  /\ UNCHANGED <<settings, typed, campaign, projects, paid, lost, collided>>

-----------------------------------------------------------------------------
(* Campaigns and strategy/update *)

CampaignProposed ==
  /\ campaign = "absent"
  /\ campaign' = "PROPOSED"
  /\ UNCHANGED <<settings, typed, projects, desk, paid, logged, charged, lost, collided>>

\* A rejection is taken at any time, an approval of what is proposed.
Decidable(status, verdict) == status # "absent" /\ (verdict = "APPROVED" => status = "PROPOSED")

BeginDecide(r) ==
  \E verdict \in {"APPROVED", "REJECTED"} :
    /\ Decidable(campaign, verdict)
    /\ Enter(r, [op |-> "decide", verdict |-> verdict])

Decide(r) ==
  /\ Under(r, "decide")
  /\ campaign' = desk[r].verdict
  /\ Leave(r)
  /\ UNCHANGED <<settings, typed, projects, paid, logged, charged, lost, collided>>

\* The project is looked up, then updated or created.
BeginUpdateStrategy(r) == Enter(r, [op |-> "strategy", found |-> projects > 0])

UpdateStrategy(r) ==
  /\ Under(r, "strategy")
  /\ projects' = IF desk[r].found THEN projects ELSE projects + 1
  /\ Leave(r)
  /\ UNCHANGED <<settings, typed, campaign, paid, logged, charged, lost, collided>>

\* A request is cut off; a paid call whose entry was not written is lost.
CutOffRequest(r) ==
  /\ ~Free(r)
  /\ lost' = IF Under(r, "log") /\ desk[r].cost THEN lost + 1 ELSE lost
  /\ Leave(r)
  /\ UNCHANGED <<settings, typed, campaign, projects, paid, logged, charged, collided>>

DeskInit ==
  /\ settings = [provider |-> Deterministic, key |-> NoKey, enabled |-> Providers, limit |-> MaxCalls]
  /\ typed = settings
  /\ campaign = "absent"
  /\ projects = 0
  /\ desk = [r \in DeskRequests |-> NoRequest]
  /\ paid = 0 /\ lost = 0 /\ logged = 0 /\ charged = {}
  /\ collided = FALSE

DeskNext ==
  \/ CampaignProposed
  \/ \E r \in DeskRequests :
       \/ BeginSaveConfig(r) \/ BeginSaveGovernance(r) \/ Save(r)
       \/ BeginGenerate(r) \/ CallModel(r) \/ LogGeneration(r)
       \/ BeginDecide(r) \/ Decide(r) \/ BeginUpdateStrategy(r) \/ UpdateStrategy(r)
       \/ CutOffRequest(r)

DeskSpec == DeskInit /\ [][DeskNext]_deskVars

-----------------------------------------------------------------------------
(* Properties *)

\* GET llm-usage: the newest entries, whatever they are, and how many of them have a cost
Listed == {i \in 1..logged : i + MaxListed > logged}
ChargesReported == Cardinality(Listed \intersect charged)

\* Requests whose paid call is about to be entered
Open == {r \in DeskRequests : Under(r, "log") /\ desk[r].cost}

\* llm-usage/route.ts 46-108, whatever requests overlap or are cut off: a call is charged
\* once, and only if it was paid for and has been answered; and all of these calls are in
\* the report until there are more entries, fallbacks included, than it lists.
UsageIsReported ==
  LET answered == paid - lost - Cardinality(Open)
  IN  /\ Cardinality(charged) = answered
      /\ ChargesReported <= answered
      /\ logged <= MaxListed => ChargesReported = answered

\* One request after the other: every setting is the one last asked for (a masked key
\* does not replace the key), and the tenant has one project.
SettingsAreKept == ~collided => settings = typed /\ projects <= 1
=============================================================================
