------------------------- MODULE StrategyDeskProofs -------------------------
(***************************************************************************)
(* Proofs about StrategyDesk.tla, for any number of requests, providers    *)
(* and keys: the usage report and the settings of a tenant.               *)
(***************************************************************************)
EXTENDS StrategyDesk, FiniteSetTheorems, TLAPS

Names == Providers \union {Deterministic}
Keys == ApiKeys \union {NoKey}
AskedFields == [provider : Names] \union [provider : Names, key : Keys]
                 \union [enabled : SUBSET Providers, limit : Limits]
Saving == [op : {"save"}, document : Settings, asked : AskedFields]
Generating == [op : {"generate"}, provider : Names, key : Keys]
Logging == [op : {"log"}, cost : BOOLEAN]
Deciding == [op : {"decide"}, verdict : {"APPROVED", "REJECTED"}]
Updating == [op : {"strategy"}, found : BOOLEAN]
DeskRow == {NoRequest} \union Saving \union Generating \union Logging \union Deciding \union Updating

RowsOK ==
  /\ settings \in Settings /\ typed \in Settings
  /\ collided \in BOOLEAN
  /\ projects \in Nat /\ paid \in Nat /\ lost \in Nat
  /\ logged \in Nat /\ charged \in SUBSET (1..logged)
  /\ desk \in [DeskRequests -> DeskRow]

\* A paid call is charged, lost, or about to be charged.
Balance == paid = Cardinality(charged) + lost + Cardinality(Open)

\* Before two requests have met, at most one is under way, and what it read still holds.
Alone == \A q, r \in DeskRequests : Free(q) \/ Free(r) \/ q = r
Current(d) ==
  /\ d.op = "save" => d.document = Asked(typed, d.asked)
  /\ d.op = "strategy" => (d.found <=> projects > 0)
Calm ==
  /\ Alone
  /\ settings = typed /\ projects <= 1
  /\ \A r \in DeskRequests : Current(desk[r])

DInv == RowsOK /\ Balance /\ (~collided => Calm)

-----------------------------------------------------------------------------
(* Helpers *)

LEMMA Rows ==
  /\ \A d \in DeskRow : /\ d.op = "save" => d \in Saving
                        /\ d.op = "generate" => d \in Generating
                        /\ d.op = "log" => d \in Logging
                        /\ d.op = "decide" => d \in Deciding
                        /\ d.op = "strategy" => d \in Updating
                        /\ d.op = "none" => d = NoRequest
  /\ NoRequest.op = "none"
<1>1. NoRequest.op = "none"
  BY DEF NoRequest
<1> SUFFICES ASSUME NEW d \in DeskRow
    PROVE  /\ d.op = "save" => d \in Saving
           /\ d.op = "generate" => d \in Generating
           /\ d.op = "log" => d \in Logging
           /\ d.op = "decide" => d \in Deciding
           /\ d.op = "strategy" => d \in Updating
           /\ d.op = "none" => d = NoRequest
  BY <1>1
<1>2. /\ d \in Saving => d.op = "save"
      /\ d \in Generating => d.op = "generate"
      /\ d \in Logging => d.op = "log"
      /\ d \in Deciding => d.op = "decide"
      /\ d \in Updating => d.op = "strategy"
  BY DEF Saving, Generating, Logging, Deciding, Updating
<1> QED BY <1>1, <1>2 DEF DeskRow

\* A document stays a document when some of its fields are replaced.
LEMMA AskedIsSettings ==
  ASSUME NEW document \in Settings, NEW fields \in AskedFields
  PROVE  Asked(document, fields) \in Settings
<1>1. DOMAIN document = {"provider", "key", "enabled", "limit"}
  BY DEF Settings
<1>2. CASE fields \in [provider : Names]
  <2>1. DOMAIN fields = {"provider"} /\ fields.provider \in Names
    BY <1>2
  <2>2. Asked(document, fields) =
          [provider |-> fields.provider, key |-> document.key,
           enabled |-> document.enabled, limit |-> document.limit]
    BY <1>1, <2>1 DEF Asked, Settings
  <2> QED BY <2>1, <2>2 DEF Settings, Names
<1>3. CASE fields \in [provider : Names, key : Keys]
  <2>1. DOMAIN fields = {"provider", "key"} /\ fields.provider \in Names /\ fields.key \in Keys
    BY <1>3
  <2>2. Asked(document, fields) =
          [provider |-> fields.provider, key |-> fields.key,
           enabled |-> document.enabled, limit |-> document.limit]
    BY <1>1, <2>1 DEF Asked, Settings
  <2> QED BY <2>1, <2>2 DEF Settings, Names, Keys
<1>4. CASE fields \in [enabled : SUBSET Providers, limit : Limits]
  <2>1. DOMAIN fields = {"enabled", "limit"} /\ fields.enabled \in SUBSET Providers /\ fields.limit \in Limits
    BY <1>4
  <2>2. Asked(document, fields) =
          [provider |-> document.provider, key |-> document.key,
           enabled |-> fields.enabled, limit |-> fields.limit]
    BY <1>1, <2>1 DEF Asked, Settings
  <2> QED BY <2>1, <2>2 DEF Settings
<1> QED BY <1>2, <1>3, <1>4 DEF AskedFields

\* Who is open after a request has changed
LEMMA OpenAfter ==
  ASSUME DeskAssumption, RowsOK, NEW r \in DeskRequests, NEW d,
         desk' = [desk EXCEPT ![r] = d]
  PROVE  /\ IsFiniteSet(Open) /\ Cardinality(Open) \in Nat
         /\ IF d.op = "log" /\ d.cost
            THEN Cardinality(Open') = IF r \in Open THEN Cardinality(Open) ELSE Cardinality(Open) + 1
            ELSE Cardinality(Open') = IF r \in Open THEN Cardinality(Open) - 1 ELSE Cardinality(Open)
<1>1. IsFiniteSet(Open) /\ Cardinality(Open) \in Nat
  BY FS_Subset, FS_CardinalityType DEF Open, DeskAssumption
<1>2. CASE d.op = "log" /\ d.cost
  <2>1. Open' = Open \union {r}
    BY <1>2 DEF Open, Under, RowsOK
  <2> QED BY <1>1, <1>2, <2>1, FS_AddElement
<1>3. CASE ~(d.op = "log" /\ d.cost)
  <2>1. Open' = Open \ {r}
    BY <1>3 DEF Open, Under, RowsOK
  <2> QED BY <1>1, <1>3, <2>1, FS_RemoveElement
<1> QED BY <1>1, <1>2, <1>3

-----------------------------------------------------------------------------
(* Each step preserves the invariant *)

LEMMA EnterInv ==
  ASSUME DeskAssumption, DInv, NEW r \in DeskRequests, NEW d \in DeskRow, Enter(r, d),
         d.op # "log", Calm => Current(d)
  PROVE  DInv'
<1>1. /\ desk[r] = NoRequest /\ desk' = [desk EXCEPT ![r] = d]
      /\ collided' = (collided \/ \E q \in DeskRequests \ {r} : ~Free(q))
      /\ settings' = settings /\ typed' = typed /\ campaign' = campaign /\ projects' = projects
      /\ paid' = paid /\ logged' = logged /\ charged' = charged /\ lost' = lost
  BY DEF Enter, Free
<1>2. RowsOK'
  BY <1>1 DEF DInv, RowsOK
<1>3. Balance'
  <2>1. r \notin Open
    BY <1>1, Rows DEF Open, Under
  <2> QED BY <1>1, <2>1, OpenAfter DEF DInv, RowsOK, Balance
<1>4. ASSUME ~collided' PROVE Calm'
  <2>1. ~collided /\ \A q \in DeskRequests : q # r => desk[q] = NoRequest
    BY <1>1, <1>4 DEF Free
  <2>2. Calm
    BY <2>1 DEF DInv
  <2>3. \A q \in DeskRequests : desk'[q] = IF q = r THEN d ELSE NoRequest
    BY <1>1, <2>1 DEF DInv, RowsOK
  <2>4. Alone'
    BY <2>3 DEF Alone, Free
  <2>5. Current(d)' /\ Current(NoRequest)'
    BY <1>1, <2>2, Rows DEF Current
  <2>6. \A q \in DeskRequests : Current(desk[q])'
    BY <2>3, <2>5 DEF Current
  <2> QED BY <1>1, <2>2, <2>4, <2>6 DEF Calm
<1> QED BY <1>2, <1>3, <1>4 DEF DInv

\* When a request leaves in calm, nobody is under way.
LEMMA LeaveCalm ==
  ASSUME DInv, NEW r \in DeskRequests, ~Free(r), Leave(r), ~collided,
         settings' = typed', projects' <= 1
  PROVE  Calm'
<1>1. \A q \in DeskRequests : q # r => desk[q] = NoRequest
  BY DEF DInv, Calm, Alone, Free
<1>2. \A q \in DeskRequests : desk'[q] = NoRequest
  BY <1>1 DEF Leave, DInv, RowsOK
<1>3. Alone' /\ \A q \in DeskRequests : Current(desk[q])'
  BY <1>2, Rows DEF Alone, Free, Current
<1> QED BY <1>3 DEF Calm

LEMMA ChargedFacts ==
  ASSUME RowsOK
  PROVE  /\ IsFiniteSet(charged) /\ Cardinality(charged) \in Nat
         /\ Cardinality(charged \union {logged + 1}) = Cardinality(charged) + 1
<1>1. IsFiniteSet(1..logged)
  BY FS_Interval DEF RowsOK
<1>2. IsFiniteSet(charged)
  BY <1>1, FS_Subset DEF RowsOK
<1>3. logged + 1 \notin charged
  BY DEF RowsOK
<1> QED BY <1>2, <1>3, FS_AddElement, FS_CardinalityType

LEMMA LeaveInv ==
  ASSUME DeskAssumption, DInv, NEW r \in DeskRequests, ~Free(r), Leave(r),
         settings' \in Settings, typed' \in Settings, projects' \in Nat, collided' = collided,
         ~collided => settings' = typed' /\ projects' <= 1,
         paid' = paid,
         logged' \in {logged, logged + 1},
         \/ r \notin Open /\ charged' = charged /\ lost' = lost
         \/ r \in Open /\ logged' = logged + 1 /\ charged' = charged \union {logged'} /\ lost' = lost
         \/ r \in Open /\ charged' = charged /\ lost' = lost + 1
  PROVE  DInv'
<1>1. desk' = [desk EXCEPT ![r] = NoRequest]
  BY DEF Leave
<1>2. RowsOK'
  <2>1. desk' \in [DeskRequests -> DeskRow]
    BY <1>1 DEF DInv, RowsOK, DeskRow
  <2>2. logged' \in Nat /\ charged' \in SUBSET (1..logged')
    <3>1. logged \in Nat /\ charged \in SUBSET (1..logged) /\ logged' \in Nat
      BY DEF DInv, RowsOK
    <3>2. charged' = charged \/ (logged' = logged + 1 /\ charged' = charged \union {logged'})
      OBVIOUS
    <3>3. 1..logged \subseteq 1..logged'
      BY <3>1
    <3>4. logged' = logged + 1 => logged' \in 1..logged'
      BY <3>1
    <3> QED BY <3>1, <3>2, <3>3, <3>4
  <2>3. paid' \in Nat /\ lost' \in Nat /\ collided' \in BOOLEAN
    BY DEF DInv, RowsOK
  <2> QED BY <2>1, <2>2, <2>3 DEF RowsOK
<1>3. Balance'
  <2>1. Cardinality(Open) \in Nat
        /\ Cardinality(Open') = IF r \in Open THEN Cardinality(Open) - 1 ELSE Cardinality(Open)
    BY <1>1, Rows, OpenAfter DEF DInv
  <2>2. /\ Cardinality(charged) \in Nat
        /\ logged' = logged + 1 /\ charged' = charged \union {logged'} =>
             Cardinality(charged') = Cardinality(charged) + 1
    BY ChargedFacts DEF DInv
  <2>3. CASE r \notin Open
    BY <2>1, <2>2, <2>3 DEF DInv, RowsOK, Balance
  <2>4. CASE r \in Open /\ charged' = charged /\ lost' = lost + 1
    BY <2>1, <2>2, <2>4 DEF DInv, RowsOK, Balance
  <2>5. CASE r \in Open /\ logged' = logged + 1 /\ charged' = charged \union {logged'} /\ lost' = lost
    BY <2>1, <2>2, <2>5 DEF DInv, RowsOK, Balance
  <2> QED BY <2>3, <2>4, <2>5
<1>4. ~collided' => Calm'
  BY LeaveCalm
<1> QED BY <1>2, <1>3, <1>4 DEF DInv

LEMMA BeginSaveInv ==
  ASSUME DeskAssumption, DInv, NEW r \in DeskRequests,
         BeginSaveConfig(r) \/ BeginSaveGovernance(r)
  PROVE  DInv'
<1>0. settings \in Settings /\ DOMAIN settings = {"provider", "key", "enabled", "limit"}
  BY DEF DInv, RowsOK, Settings
<1>1. CASE BeginSaveConfig(r)
  <2>1. PICK provider \in Names, key \in ApiKeys \union {Masked} :
          LET Change(document) == [document EXCEPT !.provider = provider, !.key = KeyFromForm(document.key, key)]
          IN  Enter(r, [op |-> "save", document |-> Change(settings),
                        asked |-> IF key = Masked THEN [provider |-> provider]
                                  ELSE [provider |-> provider, key |-> key]])
    BY <1>1 DEF BeginSaveConfig, Names
  <2> DEFINE fields == IF key = Masked THEN [provider |-> provider] ELSE [provider |-> provider, key |-> key]
             doc == [settings EXCEPT !.provider = provider, !.key = KeyFromForm(settings.key, key)]
             d == [op |-> "save", document |-> doc, asked |-> fields]
  <2>2. Enter(r, d)
    BY <2>1
  <2>3. fields \in AskedFields
    BY DEF AskedFields, Keys
  <2>4. doc = Asked(settings, fields)
    <3>1. CASE key = Masked
      <4>1. doc = [settings EXCEPT !.provider = provider]
        BY <1>0, <3>1 DEF KeyFromForm, Settings
      <4>2. DOMAIN fields = {"provider"} /\ fields.provider = provider
        BY <3>1
      <4> QED BY <1>0, <4>1, <4>2 DEF Asked, Settings
    <3>2. CASE key # Masked
      <4>1. DOMAIN fields = {"provider", "key"} /\ fields.provider = provider /\ fields.key = key
        BY <3>2
      <4> QED BY <1>0, <3>2, <4>1 DEF Asked, Settings, KeyFromForm
    <3> QED BY <3>1, <3>2
  <2>5. doc \in Settings
    BY <1>0, <2>3, <2>4, AskedIsSettings
  <2> HIDE DEF fields, doc
  <2>6. d \in DeskRow /\ d.op = "save"
    BY <2>3, <2>5 DEF DeskRow, Saving
  <2>7. Calm => Current(d)
    BY <2>4 DEF Calm, Current
  <2> QED BY <2>2, <2>6, <2>7, EnterInv
<1>2. CASE BeginSaveGovernance(r)
  <2>1. PICK enabled \in SUBSET Providers, limit \in Limits :
          Enter(r, [op |-> "save", document |-> [settings EXCEPT !.enabled = enabled, !.limit = limit],
                    asked |-> [enabled |-> enabled, limit |-> limit]])
    BY <1>2 DEF BeginSaveGovernance
  <2> DEFINE fields == [enabled |-> enabled, limit |-> limit]
             doc == [settings EXCEPT !.enabled = enabled, !.limit = limit]
             d == [op |-> "save", document |-> doc, asked |-> fields]
  <2>2. fields \in AskedFields /\ DOMAIN fields = {"enabled", "limit"}
        /\ fields.enabled = enabled /\ fields.limit = limit
    BY DEF AskedFields
  <2>3. doc = Asked(settings, fields)
    BY <1>0, <2>2 DEF Asked, Settings
  <2>4. doc \in Settings
    BY <1>0, <2>2, <2>3, AskedIsSettings
  <2> HIDE DEF fields, doc
  <2>5. Enter(r, d)
    BY <2>1 DEF fields, doc
  <2>6. d \in DeskRow /\ d.op = "save"
    BY <2>2, <2>4 DEF DeskRow, Saving
  <2>7. Calm => Current(d)
    BY <2>3 DEF Calm, Current
  <2> QED BY <2>5, <2>6, <2>7, EnterInv
<1> QED BY <1>1, <1>2

LEMMA SaveInv ==
  ASSUME DeskAssumption, DInv, NEW r \in DeskRequests, Save(r)
  PROVE  DInv'
<1>1. desk[r] \in Saving /\ ~Free(r) /\ r \notin Open
  BY Rows DEF Save, Under, DInv, RowsOK, Free, Open
<1>2. /\ settings' = desk[r].document /\ typed' = Asked(typed, desk[r].asked) /\ Leave(r)
      /\ projects' = projects /\ paid' = paid /\ logged' = logged /\ charged' = charged /\ lost' = lost
      /\ collided' = collided
  BY DEF Save
<1>3. settings' \in Settings /\ typed' \in Settings
  BY <1>1, <1>2, AskedIsSettings DEF Saving, DInv, RowsOK
<1>4. ~collided => settings' = typed' /\ projects' <= 1
  BY <1>2 DEF DInv, Calm, Current, Save, Under
<1>5. projects' \in Nat
  BY <1>2 DEF DInv, RowsOK
<1> QED BY <1>1, <1>2, <1>3, <1>4, <1>5, LeaveInv

LEMMA BeginGenerateInv ==
  ASSUME DeskAssumption, DInv, NEW r \in DeskRequests, BeginGenerate(r)
  PROVE  DInv'
<1>1. PICK provider \in {settings.provider} \union Providers \union {Deterministic},
           key \in {settings.key} \union ApiKeys :
        Enter(r, [op |-> "generate", provider |-> provider, key |-> key])
  BY DEF BeginGenerate
<1> DEFINE d == [op |-> "generate", provider |-> provider, key |-> key]
<1>2. provider \in Names /\ key \in Keys
  BY DEF DInv, RowsOK, Settings, Names, Keys
<1>3. d \in DeskRow /\ d.op = "generate"
  BY <1>2 DEF DeskRow, Generating
<1>4. Calm => Current(d)
  BY DEF Current
<1> QED BY <1>1, <1>3, <1>4, EnterInv

LEMMA CallModelInv ==
  ASSUME DeskAssumption, DInv, NEW r \in DeskRequests, CallModel(r)
  PROVE  DInv'
<1>1. /\ desk[r].op = "generate" /\ ~Free(r) /\ r \notin Open
      /\ settings' = settings /\ typed' = typed /\ campaign' = campaign /\ projects' = projects
      /\ logged' = logged /\ charged' = charged /\ collided' = collided
  BY Rows DEF CallModel, Under, Free, Open
<1>2. PICK cost \in BOOLEAN :
        /\ desk' = [desk EXCEPT ![r] = [op |-> "log", cost |-> cost]]
        /\ \/ ~cost /\ paid' = paid /\ lost' = lost
           \/ ~cost /\ paid' = paid + 1 /\ lost' = lost + 1
           \/ cost /\ paid' = paid + 1 /\ lost' = lost
  BY DEF CallModel
<1> DEFINE d == [op |-> "log", cost |-> cost]
<1>3. d \in DeskRow /\ d.op = "log" /\ d.cost = cost /\ d # NoRequest
  BY Rows DEF DeskRow, Logging
<1> HIDE DEF d
<1>4. desk' = [desk EXCEPT ![r] = d]
  BY <1>2 DEF d
<1>5. RowsOK'
  BY <1>1, <1>2, <1>3, <1>4 DEF DInv, RowsOK
<1>6. Balance'
  <2>1. Cardinality(Open) \in Nat
        /\ Cardinality(Open') = IF cost THEN Cardinality(Open) + 1 ELSE Cardinality(Open)
    BY <1>1, <1>3, <1>4, OpenAfter DEF DInv
  <2>2. Cardinality(charged) \in Nat /\ Cardinality(charged') = Cardinality(charged)
    BY <1>1, ChargedFacts DEF DInv
  <2>3. \/ ~cost /\ paid' = paid /\ lost' = lost
        \/ ~cost /\ paid' = paid + 1 /\ lost' = lost + 1
        \/ cost /\ paid' = paid + 1 /\ lost' = lost
    BY <1>2
  <2> QED BY <2>1, <2>2, <2>3 DEF DInv, RowsOK, Balance
<1>7. ASSUME ~collided' PROVE Calm'
  <2>1. Calm /\ \A q \in DeskRequests : desk'[q] = IF q = r THEN d ELSE desk[q]
    BY <1>1, <1>4, <1>7 DEF DInv, RowsOK
  <2>2. Alone'
    BY <1>1, <2>1 DEF Calm, Alone, Free
  <2>3. \A q \in DeskRequests : Current(desk[q])'
    BY <1>1, <1>3, <2>1 DEF Calm, Current
  <2> QED BY <1>1, <2>1, <2>2, <2>3 DEF Calm
<1> QED BY <1>5, <1>6, <1>7 DEF DInv

LEMMA LogGenerationInv ==
  ASSUME DeskAssumption, DInv, NEW r \in DeskRequests, LogGeneration(r)
  PROVE  DInv'
<1>1. ~Free(r) /\ (r \in Open <=> desk[r].cost)
  BY Rows DEF LogGeneration, Under, Free, Open
<1>2. /\ logged' = logged + 1 /\ Leave(r)
      /\ charged' = (IF desk[r].cost THEN charged \union {logged + 1} ELSE charged)
      /\ settings' = settings /\ typed' = typed /\ projects' = projects
      /\ paid' = paid /\ lost' = lost /\ collided' = collided
  BY DEF LogGeneration, Charged
<1>3. /\ settings' \in Settings /\ typed' \in Settings /\ projects' \in Nat
      /\ ~collided => settings' = typed' /\ projects' <= 1
  BY <1>2 DEF DInv, RowsOK, Calm
<1>4. \/ r \notin Open /\ charged' = charged
      \/ r \in Open /\ logged' = logged + 1 /\ charged' = charged \union {logged'}
  BY <1>1, <1>2
<1> QED BY <1>1, <1>2, <1>3, <1>4, LeaveInv

LEMMA CampaignProposedInv ==
  ASSUME DInv, CampaignProposed
  PROVE  DInv'
<1>1. /\ campaign = "absent" /\ campaign' = "PROPOSED"
      /\ settings' = settings /\ typed' = typed /\ projects' = projects /\ desk' = desk
      /\ paid' = paid /\ logged' = logged /\ charged' = charged /\ lost' = lost /\ collided' = collided
  BY DEF CampaignProposed
<1>2. RowsOK' /\ Balance'
  BY <1>1 DEF DInv, RowsOK, Balance, Open, Under
<1>3. Calm => Calm'
  BY <1>1 DEF Calm, Alone, Free, Current
<1> QED BY <1>1, <1>2, <1>3 DEF DInv

LEMMA DecideInv ==
  ASSUME DeskAssumption, DInv, NEW r \in DeskRequests, BeginDecide(r) \/ Decide(r)
  PROVE  DInv'
<1>1. CASE BeginDecide(r)
  <2>1. PICK verdict \in {"APPROVED", "REJECTED"} :
          Enter(r, [op |-> "decide", verdict |-> verdict])
    BY <1>1 DEF BeginDecide
  <2> DEFINE d == [op |-> "decide", verdict |-> verdict]
  <2>2. d \in DeskRow /\ d.op = "decide"
    BY DEF DeskRow, Deciding
  <2>3. Calm => Current(d)
    BY DEF Current
  <2> QED BY <2>1, <2>2, <2>3, EnterInv
<1>2. CASE Decide(r)
  <2>1. ~Free(r) /\ r \notin Open
    BY <1>2, Rows DEF Decide, Under, Free, Open
  <2>2. /\ Leave(r) /\ settings' = settings /\ typed' = typed /\ projects' = projects
        /\ paid' = paid /\ logged' = logged /\ charged' = charged /\ lost' = lost /\ collided' = collided
    BY <1>2 DEF Decide
  <2>3. /\ settings' \in Settings /\ typed' \in Settings /\ projects' \in Nat
        /\ ~collided => settings' = typed' /\ projects' <= 1
    BY <2>2 DEF DInv, RowsOK, Calm
  <2> QED BY <2>1, <2>2, <2>3, LeaveInv
<1> QED BY <1>1, <1>2

LEMMA StrategyInv ==
  ASSUME DeskAssumption, DInv, NEW r \in DeskRequests, BeginUpdateStrategy(r) \/ UpdateStrategy(r)
  PROVE  DInv'
<1>1. CASE BeginUpdateStrategy(r)
  <2> DEFINE d == [op |-> "strategy", found |-> projects > 0]
  <2>1. d \in DeskRow /\ d.op = "strategy"
    BY DEF DeskRow, Updating
  <2>2. Calm => Current(d)
    BY DEF Current
  <2> QED BY <1>1, <2>1, <2>2, EnterInv DEF BeginUpdateStrategy
<1>2. CASE UpdateStrategy(r)
  <2>1. ~Free(r) /\ r \notin Open
    BY <1>2, Rows DEF UpdateStrategy, Under, Free, Open
  <2>2. /\ Leave(r) /\ settings' = settings /\ typed' = typed
        /\ projects' = (IF desk[r].found THEN projects ELSE projects + 1)
        /\ paid' = paid /\ logged' = logged /\ charged' = charged /\ lost' = lost /\ collided' = collided
    BY <1>2 DEF UpdateStrategy
  <2>3. /\ settings' \in Settings /\ typed' \in Settings /\ projects' \in Nat
    BY <2>2 DEF DInv, RowsOK
  <2>4. ~collided => settings' = typed' /\ projects' <= 1
    BY <1>2, <2>2 DEF DInv, RowsOK, Calm, Current, UpdateStrategy, Under
  <2> QED BY <2>1, <2>2, <2>3, <2>4, LeaveInv
<1> QED BY <1>1, <1>2

LEMMA CutOffRequestInv ==
  ASSUME DeskAssumption, DInv, NEW r \in DeskRequests, CutOffRequest(r)
  PROVE  DInv'
<1>1. /\ ~Free(r) /\ Leave(r) /\ lost' = (IF r \in Open THEN lost + 1 ELSE lost)
      /\ settings' = settings /\ typed' = typed /\ projects' = projects
      /\ paid' = paid /\ logged' = logged /\ charged' = charged /\ collided' = collided
  BY DEF CutOffRequest, Open
<1>2. /\ settings' \in Settings /\ typed' \in Settings /\ projects' \in Nat
      /\ ~collided => settings' = typed' /\ projects' <= 1
  BY <1>1 DEF DInv, RowsOK, Calm
<1> QED BY <1>1, <1>2, LeaveInv

LEMMA DeskInitInv == ASSUME DeskAssumption, DeskInit PROVE DInv
<1>1. RowsOK
  <2>1. MaxCalls \in Limits
    BY DEF DeskAssumption, Limits
  <2> QED BY <2>1 DEF DeskInit, RowsOK, Settings, DeskRow
<1>2. \A r \in DeskRequests : desk[r] = NoRequest
  BY DEF DeskInit
<1>3. Open = {}
  BY <1>2, Rows DEF Open, Under
<1>4. Balance
  BY <1>3, FS_EmptySet DEF DeskInit, Balance
<1>5. Calm
  BY <1>2, Rows DEF DeskInit, Calm, Alone, Free, Current
<1> QED BY <1>1, <1>4, <1>5 DEF DInv

LEMMA DeskStepInv == ASSUME DeskAssumption, DInv, [DeskNext]_deskVars PROVE DInv'
<1>1. CASE CampaignProposed
  BY <1>1, CampaignProposedInv
<1>2. ASSUME NEW r \in DeskRequests,
             \/ BeginSaveConfig(r) \/ BeginSaveGovernance(r) \/ Save(r)
             \/ BeginGenerate(r) \/ CallModel(r) \/ LogGeneration(r)
             \/ BeginDecide(r) \/ Decide(r) \/ BeginUpdateStrategy(r) \/ UpdateStrategy(r)
             \/ CutOffRequest(r)
      PROVE DInv'
  BY <1>2, BeginSaveInv, SaveInv, BeginGenerateInv, CallModelInv, LogGenerationInv, DecideInv,
     StrategyInv, CutOffRequestInv
<1>3. CASE UNCHANGED deskVars
  BY <1>3 DEF deskVars, DInv, RowsOK, Balance, Open, Under, Calm, Alone, Free, Current
<1> QED BY <1>1, <1>2, <1>3 DEF DeskNext

-----------------------------------------------------------------------------
(* Theorems *)

\* Requests of any number keep the invariant: what a lone request read still holds, and
\* every paid call is charged, lost, or about to be charged.
THEOREM DeskInvariance == DeskSpec => []DInv
<1>1. DeskInit => DInv
  BY DeskInitInv, DeskAssumption
<1>2. DInv /\ [DeskNext]_deskVars => DInv'
  BY DeskStepInv, DeskAssumption
<1> QED BY <1>1, <1>2, PTL DEF DeskSpec

\* llm-usage/route.ts 46-108, for any number of requests and any length of the report: a
\* paid and answered call is charged once and nothing else is, and the report has all of
\* these charges unless it leaves entries out.
THEOREM UsageReported == DeskSpec => []UsageIsReported
<1>1. DInv => UsageIsReported
  <2> SUFFICES ASSUME DInv PROVE UsageIsReported
    OBVIOUS
  <2> DEFINE answered == paid - lost - Cardinality(Open)
  <2>1. Cardinality(Open) \in Nat
    BY DeskAssumption, FS_Subset, FS_CardinalityType DEF Open, DeskAssumption
  <2>2. IsFiniteSet(charged) /\ Cardinality(charged) \in Nat
    BY ChargedFacts DEF DInv
  <2>3. Cardinality(charged) = answered
    BY <2>1, <2>2 DEF DInv, RowsOK, Balance
  <2>4. ChargesReported <= Cardinality(charged)
    BY <2>2, FS_Subset DEF ChargesReported
  <2>5. ASSUME logged <= MaxListed PROVE ChargesReported = Cardinality(charged)
    <3>1. Listed = 1..logged
      BY <2>5, DeskAssumption DEF Listed, DInv, RowsOK, DeskAssumption
    <3>2. Listed \intersect charged = charged
      BY <3>1 DEF DInv, RowsOK
    <3> QED BY <3>2 DEF ChargesReported
  <2> QED BY <2>3, <2>4, <2>5 DEF UsageIsReported
<1> QED BY <1>1, DeskInvariance, PTL

\* One request after the other, no setting is lost and the tenant keeps one project.
THEOREM SettingsKept == DeskSpec => []SettingsAreKept
<1>1. DInv => SettingsAreKept
  BY DEF DInv, Calm, SettingsAreKept
<1> QED BY <1>1, DeskInvariance, PTL

-----------------------------------------------------------------------------
(* How many projects overlapping requests create *)

\* The requests that have found no project and will create one
Creators == {r \in DeskRequests : Under(r, "strategy") /\ ~desk[r].found}
BoundsInv ==
  /\ campaign \in {"absent", "PROPOSED", "APPROVED", "REJECTED"}
  /\ paid <= MaxCalls /\ logged <= MaxEntries
  /\ projects + Cardinality(Creators) <= Cardinality(DeskRequests)

LEMMA CreatorFacts ==
  /\ IsFiniteSet(Creators) /\ Cardinality(Creators) \in Nat /\ Cardinality(DeskRequests) \in Nat
  /\ Cardinality(Creators) <= Cardinality(DeskRequests)
BY DeskAssumption, FS_Subset, FS_CardinalityType DEF Creators, DeskAssumption

\* Nobody looks for a project in vain when there is one.
LEMMA EnterKeepsBounds ==
  ASSUME DInv, BoundsInv, NEW r \in DeskRequests, NEW d \in DeskRow, Enter(r, d),
         d.op = "strategy" => d.found = (projects > 0)
  PROVE  BoundsInv'
<1>1. /\ desk' = [desk EXCEPT ![r] = d] /\ projects' = projects /\ campaign' = campaign /\ paid' = paid
      /\ logged' = logged /\ projects \in Nat /\ r \notin Creators
  BY Rows DEF Enter, Free, DInv, RowsOK, Creators, Under
<1>2. CASE projects = 0
  <2>1. Cardinality(Creators') <= Cardinality(DeskRequests) /\ Cardinality(Creators') \in Nat
    <3>1. IsFiniteSet(Creators') /\ Creators' \subseteq DeskRequests
      BY DeskAssumption, FS_Subset DEF Creators, DeskAssumption
    <3> QED BY <3>1, DeskAssumption, FS_Subset, FS_CardinalityType DEF DeskAssumption
  <2> QED BY <1>1, <1>2, <2>1, CreatorFacts DEF BoundsInv
<1>3. CASE projects > 0
  <2>1. Creators' = Creators
    BY <1>1, <1>3 DEF Creators, Under, DInv, RowsOK
  <2> QED BY <1>1, <2>1 DEF BoundsInv
<1> QED BY <1>1, <1>2, <1>3

LEMMA LeaveKeepsBounds ==
  ASSUME DInv, BoundsInv, NEW r \in DeskRequests, Leave(r), paid' = paid,
         logged' <= MaxEntries,
         campaign' \in {"absent", "PROPOSED", "APPROVED", "REJECTED"},
         projects' = projects \/ (projects' = projects + 1 /\ r \in Creators)
  PROVE  BoundsInv'
<1>1. Creators' = Creators \ {r}
  BY Rows DEF Leave, Creators, Under, DInv, RowsOK
<1>2. Cardinality(Creators') = IF r \in Creators THEN Cardinality(Creators) - 1 ELSE Cardinality(Creators)
  BY <1>1, CreatorFacts, FS_RemoveElement
<1> QED BY <1>2, CreatorFacts DEF BoundsInv, DInv, RowsOK

LEMMA BoundsStep ==
  ASSUME DInv, BoundsInv, [DeskNext]_deskVars
  PROVE  BoundsInv'
<1>1. ASSUME NEW r \in DeskRequests, NEW d \in DeskRow, Enter(r, d), d.op # "strategy" PROVE BoundsInv'
  BY <1>1, EnterKeepsBounds
<1>2. ASSUME NEW r \in DeskRequests, BeginUpdateStrategy(r) PROVE BoundsInv'
  <2> DEFINE d == [op |-> "strategy", found |-> projects > 0]
  <2>1. d \in DeskRow /\ d.found = (projects > 0) /\ Enter(r, d)
    BY <1>2 DEF BeginUpdateStrategy, DeskRow, Updating
  <2> HIDE DEF d
  <2> QED BY <2>1, EnterKeepsBounds
<1>3. ASSUME NEW r \in DeskRequests,
             Save(r) \/ LogGeneration(r) \/ Decide(r) \/ UpdateStrategy(r) \/ CutOffRequest(r)
      PROVE  BoundsInv'
  <2>1. Leave(r) /\ paid' = paid
    BY <1>3 DEF Save, LogGeneration, Decide, UpdateStrategy, CutOffRequest
  <2>4. logged' <= MaxEntries
    BY <1>3, DeskAssumption DEF Save, LogGeneration, Decide, UpdateStrategy, CutOffRequest, BoundsInv,
       DInv, RowsOK, DeskAssumption
  <2>2. campaign' \in {"absent", "PROPOSED", "APPROVED", "REJECTED"}
    BY <1>3, Rows DEF Save, LogGeneration, Decide, UpdateStrategy, CutOffRequest, BoundsInv, DInv,
       RowsOK, Under, Deciding
  <2>3. projects' = projects \/ (projects' = projects + 1 /\ r \in Creators)
    BY <1>3 DEF Save, LogGeneration, Decide, UpdateStrategy, CutOffRequest, Creators, Under
  <2> QED BY <2>1, <2>2, <2>3, <2>4, LeaveKeepsBounds
<1>4. ASSUME NEW r \in DeskRequests, CallModel(r) PROVE BoundsInv'
  <2>1. Creators' = Creators
    <3>1. PICK cost \in BOOLEAN : desk' = [desk EXCEPT ![r] = [op |-> "log", cost |-> cost]]
      BY <1>4 DEF CallModel
    <3> QED BY <1>4, <3>1 DEF CallModel, Creators, Under, DInv, RowsOK
  <2>2. paid' <= MaxCalls /\ logged' = logged /\ campaign' = campaign /\ projects' = projects
    BY <1>4, DeskAssumption DEF CallModel, BoundsInv, DInv, RowsOK, DeskAssumption
  <2> QED BY <2>1, <2>2 DEF BoundsInv
<1>5. ASSUME CampaignProposed \/ UNCHANGED deskVars PROVE BoundsInv'
  <2>1. Creators' = Creators /\ paid' = paid /\ projects' = projects /\ logged' = logged
        /\ campaign' \in {campaign, "PROPOSED"}
    BY <1>5 DEF CampaignProposed, deskVars, Creators, Under
  <2> QED BY <2>1 DEF BoundsInv
<1>6. ASSUME NEW r \in DeskRequests,
             BeginSaveConfig(r) \/ BeginSaveGovernance(r) \/ BeginGenerate(r) \/ BeginDecide(r)
      PROVE  BoundsInv'
  <2>1. DInv'
    BY <1>6, DeskAssumption, DeskStepInv DEF DeskNext
  <2>2. PICK d : Enter(r, d) /\ d.op # "strategy"
    <3>1. ASSUME BeginSaveConfig(r) PROVE \E d : Enter(r, d) /\ d.op # "strategy"
      <4>1. PICK doc, fields : Enter(r, [op |-> "save", document |-> doc, asked |-> fields])
        BY <3>1 DEF BeginSaveConfig
      <4> QED BY <4>1
    <3>2. ASSUME BeginSaveGovernance(r) PROVE \E d : Enter(r, d) /\ d.op # "strategy"
      <4>1. PICK doc, fields : Enter(r, [op |-> "save", document |-> doc, asked |-> fields])
        BY <3>2 DEF BeginSaveGovernance
      <4> QED BY <4>1
    <3>3. ASSUME BeginGenerate(r) PROVE \E d : Enter(r, d) /\ d.op # "strategy"
      <4>1. PICK provider, key : Enter(r, [op |-> "generate", provider |-> provider, key |-> key])
        BY <3>3 DEF BeginGenerate
      <4> QED BY <4>1
    <3>4. ASSUME BeginDecide(r) PROVE \E d : Enter(r, d) /\ d.op # "strategy"
      <4>1. PICK verdict : Enter(r, [op |-> "decide", verdict |-> verdict])
        BY <3>4 DEF BeginDecide
      <4> QED BY <4>1
    <3> QED BY <1>6, <3>1, <3>2, <3>3, <3>4
  <2>3. d \in DeskRow
    BY <2>1, <2>2 DEF Enter, DInv, RowsOK
  <2> QED BY <1>1, <2>2, <2>3
<1> QED BY <1>2, <1>3, <1>4, <1>5, <1>6 DEF DeskNext

\* What the desk's rows and requests hold; overlapping strategy/update requests, which look
\* for a project and create it later, create at most one each.
THEOREM DeskTypeCorrect == DeskSpec => []DeskTypeOK
<1>1. DeskInit => BoundsInv
  <2> SUFFICES ASSUME DeskInit PROVE BoundsInv
    OBVIOUS
  <2>1. Creators = {}
    BY Rows DEF DeskInit, Creators, Under
  <2> QED BY <2>1, FS_EmptySet, CreatorFacts, DeskAssumption DEF DeskInit, BoundsInv, DeskAssumption
<1>2. DInv /\ BoundsInv /\ [DeskNext]_deskVars => BoundsInv'
  BY BoundsStep
<1>3. ASSUME DInv, BoundsInv PROVE DeskTypeOK
  <2>1. projects \in 0..Cardinality(DeskRequests)
    BY <1>3, CreatorFacts DEF BoundsInv, DInv, RowsOK
  <2>2. /\ paid \in 0..MaxCalls /\ lost \in 0..MaxCalls
        /\ logged \in 0..MaxEntries /\ charged \in SUBSET (1..logged)
    <3>1. Cardinality(Open) \in Nat
      BY DeskAssumption, FS_Subset, FS_CardinalityType DEF Open, DeskAssumption
    <3>2. Cardinality(charged) \in Nat
      BY <1>3, ChargedFacts DEF DInv
    <3> QED BY <1>3, <3>1, <3>2, DeskAssumption DEF BoundsInv, DInv, RowsOK, Balance, DeskAssumption
  <2>3. \A r \in DeskRequests :
          desk[r].op \in {"none", "save", "generate", "log", "decide", "strategy"}
    <3> TAKE r \in DeskRequests
    <3>1. desk[r] \in DeskRow
      BY <1>3 DEF DInv, RowsOK
    <3> QED BY <3>1, Rows DEF DeskRow, Saving, Generating, Logging, Deciding, Updating
  <2> QED BY <1>3, <2>1, <2>2, <2>3 DEF DeskTypeOK, BoundsInv, DInv, RowsOK
<1> QED BY <1>1, <1>2, <1>3, DeskInvariance, PTL DEF DeskSpec
=============================================================================
