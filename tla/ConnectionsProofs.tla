-------------------------- MODULE ConnectionsProofs --------------------------
(***************************************************************************)
(* Proof that a token fits its account, for any number of pages, accounts  *)
(* and overlapping callbacks and bootstraps.                               *)
(***************************************************************************)
EXTENDS Connections, SequenceTheorems, TLAPS

AccountRow == [network : Networks, ext : Pages \union {NoPage, Sandbox},
               status : {"connected", "sandbox_connected"}]
ConnectionRow == [account : AccountIds, user : Pages \union {NoPage}, ref : Nat \ {0}]
Credential == [network : Networks, page : Pages \union {Unknown}, secret : Nat \ {0},
               expires : BOOLEAN, fresh : BOOLEAN]
Connecting == [network : Networks, page : Pages \union {NoPage}, expires : BOOLEAN,
               account : AccountIds, exact : BOOLEAN, new : BOOLEAN]

LinkRowsOK ==
  /\ social \in [AccountIds -> {NoAccount} \union AccountRow]
  /\ connection \in [Networks -> {NoConnection} \union ConnectionRow]
  /\ vault \in Seq(Credential)
  /\ secret \in Nat \ {0}
  /\ connector \in [Connectors -> {NotConnecting} \union Connecting]
  /\ renamed \in SUBSET AccountIds

\* What a callback found stays an account of its network, and what it found by its page
\* keeps the page unless another callback, which had found none, replaces it.
FoundInv ==
  \A c \in Connectors : connector[c] # NotConnecting =>
    /\ connector[c].exact => connector[c].page # NoPage
    /\ connector[c].exact /\ connector[c].account \notin renamed =>
         social[connector[c].account].ext = connector[c].page
    /\ connector[c].new \/ social[connector[c].account].network = connector[c].network
    /\ connector[c].network = "FACEBOOK" => connector[c].page \in Pages

\* A connection names an account of its network and a credential that was given for the
\* page of that account, as long as the account keeps its page, and it names that page.
LinkOf(n) ==
  connection[n] # NoConnection =>
    /\ connection[n].ref \in 1..Len(vault)
    /\ social[connection[n].account].network = n
    /\ connection[n].account \notin renamed =>
         vault[connection[n].ref].page \in {social[connection[n].account].ext, Unknown}
    /\ n = "FACEBOOK" => connection[n].user = vault[connection[n].ref].page
LinkInv == \A n \in Networks : LinkOf(n)

CInv == LinkRowsOK /\ FoundInv /\ LinkInv

-----------------------------------------------------------------------------
LEMMA RowFacts ==
  ASSUME CInv
  PROVE  /\ \A a \in AccountIds : social[a] # NoAccount => social[a] \in AccountRow
         /\ \A a \in AccountIds : social[a].network \in Networks <=> social[a] # NoAccount
         /\ \A n \in Networks : connection[n] # NoConnection => connection[n] \in ConnectionRow
         /\ \A c \in Connectors : connector[c] # NotConnecting => connector[c] \in Connecting
         /\ Len(vault) \in Nat
BY DEF CInv, LinkRowsOK, NoAccount, AccountRow, Networks

\* A callback that begins writes nothing but what it found.
LEMMA FindsInv ==
  ASSUME CInv, NEW c \in Connectors, NEW n \in Networks, NEW page \in Pages \union {NoPage},
         NEW expires \in BOOLEAN, n = "FACEBOOK" => page \in Pages, Finds(c, n, page, expires)
  PROVE  CInv'
<1>1. PICK a \in Choices(n, page) :
        /\ connector' = [connector EXCEPT ![c] =
             [network |-> n, page |-> page, expires |-> expires, account |-> a,
              exact |-> page # NoPage /\ social[a].ext = page, new |-> social[a] = NoAccount]]
        /\ social' = social /\ connection' = connection /\ vault' = vault /\ secret' = secret
        /\ renamed' = renamed
  BY DEF Finds
<1>2. a \in AccountIds /\ (social[a] = NoAccount \/ social[a].network = n)
  BY <1>1 DEF Choices, Accounts, Vacant
<1> DEFINE q == [network |-> n, page |-> page, expires |-> expires, account |-> a,
                 exact |-> page # NoPage /\ social[a].ext = page, new |-> social[a] = NoAccount]
<1>3. /\ q \in Connecting /\ q.network = n /\ q.page = page /\ q.account = a
      /\ q.exact => q.page # NoPage /\ social[a].ext = q.page
      /\ q.new \/ social[a].network = n
  BY <1>2, Zenon DEF Connecting
<1> HIDE DEF q
<1>4. connector' = [connector EXCEPT ![c] = q]
  BY <1>1 DEF q
<1>5. LinkRowsOK'
  BY <1>1, <1>3, <1>4 DEF CInv, LinkRowsOK
<1>6. FoundInv'
  <2>1. connector'[c] = q /\ \A d \in Connectors \ {c} : connector'[d] = connector[d]
    BY <1>4 DEF CInv, LinkRowsOK
  <2> QED BY <1>1, <1>3, <2>1 DEF CInv, FoundInv
<1>7. LinkInv'
  BY <1>1 DEF CInv, LinkInv, LinkOf
<1> QED BY <1>5, <1>6, <1>7 DEF CInv

LEMMA CommitsInv ==
  ASSUME ConnectionsAssumption, CInv, NEW c \in Connectors, NEW link, Commits(c, link),
         connector[c] # NotConnecting,
         link \in ConnectionRow, link.account = connector[c].account, link.ref = Len(vault) + 1,
         connector[c].network = "FACEBOOK" => link.user = connector[c].page
  PROVE  CInv'
<1>0. PICK q \in Connecting : connector[c] = q
  BY RowFacts
<1> DEFINE n == q.network
           x == q.account
           row == [network |-> n, status |-> "connected",
                   ext |-> Named(q)]
           item == Encrypted(q)
<1>1. n \in Networks /\ x \in AccountIds /\ Len(vault) \in Nat
  BY RowFacts DEF Connecting
<1>2. /\ ~Clashes(c) /\ vault' = Append(vault, item) /\ secret' = secret
      /\ social' = [social EXCEPT ![x] = row] /\ connection' = [connection EXCEPT ![n] = link]
      /\ connector' = [connector EXCEPT ![c] = NotConnecting]
      /\ renamed' = IF social[x].ext \in {NoPage, Named(q)} THEN renamed ELSE renamed \union {x}
  BY <1>0 DEF Commits
<1>3. social[x] = NoAccount \/ social[x].network = n
  BY <1>0, <1>2 DEF Clashes, CInv, FoundInv, NotConnecting, Connecting
<1>4. item \in Credential /\ item.page = (IF q.page = NoPage THEN Unknown ELSE q.page)
  BY <1>1 DEF Encrypted, Credential, Connecting, CInv, LinkRowsOK
<1>5. row \in AccountRow /\ row.network = n
      /\ row.ext = IF q.exact \/ q.page = NoPage THEN social[x].ext ELSE q.page
  <2>1. social[x].ext \in Pages \union {NoPage, Sandbox}
    BY <1>1, RowFacts DEF AccountRow, NoAccount
  <2>2. row.ext = Named(q) /\ Named(q) = IF q.exact \/ q.page = NoPage THEN social[x].ext ELSE q.page
    BY DEF Named
  <2> QED BY <1>1, <2>1, <2>2 DEF AccountRow, Connecting
<1>12. q.exact /\ x \notin renamed => social[x].ext = q.page
  BY <1>0 DEF CInv, FoundInv
<1>6. n = "FACEBOOK" => q.page \in Pages /\ q.page # NoPage /\ link.user = q.page
  BY <1>0 DEF ConnectionsAssumption, CInv, FoundInv
<1> HIDE DEF n, x, row, item
<1>7. /\ social'[x] = row /\ \A a \in AccountIds \ {x} : social'[a] = social[a]
      /\ connection'[n] = link /\ \A m \in Networks \ {n} : connection'[m] = connection[m]
      /\ connector'[c] = NotConnecting /\ \A d \in Connectors \ {c} : connector'[d] = connector[d]
  BY <1>1, <1>2 DEF CInv, LinkRowsOK
<1>8. /\ vault' \in Seq(Credential) /\ Len(vault') = Len(vault) + 1 /\ vault'[Len(vault) + 1] = item
      /\ \A i \in 1..Len(vault) : vault'[i] = vault[i]
  BY <1>1, <1>2, <1>4 DEF CInv, LinkRowsOK
<1>13. /\ renamed' = IF social[x].ext \in {NoPage, row.ext} THEN renamed ELSE renamed \union {x}
       /\ renamed \subseteq renamed' /\ renamed' \subseteq renamed \union {x}
  BY <1>2 DEF row
<1>9. LinkRowsOK'
  BY <1>1, <1>2, <1>5, <1>8, <1>13 DEF CInv, LinkRowsOK
<1>10. FoundInv'
  <2>1. ASSUME NEW d \in Connectors, connector'[d] # NotConnecting
        PROVE  /\ connector'[d].exact => connector'[d].page # NoPage
               /\ connector'[d].exact /\ connector'[d].account \notin renamed' =>
                    social'[connector'[d].account].ext = connector'[d].page
               /\ connector'[d].new \/ social'[connector'[d].account].network = connector'[d].network
               /\ connector'[d].network = "FACEBOOK" => connector'[d].page \in Pages
    <3>0. PICK r \in Connecting : connector'[d] = r /\ connector[d] = r /\ r # NotConnecting
      BY <1>7, <2>1, RowFacts
    <3>1. r.account \in AccountIds /\ r.network \in Networks
      BY DEF Connecting
    <3>2. /\ r.exact => r.page # NoPage
          /\ r.exact /\ r.account \notin renamed => social[r.account].ext = r.page
          /\ r.new \/ social[r.account].network = r.network
          /\ r.network = "FACEBOOK" => r.page \in Pages
      BY <3>0 DEF CInv, FoundInv
    <3>3. ASSUME r.account = x, ~r.new
          PROVE  social'[x].network = r.network
      <4>1. social[x].network = r.network /\ social[x] # NoAccount
        <5>1. social[x].network = r.network
          BY <3>2, <3>3
        <5> QED BY <1>1, <3>1, <5>1, RowFacts
      <4> QED BY <1>3, <1>5, <1>7, <4>1
    <3>4. ASSUME r.account = x, r.exact, x \notin renamed'
          PROVE  social'[x].ext = r.page
      <4>1. social[x].ext = r.page /\ r.page # NoPage
        BY <1>13, <3>2, <3>4
      <4>2. social[x].ext \in {NoPage, row.ext}
        BY <1>13, <3>4
      <4> QED BY <1>7, <4>1, <4>2
    <3>5. r.account # x => social'[r.account] = social[r.account]
      BY <1>7, <3>1
    <3>6. r.exact /\ r.account \notin renamed' => social'[r.account].ext = r.page
      BY <1>13, <3>2, <3>4, <3>5
    <3>7. r.new \/ social'[r.account].network = r.network
      BY <3>2, <3>3, <3>5
    <3> QED BY <3>0, <3>2, <3>6, <3>7
  <2> QED BY <2>1 DEF FoundInv
<1>11. LinkInv'
  <2>1. LinkOf(n)'
    <3>1. connection'[n].ref = Len(vault) + 1 /\ connection'[n].account = x
      BY <1>0, <1>7 DEF x
    <3>2. x \notin renamed' => vault'[connection'[n].ref].page \in {social'[x].ext, Unknown}
      BY <1>4, <1>5, <1>7, <1>8, <1>12, <1>13, <3>1
    <3>3. n = "FACEBOOK" => connection'[n].user = vault'[connection'[n].ref].page
      BY <1>4, <1>6, <1>7, <1>8, <3>1
    <3>4. connection'[n].ref \in 1..Len(vault')
      BY <1>1, <1>8, <3>1
    <3> QED BY <1>5, <1>7, <3>1, <3>2, <3>3, <3>4 DEF LinkOf
  <2>2. ASSUME NEW m \in Networks, m # n, connection[m] # NoConnection
        PROVE  /\ connection[m].ref \in 1..Len(vault')
               /\ social'[connection[m].account].network = m
               /\ connection[m].account \notin renamed' =>
                    vault'[connection[m].ref].page \in {social'[connection[m].account].ext, Unknown}
               /\ m = "FACEBOOK" => connection[m].user = vault'[connection[m].ref].page
    <3>1. /\ connection[m].ref \in 1..Len(vault)
          /\ social[connection[m].account].network = m
          /\ connection[m].account \notin renamed =>
               vault[connection[m].ref].page \in {social[connection[m].account].ext, Unknown}
          /\ m = "FACEBOOK" => connection[m].user = vault[connection[m].ref].page
          /\ connection[m].account \in AccountIds
      BY <2>2, RowFacts DEF CInv, LinkInv, LinkOf, ConnectionRow
    <3>2. connection[m].account # x
      BY <1>3, <2>2, <3>1 DEF NoAccount, Networks
    <3> QED BY <1>1, <1>7, <1>8, <1>13, <3>1, <3>2
  <2>3. \A m \in Networks \ {n} : connection'[m] = connection[m]
    BY <1>7
  <2>4. ASSUME NEW m \in Networks, m # n PROVE LinkOf(m)'
    BY <2>2, <2>3, <2>4 DEF LinkOf
  <2> QED BY <2>1, <2>4 DEF LinkInv
<1> QED BY <1>9, <1>10, <1>11 DEF CInv

\* The connection a commit writes
LEMMA LinkFacts ==
  ASSUME CInv, NEW c \in Connectors, connector[c] # NotConnecting
  PROVE  /\ Linked(connector[c], Len(vault) + 1) \in ConnectionRow
         /\ Linked(connector[c], Len(vault) + 1).account = connector[c].account
         /\ Linked(connector[c], Len(vault) + 1).ref = Len(vault) + 1
         /\ Linked(connector[c], Len(vault) + 1).user = connector[c].page
         /\ LinkedInstagram(connector[c], Len(vault) + 1) \in ConnectionRow
         /\ LinkedInstagram(connector[c], Len(vault) + 1).account = connector[c].account
         /\ LinkedInstagram(connector[c], Len(vault) + 1).ref = Len(vault) + 1
<1>1. connector[c] \in Connecting /\ Len(vault) + 1 \in Nat \ {0}
  BY RowFacts
<1>2. connection["INSTAGRAM"].user \in Pages \union {NoPage}
  BY RowFacts DEF NoConnection, ConnectionRow, Networks
<1>3. /\ Linked(connector[c], Len(vault) + 1) \in ConnectionRow
      /\ Linked(connector[c], Len(vault) + 1).account = connector[c].account
      /\ Linked(connector[c], Len(vault) + 1).ref = Len(vault) + 1
      /\ Linked(connector[c], Len(vault) + 1).user = connector[c].page
  BY <1>1 DEF Linked, ConnectionRow, Connecting
<1> DEFINE link == Linked(connector[c], Len(vault) + 1)
           user == IF connection["INSTAGRAM"] # NoConnection THEN connection["INSTAGRAM"].user
                   ELSE link.user
<1>4. user \in Pages \union {NoPage}
  BY <1>1, <1>2, <1>3 DEF Connecting
<1>5. LinkedInstagram(connector[c], Len(vault) + 1) = [link EXCEPT !.user = user]
  BY DEF LinkedInstagram
<1>6. link \in ConnectionRow /\ link.account = connector[c].account /\ link.ref = Len(vault) + 1
  BY <1>3
<1> HIDE DEF link, user
<1>7. [link EXCEPT !.user = user] \in ConnectionRow
      /\ [link EXCEPT !.user = user].account = link.account
      /\ [link EXCEPT !.user = user].ref = link.ref
  BY <1>4, <1>6 DEF ConnectionRow
<1> QED BY <1>3, <1>5, <1>6, <1>7

\* A sandbox account is a new one.
LEMMA SelectInv ==
  ASSUME CInv, NEW n \in Networks, SelectNetwork(n)
  PROVE  CInv'
<1>1. PICK a \in AccountIds :
        /\ social[a] = NoAccount
        /\ social' = [social EXCEPT ![a] = [network |-> n, ext |-> Sandbox, status |-> "sandbox_connected"]]
        /\ connection' = connection /\ vault' = vault /\ secret' = secret /\ connector' = connector
        /\ renamed' = renamed
  BY DEF SelectNetwork, Vacant
<1>2. [network |-> n, ext |-> Sandbox, status |-> "sandbox_connected"] \in AccountRow
  BY DEF AccountRow
<1>3. /\ social' \in [AccountIds -> {NoAccount} \union AccountRow]
      /\ \A b \in AccountIds : social[b].network \in Networks => social'[b] = social[b]
  BY <1>1, <1>2, RowFacts DEF CInv, LinkRowsOK
<1>4. LinkRowsOK'
  BY <1>1, <1>3 DEF CInv, LinkRowsOK
<1>5. FoundInv'
  <2>1. ASSUME NEW c \in Connectors, connector[c] # NotConnecting
        PROVE  /\ connector[c].exact => connector[c].page # NoPage
               /\ connector[c].exact /\ connector[c].account \notin renamed =>
                    social'[connector[c].account].ext = connector[c].page
               /\ connector[c].new \/ social'[connector[c].account].network = connector[c].network
               /\ connector[c].network = "FACEBOOK" => connector[c].page \in Pages
    <3>1. connector[c].account \in AccountIds /\ connector[c].network \in Networks
      BY <2>1, RowFacts DEF Connecting
    <3>2. /\ connector[c].exact => connector[c].page # NoPage
          /\ connector[c].exact /\ connector[c].account \notin renamed =>
               social[connector[c].account].ext = connector[c].page
          /\ connector[c].new \/ social[connector[c].account].network = connector[c].network
          /\ connector[c].network = "FACEBOOK" => connector[c].page \in Pages
      BY <2>1 DEF CInv, FoundInv
    <3>3. connector[c].account # a => social'[connector[c].account] = social[connector[c].account]
      BY <1>1, <3>1 DEF CInv, LinkRowsOK
    <3>4. ASSUME connector[c].account = a, connector[c].exact PROVE a \in renamed
      BY <1>1, <3>2, <3>4 DEF NoAccount
    <3>5. ASSUME connector[c].account = a PROVE connector[c].new
      BY <1>1, <3>1, <3>2, <3>5, RowFacts
    <3> QED BY <3>2, <3>3, <3>4, <3>5
  <2> QED BY <1>1, <2>1 DEF FoundInv
<1>6. LinkInv'
  <2>1. ASSUME NEW m \in Networks, connection[m] # NoConnection
        PROVE  social'[connection[m].account] = social[connection[m].account]
    BY <1>3, <2>1, RowFacts DEF CInv, LinkInv, LinkOf, ConnectionRow
  <2> QED BY <1>1, <2>1 DEF CInv, LinkInv, LinkOf
<1> QED BY <1>4, <1>5, <1>6 DEF CInv

LEMMA ExpireInv ==
  ASSUME CInv, Expire
  PROVE  CInv'
<1>1. PICK i \in 1..Len(vault) : vault' = [vault EXCEPT ![i].fresh = FALSE]
  BY DEF Expire
<1>2. /\ social' = social /\ connection' = connection /\ secret' = secret /\ connector' = connector
      /\ renamed' = renamed
  BY DEF Expire
<1>3. vault[i] \in Credential /\ Len(vault) \in Nat
  BY DEF CInv, LinkRowsOK
<1>4. vault' = [vault EXCEPT ![i] = [vault[i] EXCEPT !.fresh = FALSE]]
  BY <1>1, <1>3 DEF CInv, LinkRowsOK, Credential
<1>5. [vault[i] EXCEPT !.fresh = FALSE] \in Credential
      /\ [vault[i] EXCEPT !.fresh = FALSE].page = vault[i].page
  BY <1>3 DEF Credential
<1>6. vault' \in Seq(Credential) /\ Len(vault') = Len(vault)
      /\ \A j \in 1..Len(vault) : vault'[j].page = vault[j].page
  BY <1>4, <1>5 DEF CInv, LinkRowsOK
<1>7. LinkRowsOK' /\ FoundInv'
  BY <1>2, <1>6 DEF CInv, LinkRowsOK, FoundInv
<1>8. LinkInv'
  BY <1>2, <1>6 DEF CInv, LinkInv, LinkOf
<1> QED BY <1>7, <1>8 DEF CInv

LEMMA QuietInv ==
  ASSUME CInv, social' = social, connection' = connection, vault' = vault, renamed' = renamed,
         secret' = secret \/ secret' = secret + 1,
         \/ connector' = connector
         \/ \E c \in Connectors : connector' = [connector EXCEPT ![c] = NotConnecting]
  PROVE  CInv'
<1>1. LinkRowsOK'
  BY DEF CInv, LinkRowsOK
<1>2. FoundInv'
  BY DEF CInv, LinkRowsOK, FoundInv
<1>3. LinkInv'
  BY DEF CInv, LinkInv, LinkOf
<1> QED BY <1>1, <1>2, <1>3 DEF CInv

\* The invariant holds at the start and every step keeps it.
THEOREM ConnectionsInvariance == ConnectionsSpec => []CInv
<1>1. ConnectionsInit => CInv
  <2> SUFFICES ASSUME ConnectionsInit PROVE CInv
    OBVIOUS
  <2>1. \A n \in Networks : OldAccount(n) \in AccountRow
    BY DEF OldAccount, AccountRow
  <2>2. LinkRowsOK
    BY <2>1, EmptySeq DEF ConnectionsInit, LinkRowsOK
  <2> QED BY <2>2 DEF ConnectionsInit, CInv, FoundInv, LinkInv, LinkOf
<1>2. CInv /\ [ConnectionsNext]_connectionVars => CInv'
  <2> SUFFICES ASSUME CInv, [ConnectionsNext]_connectionVars PROVE CInv'
    OBVIOUS
  <2>1. ASSUME NEW c \in Connectors, FacebookCallback(c) \/ InstagramCallback(c) \/ FacebookBootstrap(c)
        PROVE  CInv'
    <3>1. PICK n \in Networks, page \in Pages \union {NoPage}, expires \in BOOLEAN :
            Finds(c, n, page, expires) /\ (n = "FACEBOOK" => page \in Pages)
      BY <2>1, ConnectionsAssumption
         DEF FacebookCallback, InstagramCallback, FacebookBootstrap, Networks, ConnectionsAssumption
    <3> QED BY <3>1, FindsInv
  <2>2. ASSUME NEW c \in Connectors, CommitFacebook(c) PROVE CInv'
    <3>1. connector[c] # NotConnecting /\ Commits(c, Linked(connector[c], Len(vault) + 1))
      BY <2>2 DEF CommitFacebook, NotConnecting
    <3> QED BY <3>1, LinkFacts, CommitsInv, ConnectionsAssumption
  <2>3. ASSUME NEW c \in Connectors, CommitInstagram(c) PROVE CInv'
    <3>1. /\ connector[c] # NotConnecting /\ connector[c].network # "FACEBOOK"
          /\ Commits(c, LinkedInstagram(connector[c], Len(vault) + 1))
      BY <2>3 DEF CommitInstagram, NotConnecting
    <3> QED BY <3>1, LinkFacts, CommitsInv, ConnectionsAssumption
  <2>4. ASSUME NEW c \in Connectors, AbandonConnect(c) PROVE CInv'
    BY <2>4, QuietInv DEF AbandonConnect
  <2>5. CASE ChangeSecret \/ UNCHANGED connectionVars
    BY <2>5, QuietInv DEF ChangeSecret, connectionVars
  <2> QED BY <2>1, <2>2, <2>3, <2>4, <2>5, SelectInv, ExpireInv DEF ConnectionsNext
<1> QED BY <1>1, <1>2, PTL DEF ConnectionsSpec

\* credential-resolver.ts and the transactions of the callbacks: whichever callbacks
\* overlap, a Facebook post goes to the page its token was given for, and a token resolved
\* for an account was given for its page unless one callback replaced the page of another.
THEOREM TokensFit == ConnectionsSpec => []TokenFitsAccount
<1>1. ASSUME CInv, NEW a \in AccountIds, Resolves(a)
      PROVE  /\ a \notin renamed => TokenOf(a).page \in {social[a].ext, Unknown}
             /\ social[a].network = "FACEBOOK" => TargetOf(a) = TokenOf(a).page
  <2>1. PICK n \in Networks : social[a].network = n /\ connection[n] # NoConnection
                              /\ connection[n].account = a
    BY <1>1, RowFacts DEF Resolves
  <2>2. LinkOf(n)
    BY <1>1 DEF CInv, LinkInv
  <2> QED BY <2>1, <2>2 DEF LinkOf, TokenOf, TargetOf
<1>2. CInv => TokenFitsAccount
  BY <1>1 DEF TokenFitsAccount
<1> QED BY <1>2, ConnectionsInvariance, PTL

-----------------------------------------------------------------------------
(* The unique keys of the tables *)

OneRowPerPage ==
  \A a, b \in AccountIds :
    /\ social[a].network = social[b].network /\ social[a].ext # NoPage
    /\ social[a].ext = social[b].ext
    => a = b
SecretsInv ==
  /\ secret \in 1..MaxSecrets
  /\ \A i \in 1..Len(vault) : vault[i].secret \in 1..MaxSecrets

KInv == SecretsInv /\ OneRowPerPage

LEMMA CommitsKeepKeys ==
  ASSUME CInv, KInv, NEW c \in Connectors, NEW link, Commits(c, link), connector[c] # NotConnecting
  PROVE  KInv'
<1>0. PICK q \in Connecting : connector[c] = q
  BY RowFacts
<1> DEFINE n == q.network
           x == q.account
           row == [network |-> n, status |-> "connected",
                   ext |-> Named(q)]
           item == Encrypted(q)
<1>1. n \in Networks /\ x \in AccountIds /\ Len(vault) \in Nat
  BY RowFacts DEF Connecting
<1>2. /\ ~Clashes(c) /\ vault' = Append(vault, item) /\ secret' = secret
      /\ social' = [social EXCEPT ![x] = row]
  BY <1>0 DEF Commits
<1>3. item.secret = secret
  BY DEF Encrypted
<1>4. row.network = n /\ row.ext = (IF q.exact \/ q.page = NoPage THEN social[x].ext ELSE q.page)
  BY DEF Named
<1>5. social[x] = NoAccount \/ social[x].network = n
  BY <1>0, <1>2 DEF Clashes, CInv, FoundInv, NotConnecting, Connecting
<1>6. q.page # NoPage /\ ~q.exact => \A a \in AccountIds \ {x} : ~(social[a].network = n /\ social[a].ext = q.page)
  BY <1>0, <1>2 DEF Clashes, Accounts
<1> HIDE DEF n, x, row, item
<1>7. social'[x] = row /\ \A a \in AccountIds \ {x} : social'[a] = social[a]
  BY <1>1, <1>2 DEF CInv, LinkRowsOK
<1>8. OneRowPerPage'
  <2>1. ASSUME NEW a \in AccountIds \ {x}, row.ext # NoPage
        PROVE  ~(social[a].network = n /\ social[a].ext = row.ext)
    <3>1. CASE q.page # NoPage /\ ~q.exact
      BY <1>4, <1>6, <3>1
    <3>2. CASE q.page = NoPage \/ q.exact
      <4>1. row.ext = social[x].ext /\ social[x].network = n
        BY <1>4, <1>5, <2>1, <3>2 DEF NoAccount
      <4> QED BY <1>1, <2>1, <4>1 DEF KInv, OneRowPerPage
    <3> QED BY <3>1, <3>2
  <2> QED BY <1>4, <1>7, <2>1 DEF KInv, OneRowPerPage
<1>9. SecretsInv'
  <2>1. /\ Len(vault') = Len(vault) + 1 /\ vault'[Len(vault) + 1] = item
        /\ \A i \in 1..Len(vault) : vault'[i] = vault[i]
    <3>1. vault \in Seq(Credential)
      BY DEF CInv, LinkRowsOK
    <3> QED BY <1>1, <1>2, <3>1
  <2> QED BY <1>1, <1>2, <1>3, <2>1 DEF KInv, SecretsInv
<1> QED BY <1>8, <1>9 DEF KInv

LEMMA KeysStep ==
  ASSUME CInv, KInv, [ConnectionsNext]_connectionVars
  PROVE  KInv'
<1>1. ASSUME NEW c \in Connectors, CommitFacebook(c) \/ CommitInstagram(c) PROVE KInv'
  BY <1>1, CommitsKeepKeys DEF CommitFacebook, CommitInstagram, NotConnecting
<1>2. ASSUME NEW n \in Networks, SelectNetwork(n) PROVE KInv'
  <2>1. PICK a \in AccountIds :
          social' = [social EXCEPT ![a] = [network |-> n, ext |-> Sandbox, status |-> "sandbox_connected"]]
    BY <1>2 DEF SelectNetwork, Vacant
  <2>2. vault' = vault /\ secret' = secret /\ \A b \in AccountIds : social[b].network # n
    BY <1>2 DEF SelectNetwork
  <2>3. /\ social'[a].network = n /\ \A b \in AccountIds \ {a} : social'[b] = social[b]
    BY <2>1 DEF CInv, LinkRowsOK
  <2> QED BY <2>2, <2>3 DEF KInv, SecretsInv, OneRowPerPage
<1>3. ASSUME Expire PROVE KInv'
  <2>1. PICK i \in 1..Len(vault) : vault' = [vault EXCEPT ![i].fresh = FALSE]
    BY <1>3 DEF Expire
  <2>2. vault \in Seq(Credential) /\ vault[i] \in Credential
    BY DEF CInv, LinkRowsOK
  <2>3. vault' = [vault EXCEPT ![i] = [vault[i] EXCEPT !.fresh = FALSE]]
    BY <2>1, <2>2 DEF Credential
  <2>4. [vault[i] EXCEPT !.fresh = FALSE].secret = vault[i].secret
    BY <2>2 DEF Credential
  <2>5. Len(vault') = Len(vault) /\ \A j \in 1..Len(vault) : vault'[j].secret = vault[j].secret
    BY <2>2, <2>3, <2>4
  <2>6. social' = social /\ secret' = secret
    BY <1>3 DEF Expire
  <2> QED BY <2>5, <2>6 DEF KInv, SecretsInv, OneRowPerPage
<1>4. ASSUME ChangeSecret PROVE KInv'
  <2>1. social' = social /\ vault' = vault /\ secret' \in 1..MaxSecrets
    BY <1>4, ConnectionsAssumption DEF ChangeSecret, KInv, SecretsInv, ConnectionsAssumption
  <2> QED BY <2>1 DEF KInv, SecretsInv, OneRowPerPage
<1>5. ASSUME social' = social, vault' = vault, secret' = secret PROVE KInv'
  BY <1>5 DEF KInv, SecretsInv, OneRowPerPage
<1>6. ASSUME NEW c \in Connectors,
             FacebookCallback(c) \/ InstagramCallback(c) \/ FacebookBootstrap(c) \/ AbandonConnect(c)
      PROVE  KInv'
  BY <1>5, <1>6 DEF FacebookCallback, InstagramCallback, FacebookBootstrap, AbandonConnect, Finds
<1> QED BY <1>1, <1>2, <1>3, <1>4, <1>5, <1>6 DEF ConnectionsNext, connectionVars

\* A tenant has one account row per page, and every credential is encrypted with a secret
\* the deployment has had, whichever callbacks overlap.
THEOREM ConnectionsTypeCorrect == ConnectionsSpec => []ConnectionsTypeOK
<1>1. ConnectionsInit => KInv
  BY ConnectionsAssumption
     DEF ConnectionsInit, KInv, SecretsInv, OneRowPerPage, NoAccount, OldAccount, ConnectionsAssumption
<1>2. CInv /\ KInv /\ [ConnectionsNext]_connectionVars => KInv'
  BY KeysStep
<1>3. ASSUME CInv, KInv PROVE ConnectionsTypeOK
  <2>1. \A a \in AccountIds : social[a] = NoAccount \/
          social[a] \in [network : Networks, ext : Pages \union {NoPage, Sandbox},
                         status : {"connected", "sandbox_connected"}]
    BY <1>3, RowFacts DEF AccountRow
  <2>2. \A n \in Networks : connection[n] = NoConnection \/
          connection[n] \in [account : AccountIds, user : Pages \union {NoPage}, ref : 1..Len(vault)]
    BY <1>3, RowFacts DEF ConnectionRow, CInv, LinkInv, LinkOf
  <2>3. \A i \in 1..Len(vault) :
          vault[i] \in [network : Networks, page : Pages \union {Unknown}, secret : 1..MaxSecrets,
                        expires : BOOLEAN, fresh : BOOLEAN]
    <3>1. \A i \in 1..Len(vault) : vault[i] \in Credential /\ vault[i].secret \in 1..MaxSecrets
      BY <1>3 DEF CInv, LinkRowsOK, KInv, SecretsInv
    <3> QED BY <3>1 DEF Credential
  <2> QED BY <1>3, <2>1, <2>2, <2>3 DEF ConnectionsTypeOK, KInv, SecretsInv, OneRowPerPage, CInv, LinkRowsOK
<1> QED BY <1>1, <1>2, <1>3, ConnectionsInvariance, PTL DEF ConnectionsSpec
=============================================================================
