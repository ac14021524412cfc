----------------------------- MODULE Connections -----------------------------
(***************************************************************************)
(* Connecting the pages of a tenant (api/oauth, api/admin/facebook-page    *)
(* and api/tenant-networks) and resolving the credential of an account to  *)
(* publish with (credential-resolver).  A tenant has one OAuthConnection   *)
(* per network, credentials are only ever added.                           *)
(***************************************************************************)
EXTENDS Naturals, Sequences, FiniteSets

CONSTANTS
  Pages,        \* pages and profiles of the networks
  EnvPage,      \* FACEBOOK_PAGE_ID
  AccountIds,   \* ids of social accounts
  Connectors,   \* concurrent callbacks and bootstraps
  MaxCredentials, \* bound on the credentials
  MaxSecrets    \* bound on the vault secrets

NoPage == "null"

ASSUME ConnectionsAssumption ==
  /\ EnvPage \in Pages /\ NoPage \notin Pages
  /\ MaxCredentials \in Nat /\ MaxSecrets \in Nat \ {0}

VARIABLES
  social,      \* SocialAccount rows
  connection,  \* OAuthConnection of every network
  vault,       \* CredentialVaultItem rows, oldest first
  secret,      \* vault secret of the deployment
  connector,   \* callbacks under way
  renamed      \* accounts whose page a callback replaced that had found none (history)

connectionVars == <<social, connection, vault, secret, connector, renamed>>

Networks == {"FACEBOOK", "INSTAGRAM"}
Unknown == "unknown"    \* an Instagram answer without a user id
Sandbox == "sandbox"    \* externalAccountId of what tenant-networks creates
NoAccount == [network |-> "none", ext |-> NoPage, status |-> "none"]
NoConnection == [account |-> "none", user |-> NoPage, ref |-> 0]
NotConnecting == [network |-> "none"]

ConnectionsTypeOK ==
  /\ \A a \in AccountIds : social[a] = NoAccount \/
       social[a] \in [network : Networks, ext : Pages \union {NoPage, Sandbox},
                      status : {"connected", "sandbox_connected"}]
  /\ \A n \in Networks : connection[n] = NoConnection \/
       connection[n] \in [account : AccountIds, user : Pages \union {NoPage}, ref : 1..Len(vault)]
  /\ \A i \in 1..Len(vault) :
       vault[i] \in [network : Networks, page : Pages \union {Unknown}, secret : 1..MaxSecrets,
                   expires : BOOLEAN, fresh : BOOLEAN]
  /\ secret \in 1..MaxSecrets
  /\ renamed \in SUBSET AccountIds
  /\ \A a, b \in AccountIds :
       social[a].network = social[b].network /\ social[a].ext # NoPage
       /\ social[a].ext = social[b].ext => a = b

Accounts(network, ext) == {a \in AccountIds : social[a].network = network /\ social[a].ext = ext}
Vacant == {a \in AccountIds : social[a] = NoAccount}

\* The account to update: that of the page, else one without a page, else a new one.
Choices(network, page) ==
  IF page # NoPage /\ Accounts(network, page) # {} THEN Accounts(network, page)
  ELSE IF Accounts(network, NoPage) # {} THEN Accounts(network, NoPage)
  ELSE Vacant

\* A request, with the token of a page in hand, looks for the account it will write.
Finds(c, n, page, expires) ==
  /\ connector[c] = NotConnecting
  /\ \E a \in Choices(n, page) :
       connector' = [connector EXCEPT ![c] =
         [network |-> n, page |-> page, expires |-> expires, account |-> a,
          exact |-> page # NoPage /\ social[a].ext = page,
          new |-> social[a] = NoAccount]]
  /\ UNCHANGED <<social, connection, vault, secret, renamed>>

\* The codes are exchanged, a page is selected and its token validated.
FacebookCallback(c) == \E page \in Pages : Finds(c, "FACEBOOK", page, TRUE)

InstagramCallback(c) == \E page \in Pages \union {NoPage} : Finds(c, "INSTAGRAM", page, TRUE)

\* An administrator connects the page of the environment, whose token does not expire.
FacebookBootstrap(c) == Finds(c, "FACEBOOK", EnvPage, FALSE)

\* Fault: the tables have no unique keys.
ClashesNever(c) == FALSE

\* Two rows of one page: the transaction is rolled back.
Clashes(c) ==
  LET q == connector[c] IN
  \/ q.page # NoPage /\ ~q.exact /\ Accounts(q.network, q.page) \ {q.account} # {}
  \/ q.new /\ social[q.account] # NoAccount

\* encryptJson with the secret of the deployment
Encrypted(q) ==
  [network |-> q.network, page |-> IF q.page = NoPage THEN Unknown ELSE q.page, secret |-> secret,
   expires |-> q.expires, fresh |-> TRUE]

\* Fault: a connection that is there already keeps its account.
LinkedKeepingAccount(q, ref) ==
  [account |-> IF connection[q.network] # NoConnection THEN connection[q.network].account ELSE q.account,
   user |-> q.page, ref |-> ref]

Linked(q, ref) == [account |-> q.account, user |-> q.page, ref |-> ref]

\* The update of an Instagram connection leaves providerUserId.
LinkedInstagram(q, ref) ==
  [Linked(q, ref) EXCEPT !.user =
     IF connection["INSTAGRAM"] # NoConnection THEN connection["INSTAGRAM"].user ELSE @]

\* Only an account that was found without a page, or is new, is given the page.
Named(q) == IF q.exact \/ q.page = NoPage THEN social[q.account].ext ELSE q.page

\* The connection is looked for when the account has been written, and so locked.  One that
\* another transaction creates meanwhile has the same id and rolls this one back.
Commits(c, link) ==
  LET q == connector[c] IN
  /\ ~Clashes(c) /\ Len(vault) < MaxCredentials
  /\ vault' = Append(vault, Encrypted(q))
  /\ social' = [social EXCEPT ![q.account] =
       [network |-> q.network, status |-> "connected", ext |-> Named(q)]]
  /\ renamed' = IF social[q.account].ext \in {NoPage, Named(q)} THEN renamed ELSE renamed \union {q.account}
  /\ connection' = [connection EXCEPT ![q.network] = link]
  /\ connector' = [connector EXCEPT ![c] = NotConnecting]
  /\ UNCHANGED secret

CommitFacebook(c) ==
  connector[c].network = "FACEBOOK" /\ Commits(c, Linked(connector[c], Len(vault) + 1))

CommitInstagram(c) ==
  connector[c].network = "INSTAGRAM" /\ Commits(c, LinkedInstagram(connector[c], Len(vault) + 1))

\* The transaction is rolled back, for one of the two reasons or another, or the request is
\* cut off.
AbandonConnect(c) ==
  /\ connector[c] # NotConnecting
  /\ connector' = [connector EXCEPT ![c] = NotConnecting]
  /\ UNCHANGED <<social, connection, vault, secret, renamed>>

\* tenant-networks gives a network without any account a sandbox one.
SelectNetwork(n) ==
  /\ \A a \in AccountIds : social[a].network # n
  /\ \E a \in Vacant :
       social' = [social EXCEPT ![a] = [network |-> n, ext |-> Sandbox, status |-> "sandbox_connected"]]
  /\ UNCHANGED <<connection, vault, secret, connector, renamed>>

\* The expiry of a credential is that of the connection it was stored with.
Expire ==
  /\ \E i \in 1..Len(vault) :
       vault[i].expires /\ vault[i].fresh /\ vault' = [vault EXCEPT ![i].fresh = FALSE]
  /\ UNCHANGED <<social, connection, secret, connector, renamed>>

\* The deployment gets another TOKEN_VAULT_SECRET.
ChangeSecret ==
  /\ secret < MaxSecrets /\ secret' = secret + 1
  /\ UNCHANGED <<social, connection, vault, connector, renamed>>

\* A row of before externalAccountId was written, which the callbacks still look for
OldAccount(n) == [network |-> n, ext |-> NoPage, status |-> "connected"]

ConnectionsInit ==
  /\ social \in [AccountIds -> {NoAccount} \union {OldAccount(n) : n \in Networks}]
  /\ connection = [n \in Networks |-> NoConnection]
  /\ vault = <<>>
  /\ secret = 1
  /\ connector = [c \in Connectors |-> NotConnecting]
  /\ renamed = {}

ConnectionsNext ==
  \/ \E c \in Connectors :
       \/ FacebookCallback(c) \/ InstagramCallback(c) \/ FacebookBootstrap(c)
       \/ CommitFacebook(c) \/ CommitInstagram(c) \/ AbandonConnect(c)
  \/ \E n \in Networks : SelectNetwork(n)
  \/ Expire \/ ChangeSecret

ConnectionsSpec == ConnectionsInit /\ [][ConnectionsNext]_connectionVars

-----------------------------------------------------------------------------
\* resolveAndDecryptOAuthCredential: does account a get a token?
Resolves(a) ==
  LET link == connection[social[a].network]
      item == vault[link.ref]
  IN  /\ social[a] # NoAccount /\ link # NoConnection /\ link.account = a
      /\ item.network = social[a].network /\ item.fresh /\ item.secret = secret

TokenOf(a) == vault[connection[social[a].network].ref]
TargetOf(a) == connection[social[a].network].user

\* Whichever callbacks overlap: a Facebook post goes to the page its token was given for,
\* and a token that is resolved for an account was given for the page of that account.
\* Only an account that two callbacks found without a page, so that the page of one was
\* replaced by that of the other, may get the token of the page it had: a third callback
\* found it by that page and writes no page.
TokenFitsAccount ==
  \A a \in AccountIds : Resolves(a) =>
    /\ a \notin renamed => TokenOf(a).page \in {social[a].ext, Unknown}
    /\ social[a].network = "FACEBOOK" => TargetOf(a) = TokenOf(a).page
=============================================================================
