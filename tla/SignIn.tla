-------------------------------- MODULE SignIn --------------------------------
(***************************************************************************)
(* Signing in: api/src/endpoints/auth.ts with the OIDC and GitHub          *)
(* providers. One browser, whose tabs share its cookies.                   *)
(***************************************************************************)
EXTENDS Naturals, FiniteSets

CONSTANTS
  Tabs,            \* tabs of the browser
  People,          \* people with an account at the identity provider
  Pages,           \* pages of the app a sign-in may return to
  Home, Elsewhere, \* the projects page; a page of another origin
  MaxLogins,       \* bound on the sign-ins begun
  MaxAccounts,     \* bound on the user rows created
  MaxSignFaults    \* bound on failures, sign-outs and closed accounts

\* What is assumed of the constants, where the module is instantiated.
SignAssumption == MaxLogins \in Nat /\ MaxAccounts \in Nat /\ MaxSignFaults \in Nat

VARIABLES
  identity,        \* AUTH_PROVIDER: "oidc" or "github"
  discovery,       \* #configPromise of the OIDC provider: "none", "kept" or "rejected"
  cookie,          \* the state cookie of the browser
  tab,             \* each tab's sign-in
  signedIn,        \* the user the token cookie names, or 0
  userOf,          \* the id of each person's row of users, or 0
  logins, accounts, signFaults

signVars == <<identity, discovery, cookie, tab, signedIn, userOf, logins, accounts, signFaults>>

NoCookie == [state |-> 0, page |-> Home]

SignTypeOK ==
  /\ identity \in {"oidc", "github"} /\ discovery \in {"none", "kept", "rejected"}
  /\ cookie \in [state : 0 .. MaxLogins, page : Pages \cup {Home}]
  /\ tab \in [Tabs -> [at : {"out", "idp", "finding", "saving", "in", "failed"},
                       state : 0 .. MaxLogins, asked : Pages \cup {Elsewhere},
                       landed : Pages \cup {Home}, who : People, had : 0 .. MaxAccounts]]
  /\ signedIn \in 0 .. MaxAccounts /\ userOf \in [People -> 0 .. MaxAccounts]
  /\ logins \in 0 .. MaxLogins /\ accounts \in 0 .. MaxAccounts
  /\ signFaults \in 0 .. MaxSignFaults

SignInit ==
  /\ identity \in {"oidc", "github"} /\ discovery = "none" /\ cookie = NoCookie
  /\ \E asked \in [Tabs -> Pages \cup {Elsewhere}], who \in [Tabs -> People] :
       tab = [t \in Tabs |-> [at |-> "out", state |-> 0, asked |-> asked[t], landed |-> Home,
                              who |-> who[t], had |-> 0]]
  /\ signedIn = 0 /\ userOf = [p \in People |-> 0]
  /\ logins = 0 /\ accounts = 0 /\ signFaults = 0

SignFault == signFaults < MaxSignFaults /\ signFaults' = signFaults + 1
Fails(t) == tab' = [tab EXCEPT ![t].at = "failed"]

----------------------------------------------------------------------------
\* isValidRedirectUrl, and what is taken instead.
Safe(page) == IF page = Elsewhere THEN Home ELSE page

\* login: the page to come back to, with what the tab asked for.
Asked(t) == Safe(tab[t].asked)

\* The state cookie of the browser is overwritten by the last tab that begins.
Begins(t) ==
  /\ cookie' = [state |-> logins', page |-> Asked(t)]
  /\ tab' = [tab EXCEPT ![t].at = "idp", ![t].state = logins']

MayBegin(t) == tab[t].at \in {"out", "failed"} /\ logins < MaxLogins /\ logins' = logins + 1

\* The discovery is attempted once per process, and its failure is kept like its success.
GetsConfig(outcome) ==
  /\ discovery' = outcome
  /\ IF discovery = "none" /\ outcome = "rejected" THEN SignFault
     ELSE discovery \in {"none", outcome} /\ UNCHANGED signFaults

BeginOidc(t) ==
  /\ identity = "oidc" /\ MayBegin(t)
  /\ \/ GetsConfig("kept") /\ Begins(t)
     \/ GetsConfig("rejected") /\ Fails(t) /\ UNCHANGED cookie
  /\ UNCHANGED <<identity, signedIn, userOf, accounts>>

BeginGitHub(t) ==
  /\ identity = "github" /\ MayBegin(t) /\ Begins(t)
  /\ UNCHANGED <<identity, discovery, signedIn, userOf, accounts, signFaults>>

\* The ten minutes of the cookie and of the token in it pass.
CookieExpires ==
  /\ cookie # NoCookie /\ cookie' = NoCookie /\ SignFault
  /\ UNCHANGED <<identity, discovery, tab, signedIn, userOf, logins, accounts>>

\* A provider that trusts the code it is given.
StateTrusted(t) == TRUE

\* The state that comes back is the one the cookie holds.
StateMatches(t) == cookie.state = tab[t].state

\* The cookie is spent whatever comes of it; the code that came back is exchanged for an
\* identity, which may fail.
Exchanges(t) ==
  /\ cookie # NoCookie /\ cookie' = NoCookie
  /\ \/ ~StateMatches(t) /\ Fails(t) /\ UNCHANGED signFaults
     \/ StateMatches(t) /\ Fails(t) /\ SignFault
     \/ /\ StateMatches(t) /\ UNCHANGED signFaults
        /\ tab' = [tab EXCEPT ![t].at = "finding", ![t].landed = Safe(cookie.page)]

SignRefuses(t) == cookie = NoCookie /\ Fails(t) /\ UNCHANGED <<cookie, signFaults>>

CompleteOidc(t) ==
  /\ identity = "oidc" /\ tab[t].at = "idp"
  /\ \/ SignRefuses(t) \/ Exchanges(t)
  /\ UNCHANGED <<identity, discovery, signedIn, userOf, logins, accounts>>

\* GitHub may send the browser back without a code: the cookie stays.
CompleteGitHub(t) ==
  /\ identity = "github" /\ tab[t].at = "idp"
  /\ \/ Fails(t) /\ SignFault /\ UNCHANGED cookie
     \/ SignRefuses(t) \/ Exchanges(t)
  /\ UNCHANGED <<identity, discovery, signedIn, userOf, logins, accounts>>

FindsUser(t) ==
  /\ tab[t].at = "finding"
  /\ tab' = [tab EXCEPT ![t].at = "saving", ![t].had = userOf[tab[t].who]]
  /\ UNCHANGED <<identity, discovery, cookie, signedIn, userOf, logins, accounts, signFaults>>

\* userTable.save: an INSERT of a new entity, or of one whose row has gone, else an UPDATE;
\* another row of the same subject refuses it. Then the session's cookies are set.
SavesUser(t) ==
  LET who == tab[t].who
      had == tab[t].had
      id == IF had = 0 THEN accounts + 1 ELSE had
  IN /\ tab[t].at = "saving" /\ id <= MaxAccounts
     /\ IF userOf[who] \in {0, had}
        THEN /\ userOf' = [userOf EXCEPT ![who] = id] /\ signedIn' = id
             /\ accounts' = IF had = 0 THEN id ELSE accounts
             /\ tab' = [tab EXCEPT ![t].at = "in"]
        ELSE Fails(t) /\ UNCHANGED <<userOf, signedIn, accounts>>
     /\ UNCHANGED <<identity, discovery, cookie, logins, signFaults>>

Logout ==
  /\ signedIn # 0 /\ signedIn' = 0 /\ SignFault
  /\ UNCHANGED <<identity, discovery, cookie, tab, userOf, logins, accounts>>

\* deleteAccount, which also clears the cookies of this browser.
DeleteAccount(p) ==
  /\ userOf[p] # 0 /\ signedIn = userOf[p] /\ SignFault
  /\ userOf' = [userOf EXCEPT ![p] = 0] /\ signedIn' = 0
  /\ UNCHANGED <<identity, discovery, cookie, tab, logins, accounts>>

SignNext ==
  \/ \E t \in Tabs : \/ BeginOidc(t) \/ BeginGitHub(t) \/ CompleteOidc(t) \/ CompleteGitHub(t)
                     \/ FindsUser(t) \/ SavesUser(t)
  \/ CookieExpires \/ Logout
  \/ \E p \in People : DeleteAccount(p)

SignSpec == SignInit /\ [][SignNext]_signVars

----------------------------------------------------------------------------
\* A sign-in ends on the page it was begun for, or on the projects page when that page is not
\* the app's: two tabs share one state cookie, and the answer that comes back to the first must
\* not be completed with what the second one left in it (completeLogin of both providers).
LoginIsOwn == \A t \in Tabs : tab[t].at = "in" => tab[t].landed = Safe(tab[t].asked)
===============================================================================
