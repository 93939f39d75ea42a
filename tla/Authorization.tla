---------------------------- MODULE Authorization ----------------------------
(* The credentials of the cloud accounts, in the main process: OAuthService     *)
(* with its attempts to connect, the refreshes the backend causes through the   *)
(* broker, the loopback listener and the encrypted store. The user connects,    *)
(* cancels and disconnects between any two of their awaits.                     *)
EXTENDS Naturals, FiniteSets

CONSTANTS
  Providers,      \* cloud providers
  People,         \* accounts somebody can sign in to
  MaxConnects,    \* attempts to connect
  MaxRefreshes,   \* requests of the backend that need a new token
  MaxDisconnects  \* times the user disconnects a provider

ASSUME AuthorizationAssumption ==
  /\ IsFiniteSet(Providers) /\ IsFiniteSet(People)
  /\ MaxConnects \in Nat /\ MaxRefreshes \in Nat /\ MaxDisconnects \in Nat

VARIABLES
  store,         \* credentialStore: the refresh credential of a provider
  locked,        \* the secure storage of the system is not available
  tokens,        \* accessTokens
  operation,     \* credentialOperationIds, 0 when there is none
  operations,    \* ids given so far
  disconnecting, \* disconnectingProviders
  activeAttempt, \* activeAttemptId, 0 for null
  connects,      \* the calls of runConnect, by number
  refreshes,     \* the calls of getAccessCredential that wait for the provider
  account,       \* the public state
  era,           \* history: how often a provider was disconnected
  refused        \* history: providers whose last disconnect threw

authVars == <<store, locked, tokens, operation, operations, disconnecting, activeAttempt,
              connects, refreshes, account, era, refused>>

(* A credential and a token: whose, and since which disconnection of the        *)
(* provider they exist.                                                         *)
Credentials == [person : People, era : 0..MaxDisconnects]
NoCredential == [person |-> "nobody", era |-> 0]

(* What a connect awaits: the listener, the browser, the callback with a code,  *)
(* the token. A listener may outlive the call that made it.                     *)
ConnectAwaits == {"none", "listener", "browser", "callback", "token", "end"}
Connect == [awaits : ConnectAwaits, provider : Providers, expects : People \cup {"nobody"},
            listening : BOOLEAN, era : 0..MaxDisconnects]
Refresh == [waits : BOOLEAN, provider : Providers, operation : Nat, loaded : Credentials]

Statuses == {"disconnected", "connecting", "connected", "reconnect-required"}
Disconnected == [status |-> "disconnected", person |-> "nobody"]

AuthTypeOK ==
  /\ \A p \in Providers : /\ store[p] = NoCredential \/ store[p] \in Credentials
                          /\ tokens[p] = NoCredential \/ tokens[p] \in Credentials
  /\ locked \in BOOLEAN
  /\ operation \in [Providers -> 0..operations] /\ operations \in Nat
  /\ disconnecting \subseteq Providers /\ refused \subseteq Providers
  /\ activeAttempt \in 0..Cardinality(DOMAIN connects)
  /\ \A n \in DOMAIN connects : connects[n] \in Connect
  /\ \A r \in DOMAIN refreshes : refreshes[r] \in Refresh
  /\ account.status \in Statuses
  /\ era \in [Providers -> 0..MaxDisconnects]

AuthInit ==
  /\ store = [p \in Providers |-> NoCredential] /\ tokens = store
  /\ locked = FALSE
  /\ operation = [p \in Providers |-> 0] /\ operations = 0
  /\ disconnecting = {} /\ activeAttempt = 0
  /\ connects = <<>> /\ refreshes = <<>>
  /\ account = Disconnected
  /\ era = [p \in Providers |-> 0] /\ refused = {}

Last(f) == Cardinality(DOMAIN f)
Added(f, x) == [n \in 1..Last(f) + 1 |-> IF n \in DOMAIN f THEN f[n] ELSE x]

(* The store throws: its file exists and cannot be decrypted.                   *)
Unreadable == locked /\ \E p \in Providers : store[p] # NoCredential

-----------------------------------------------------------------------------
(* connect, reconnect: runConnect *)

(* reconnect expects the account of the stored credential, if there is one.     *)
StartConnect(p) ==
  /\ Last(connects) < MaxConnects
  /\ activeAttempt = 0 /\ p \notin disconnecting
  /\ \E expects \in {"nobody", store[p].person} :
       /\ expects # "nobody" => ~Unreadable
       /\ connects' = Added(connects, [awaits |-> "listener", provider |-> p,
                                       expects |-> expects, listening |-> FALSE, era |-> era[p]])
  /\ activeAttempt' = Last(connects')
  /\ account' = [status |-> "connecting", person |-> "nobody"]
  /\ UNCHANGED <<store, locked, tokens, operation, operations, disconnecting, refreshes, era, refused>>

IsCurrent(n) == activeAttempt = n
ConnectGoes(n, awaits) == connects' = [connects EXCEPT ![n].awaits = awaits]

(* catch and finally: what went wrong is shown when nobody has cancelled.       *)
ConnectFails(n) ==
  /\ ConnectGoes(n, "end")
  /\ IF IsCurrent(n)
     THEN /\ \E status \in {"disconnected", "reconnect-required"} :
               account' = [status |-> status, person |-> "nobody"]
          /\ activeAttempt' = 0
     ELSE UNCHANGED <<account, activeAttempt>>
  /\ UNCHANGED <<store, tokens>>

(* createLoopbackListener: an attempt cancelled meanwhile closes what it got.   *)
ListenerMade(n) ==
  /\ connects[n].awaits = "listener"
  /\ \/ ConnectFails(n)
     \/ /\ IF IsCurrent(n)
           THEN connects' = [connects EXCEPT ![n].awaits = "browser", ![n].listening = TRUE]
           ELSE ConnectGoes(n, "end")
        /\ UNCHANGED <<store, tokens, account, activeAttempt>>
  /\ UNCHANGED <<locked, operation, operations, disconnecting, refreshes, era, refused>>

(* openExternal: when it throws nobody closes the listener.                     *)
BrowserOpened(n) ==
  /\ connects[n].awaits = "browser"
  /\ \/ ConnectFails(n)
     \/ ConnectGoes(n, "callback") /\ UNCHANGED <<store, tokens, account, activeAttempt>>
  /\ UNCHANGED <<locked, operation, operations, disconnecting, refreshes, era, refused>>

(* The listener settles: a callback with a code; a callback refused for its     *)
(* state, a timeout, an error. One that was cancelled has settled before.       *)
CallbackComes(n) ==
  /\ connects[n].awaits = "callback"
  /\ \/ connects[n].listening /\ connects' = [connects EXCEPT ![n].awaits = "token", ![n].listening = FALSE]
        /\ UNCHANGED <<store, tokens, account, activeAttempt>>
     \/ ConnectFails(n)
  /\ UNCHANGED <<locked, operation, operations, disconnecting, refreshes, era, refused>>

ListenerTimesOut(n) ==
  /\ connects[n].awaits \in {"browser", "end"} /\ connects[n].listening
  /\ connects' = [connects EXCEPT ![n].listening = FALSE]
  /\ UNCHANGED <<store, locked, tokens, operation, operations, disconnecting, activeAttempt,
                 refreshes, account, era, refused>>

(* The token, the account it is for, and what is done with them; a credential   *)
(* that cannot be stored is a failure.                                          *)
MutantMayKeep(n) == TRUE
MayKeep(n) == IsCurrent(n)

TokenComes(n) ==
  /\ connects[n].awaits = "token"
  /\ \/ ConnectFails(n)
     \/ \E person \in People :
          /\ connects[n].expects \in {"nobody", person}
          /\ ~MayKeep(n) \/ ~locked
          /\ LET p == connects[n].provider
                 c == [person |-> person, era |-> connects[n].era]
             IN IF MayKeep(n)
                THEN /\ store' = [store EXCEPT ![p] = c] /\ tokens' = [tokens EXCEPT ![p] = c]
                     /\ account' = [status |-> "connected", person |-> person]
                     /\ activeAttempt' = IF IsCurrent(n) THEN 0 ELSE activeAttempt
                ELSE UNCHANGED <<store, tokens, account, activeAttempt>>
          /\ ConnectGoes(n, "end")
  /\ UNCHANGED <<locked, operation, operations, disconnecting, refreshes, era, refused>>

(* activeListener.cancel: the listener of the attempt that is active.           *)
ListenerCancelled ==
  connects' = [n \in DOMAIN connects |->
                 IF IsCurrent(n) THEN [connects[n] EXCEPT !.listening = FALSE] ELSE connects[n]]

Cancel ==
  /\ activeAttempt' = 0 /\ ListenerCancelled
  /\ account' = Disconnected
  /\ UNCHANGED <<store, locked, tokens, operation, operations, disconnecting, refreshes, era, refused>>

-----------------------------------------------------------------------------
(* disconnect *)

MutantInvalidated(p) == UNCHANGED <<operation, operations>>
Invalidated(p) ==
  operations' = operations + 1 /\ operation' = [operation EXCEPT ![p] = operations']

(* Until the provider is asked to revoke; any attempt to connect is cancelled.  *)
(* With nothing stored there is nothing to wait for.                            *)
Disconnect(p) ==
  /\ p \notin disconnecting /\ era[p] < MaxDisconnects
  /\ disconnecting' = IF Unreadable \/ store[p] = NoCredential THEN disconnecting
                      ELSE disconnecting \cup {p}
  /\ Invalidated(p)
  /\ activeAttempt' = 0 /\ ListenerCancelled
  /\ tokens' = [tokens EXCEPT ![p] = NoCredential]
  /\ account' = Disconnected
  /\ era' = [era EXCEPT ![p] = @ + 1]
  /\ refused' = IF Unreadable THEN refused \cup {p} ELSE refused \ {p}
  /\ UNCHANGED <<store, locked, refreshes>>

(* It answered or not; the credential is deleted, unless the storage refuses.   *)
EndDisconnect(p) ==
  /\ p \in disconnecting
  /\ disconnecting' = disconnecting \ {p}
  /\ Invalidated(p)
  /\ tokens' = [tokens EXCEPT ![p] = NoCredential]
  /\ IF Unreadable
     THEN refused' = refused \cup {p} /\ UNCHANGED store
     ELSE store' = [store EXCEPT ![p] = NoCredential] /\ UNCHANGED refused
  /\ UNCHANGED <<locked, activeAttempt, connects, refreshes, account, era>>

-----------------------------------------------------------------------------
(* getAccessCredential *)

(* Nothing usable in memory: the stored credential is sent to the provider.     *)
StartRefresh(p) ==
  /\ Last(refreshes) < MaxRefreshes
  /\ p \notin disconnecting /\ tokens[p] = NoCredential
  /\ store[p] # NoCredential /\ ~Unreadable
  /\ IF operation[p] = 0 THEN Invalidated(p) ELSE UNCHANGED <<operation, operations>>
  /\ refreshes' = Added(refreshes, [waits |-> TRUE, provider |-> p,
                                    operation |-> operation'[p], loaded |-> store[p]])
  /\ UNCHANGED <<store, locked, tokens, disconnecting, activeAttempt, connects, account, era, refused>>

IsCurrentRefresh(r) ==
  LET p == refreshes[r].provider
  IN p \notin disconnecting /\ operation[p] = refreshes[r].operation

(* The answer: refused; a token; a token and a new refresh token, which is      *)
(* saved with what was loaded.                                                  *)
RefreshEnds(r) ==
  /\ refreshes[r].waits
  /\ refreshes' = [refreshes EXCEPT ![r].waits = FALSE]
  /\ LET p == refreshes[r].provider
         c == refreshes[r].loaded
         failed == account' = [status |-> "reconnect-required", person |-> c.person]
     IN IF ~IsCurrentRefresh(r)
        THEN tokens' = [tokens EXCEPT ![p] = NoCredential] /\ UNCHANGED <<store, account>>
        ELSE \/ tokens' = [tokens EXCEPT ![p] = c] /\ UNCHANGED <<store, account>>
             \/ /\ ~locked /\ tokens' = [tokens EXCEPT ![p] = c]
                /\ store' = [store EXCEPT ![p] = c] /\ UNCHANGED account
             \/ tokens' = [tokens EXCEPT ![p] = NoCredential] /\ failed /\ UNCHANGED store
  /\ UNCHANGED <<locked, operation, operations, disconnecting, activeAttempt, connects, era, refused>>

Expires(p) ==
  /\ tokens[p] # NoCredential
  /\ tokens' = [tokens EXCEPT ![p] = NoCredential]
  /\ UNCHANGED <<store, locked, operation, operations, disconnecting, activeAttempt, connects,
                 refreshes, account, era, refused>>

(* The user locks or unlocks the storage of the system.                         *)
Lock ==
  /\ locked' = ~locked
  /\ UNCHANGED <<store, tokens, operation, operations, disconnecting, activeAttempt, connects,
                 refreshes, account, era, refused>>

AuthNext ==
  \/ \E p \in Providers : \/ StartConnect(p) \/ Disconnect(p) \/ EndDisconnect(p)
                          \/ StartRefresh(p) \/ Expires(p)
  \/ \E n \in DOMAIN connects : \/ ListenerMade(n) \/ BrowserOpened(n) \/ CallbackComes(n)
                                \/ ListenerTimesOut(n) \/ TokenComes(n)
  \/ \E r \in DOMAIN refreshes : RefreshEnds(r)
  \/ Cancel \/ Lock

AuthSpec == AuthInit /\ [][AuthNext]_authVars

-----------------------------------------------------------------------------
(* Properties *)

(* When a disconnect of a provider has returned, nothing of the account is      *)
(* left, and nothing that was under way brings it back: what is stored or in    *)
(* memory was signed in to since. While it is under way there is no token.      *)
DisconnectsAreFinal ==
  \A p \in Providers :
    /\ p \in disconnecting => tokens[p] = NoCredential
    /\ p \notin disconnecting \cup refused =>
         \A c \in {store[p], tokens[p]} : c = NoCredential \/ c.era = era[p]

=============================================================================
