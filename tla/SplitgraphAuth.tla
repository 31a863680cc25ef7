--------------------------- MODULE SplitgraphAuth ---------------------------
(***************************************************************************)
(* Who a Splitgraph data context speaks for.                               *)
(*                                                                         *)
(* A DbSplitgraph keeps one credential.  The application replaces it with  *)
(* setAuthenticatedCredential, and every fetchAccessToken exchanges the    *)
(* keypair it read when it was called for a token, which replaces the      *)
(* credential when the answer comes: two calls, or a call and a            *)
(* replacement, may overlap.  The plugins of the db compute the headers    *)
(* of each GraphQL request when they send it, from two sources: the        *)
(* credential of the moment, and the one the default plugins were built    *)
(* with.  The HTTP client made by the db has a copy of its own.            *)
(***************************************************************************)
EXTENDS Naturals

CONSTANTS
    Accounts,   \* users of Splitgraph that own a keypair
    Calls,      \* calls of fetchAccessToken
    MaxTokens,  \* bound: how many tokens the auth service issues per account
    Undefined   \* JavaScript's undefined, and a header that is not set

(***************************************************************************)
(* A key and its secret are represented by the account that owns them, a   *)
(* token by its account and a number; number 0 is a token the application  *)
(* already has.  `anonymous' is a property that options may leave out.     *)
(***************************************************************************)
Tokens == [account : Accounts \cup {Undefined}, n : 0 .. MaxTokens]

Credentials ==
    [anonymous : {"true", "false", "absent"}, token : Tokens \cup {Undefined},
     apiKey : Accounts \cup {Undefined}, apiSecret : Accounts \cup {Undefined}]

ASSUME AuthAssumption ==
    MaxTokens \in Nat /\ Undefined \notin Accounts \cup Tokens \cup Credentials

\* What an application may pass where CredentialOptions are expected.
KeypairOptions ==
    {[anonymous |-> anon, token |-> Undefined, apiKey |-> a, apiSecret |-> a] :
        anon \in {"false", "absent"}, a \in Accounts}
TokenOptions ==
    {[anonymous |-> anon, token |-> [account |-> a, n |-> 0],
      apiKey |-> Undefined, apiSecret |-> Undefined] :
        anon \in {"false", "absent"}, a \in Accounts}
AnonymousOptions ==
    {[anonymous |-> "true", token |-> [account |-> Undefined, n |-> 0],
      apiKey |-> Undefined, apiSecret |-> Undefined]}
CredentialOptions == KeypairOptions \cup TokenOptions \cup AnonymousOptions

VARIABLES
    current,    \* this.authenticatedCredential of the db
    baked,      \* the credential captured by makeDefaultPluginList
    client,     \* the credential of the HTTP client, Undefined before there is one
    calls,      \* calls[c]: the progress of a call of fetchAccessToken
    issued,     \* issued[a]: how many tokens the auth service issued for a
    sent,       \* the request sent last: its sender, headers, credential and owner
    granted,    \* history: the tokens of the answers that reported success
    owner,      \* history: the account of the credential the db was given last
    clientOwner \* history: the account the client was given last

vars == <<current, baked, client, calls, issued, sent, granted, owner, clientOwner>>

-----------------------------------------------------------------------------
isTokenCredential(cred) == cred.token # Undefined
isAnonymousTokenCredential(cred) == isTokenCredential(cred) /\ cred.anonymous = "true"
isKeypairCredential(cred) ==
    cred.anonymous # "true" /\ cred.apiKey # Undefined /\ cred.apiSecret # Undefined

\* The credential made of options; null stands for Undefined here.
Credential(options) ==
    IF options = Undefined THEN CHOOSE cred \in AnonymousOptions : TRUE
    ELSE IF options.anonymous = "true" THEN options
    ELSE [options EXCEPT !.anonymous = "false"]

HeaderNames == {"Authorization", "X-API-Key", "X-API-Secret"}
NoHeaders == [name \in HeaderNames |-> Undefined]

makeAuthHeaders(cred) ==
    IF isAnonymousTokenCredential(cred) THEN NoHeaders
    ELSE IF isTokenCredential(cred) THEN [NoHeaders EXCEPT !["Authorization"] = cred.token]
    ELSE [NoHeaders EXCEPT !["X-API-Key"] = cred.apiKey, !["X-API-Secret"] = cred.apiSecret]

\* { ...headers, ...more }
Spread(headers, more) ==
    [name \in HeaderNames |-> IF more[name] # Undefined THEN more[name] ELSE headers[name]]

\* What makeTransformRequestHeadersForAuthenticatedRequest(cred) does to headers.
WithAuth(cred, headers) ==
    IF cred = Undefined THEN headers ELSE Spread(headers, makeAuthHeaders(cred))

\* Mutant: the db's configuration is lost when the plugin is given its options.
PluginHeadersOfPlugin == WithAuth(baked, NoHeaders)

(***************************************************************************)
(* The headers of a request of a plugin prepared by withOptions: the ones  *)
(* the plugin was built with, then those the db injects, which are the     *)
(* db's own passed once more through the plugin's.                         *)
(***************************************************************************)
PluginHeaders ==
    LET withOriginal == Spread(NoHeaders, WithAuth(baked, NoHeaders))
        injected     == WithAuth(baked, WithAuth(current, withOriginal))
    IN  Spread(withOriginal, injected)

AccountOf(cred) ==
    IF cred = Undefined THEN Undefined
    ELSE IF isTokenCredential(cred) THEN cred.token.account ELSE cred.apiKey

-----------------------------------------------------------------------------
(***************************************************************************)
(* makeSplitgraphHTTPContext(opts): the first credential that is given, in *)
(* the order in which it looks at them.                                    *)
(***************************************************************************)
Either(first, second) == IF first # Undefined THEN first ELSE second

ContextCredential(opts) ==
    Either(opts.db, Either(opts.authenticated,
        IF opts.any # Undefined /\ opts.any.anonymous # "absent" THEN opts.any ELSE Undefined))

ContextOptions ==
    LET MaybeOptions == CredentialOptions \cup {Undefined}
    IN  [db : MaybeOptions, authenticated : MaybeOptions, any : MaybeOptions,
         client : MaybeOptions]

\* The state after the constructor stored `cred', unless it threw.
Constructed(cred) ==
    /\ cred # Undefined => Credential(cred).anonymous = "false"
    /\ current = IF cred = Undefined THEN Undefined ELSE Credential(cred)
    /\ owner = AccountOf(current)

InitContext ==
    \E opts \in ContextOptions :
        /\ Constructed(ContextCredential(opts))
        /\ baked \in {opts.db, Undefined}     \* Undefined: plugins of the caller
        /\ client = Credential(Either(opts.client, Either(opts.authenticated, opts.any)))

InitDb ==
    \E cred \in CredentialOptions \cup {Undefined} :
        /\ Constructed(cred)
        /\ baked \in {cred, Undefined}
        /\ client = Undefined

NoCall == [pc |-> "idle", cred |-> Undefined, success |-> FALSE, token |-> Undefined,
           overtaken |-> FALSE]

Init ==
    /\ InitContext \/ InitDb
    /\ calls = [c \in Calls |-> NoCall]
    /\ issued = [a \in Accounts |-> 0]
    /\ sent = [by |-> "none", headers |-> NoHeaders, cred |-> Undefined, owner |-> Undefined]
    /\ granted = {} /\ clientOwner = AccountOf(client)

-----------------------------------------------------------------------------
\* The application replaces the db's credential; an anonymous one throws.
SetAuthenticatedCredential(options) ==
    /\ Credential(options).anonymous = "false"
    /\ current' = Credential(options)
    /\ owner' = AccountOf(current')
    /\ calls' = [c \in Calls |-> [calls[c] EXCEPT !.overtaken = @ \/ calls[c].pc = "posted"]]
    /\ UNCHANGED <<baked, client, issued, sent, granted, clientOwner>>

\* Mutant: the credential of the constructor's options is exchanged.
FetchAccessTokenOfOptions(c) ==
    /\ calls[c].pc = "idle"
    /\ baked # Undefined /\ isKeypairCredential(baked)
    /\ calls' = [calls EXCEPT ![c].cred = baked, ![c].pc = "posted"]
    /\ UNCHANGED <<current, baked, client, issued, sent, granted, owner, clientOwner>>

(***************************************************************************)
(* fetchAccessToken reads the credential.  Without one it throws (reading  *)
(* a property of undefined), a token alone is returned as it is, and a     *)
(* keypair is posted to the auth service.                                  *)
(***************************************************************************)
FetchAccessToken(c) ==
    /\ calls[c].pc = "idle"
    /\ calls' = [calls EXCEPT
           ![c].cred = current,
           ![c].pc = IF current = Undefined THEN "threw"
                     ELSE IF isTokenCredential(current) /\ current.apiKey = Undefined
                                                        /\ current.apiSecret = Undefined
                          THEN "skipped"
                     ELSE IF current.apiKey = Undefined \/ current.apiSecret = Undefined
                          THEN "threw"
                     ELSE "posted"]
    /\ UNCHANGED <<current, baked, client, issued, sent, granted, owner, clientOwner>>

\* The auth service issues a token, and reports success or not.
IssueAccessToken(c) ==
    /\ calls[c].pc = "posted" /\ calls[c].token = Undefined
    /\ LET account == calls[c].cred.apiKey
           token   == [account |-> account, n |-> issued[account] + 1]
       IN  /\ issued[account] < MaxTokens
           /\ issued' = [issued EXCEPT ![account] = @ + 1]
           /\ \E success \in BOOLEAN :
                  /\ calls' = [calls EXCEPT ![c].token = token, ![c].success = success]
                  /\ granted' = IF success THEN granted \cup {token} ELSE granted
    /\ UNCHANGED <<current, baked, client, sent, owner, clientOwner>>

\* Mutant: a token is taken whether or not the answer reports success.
OnAccessTokenUnchecked(c) ==
    /\ calls[c].pc = "posted" /\ calls[c].token # Undefined
    /\ calls' = [calls EXCEPT ![c].pc = "returned"]
    /\ current' = [anonymous |-> "false", token |-> calls[c].token,
                   apiKey |-> Undefined, apiSecret |-> Undefined]
    /\ UNCHANGED <<baked, client, issued, sent, granted, owner, clientOwner>>

\* The answer of the auth service: its token becomes the db's credential.
OnAccessToken(c) ==
    /\ calls[c].pc = "posted" /\ calls[c].token # Undefined
    /\ \/ /\ calls[c].success
          /\ calls' = [calls EXCEPT ![c].pc = "returned"]
          /\ current' = [anonymous |-> "false", token |-> calls[c].token,
                         apiKey |-> Undefined, apiSecret |-> Undefined]
       \/ /\ ~calls[c].success
          /\ calls' = [calls EXCEPT ![c].pc = "threw"]
          /\ UNCHANGED current
    /\ UNCHANGED <<baked, client, issued, sent, granted, owner, clientOwner>>

\* The request or its answer is lost, or is an HTTP error: the call throws.
OnFetchError(c) ==
    /\ calls[c].pc = "posted"
    /\ calls' = [calls EXCEPT ![c].pc = "threw"]
    /\ UNCHANGED <<current, baked, client, issued, sent, granted, owner, clientOwner>>

\* An exchange that was overtaken by a new credential, and replaced it nevertheless.
Lost(c) == calls[c].overtaken /\ calls[c].pc = "returned"

\* Whom the db is to speak for: after a lost race, whomever the exchange was for.
DbOwner == IF \E c \in Calls : Lost(c) THEN AccountOf(current) ELSE owner

\* A running import or export sends its next GraphQL request.
SendPluginRequest ==
    /\ sent' = [by |-> "plugin", headers |-> PluginHeaders, cred |-> current,
                owner |-> DbOwner]
    /\ UNCHANGED <<current, baked, client, calls, issued, granted, owner, clientOwner>>

\* Mutant: the client gets the credential of the constructor's options.
MakeHTTPClientOfOptions ==
    /\ \/ /\ client' = Credential(IF baked # Undefined THEN baked ELSE current)
          /\ clientOwner' = DbOwner
       \/ \E options \in CredentialOptions \cup {Undefined} :
              client' = Credential(options) /\ clientOwner' = AccountOf(options)
    /\ UNCHANGED <<current, baked, calls, issued, sent, granted, owner>>

(***************************************************************************)
(* makeHTTPClient: the client gets a copy of the db's credential, unless   *)
(* the caller's options name one, or null.                                 *)
(***************************************************************************)
MakeHTTPClient ==
    /\ \/ client' = Credential(current) /\ clientOwner' = DbOwner
       \/ \E options \in CredentialOptions \cup {Undefined} :
              client' = Credential(options) /\ clientOwner' = AccountOf(options)
    /\ UNCHANGED <<current, baked, calls, issued, sent, granted, owner>>

\* setCredential of the client, null included.
SetCredential(options) ==
    /\ client # Undefined
    /\ client' = Credential(options) /\ clientOwner' = AccountOf(options)
    /\ UNCHANGED <<current, baked, calls, issued, sent, granted, owner>>

\* makeFetchOptions of the client's strategies, called by execute.
SendQuery ==
    /\ client # Undefined
    /\ sent' = [by |-> "client", headers |-> WithAuth(client, NoHeaders), cred |-> client,
                owner |-> clientOwner]
    /\ UNCHANGED <<current, baked, client, calls, issued, granted, owner, clientOwner>>

Next ==
    \/ \E options \in CredentialOptions : SetAuthenticatedCredential(options)
    \/ \E c \in Calls : FetchAccessToken(c) \/ IssueAccessToken(c) \/ OnAccessToken(c)
                            \/ OnFetchError(c)
    \/ SendPluginRequest
    \/ MakeHTTPClient
    \/ \E options \in CredentialOptions \cup {Undefined} : SetCredential(options)
    \/ SendQuery

Spec == Init /\ [][Next]_vars

-----------------------------------------------------------------------------
(***************************************************************************)
(* Properties                                                              *)
(***************************************************************************)
(* Every variable has a value of its type; a credential the db holds is    *)
(* never an anonymous one, whatever was passed to its constructor, to      *)
(* setAuthenticatedCredential or answered to fetchAccessToken.             *)
TypeOK ==
    /\ current \in {cred \in Credentials : cred.anonymous = "false"} \cup {Undefined}
    /\ baked \in Credentials \cup {Undefined}
    /\ client \in {cred \in Credentials : cred.anonymous # "absent"} \cup {Undefined}
    /\ calls \in [Calls -> [pc : {"idle", "posted", "skipped", "returned", "threw"},
                            cred : Credentials \cup {Undefined}, success : BOOLEAN,
                            token : Tokens \cup {Undefined}, overtaken : BOOLEAN]]
    /\ issued \in [Accounts -> 0 .. MaxTokens]
    /\ sent \in [by : {"none", "plugin", "client"},
                 headers : [HeaderNames -> Tokens \cup Accounts \cup {Undefined}],
                 cred : Credentials \cup {Undefined}, owner : Accounts \cup {Undefined}]
    /\ granted \subseteq Tokens
    /\ owner \in Accounts \cup {Undefined} /\ clientOwner \in Accounts \cup {Undefined}

(* A db whose plugins were not built with a credential authenticates each  *)
(* GraphQL request with the credential it has at that moment, also in the  *)
(* middle of an import (db-splitgraph.test.ts: "transforms headers using   *)
(* _current_ value of authenticatedCredential").                           *)
RequestsFollowCurrent ==
    (sent.by = "plugin" /\ baked = Undefined)
        => sent.headers = WithAuth(sent.cred, NoHeaders)

(* Db and client each speak for the account the application meant them     *)
(* for, however credentials were replaced and exchanged in between.  A     *)
(* client speaks for the account it was given last, by its options or by   *)
(* setCredential, or, if it was made without a credential of its own, for  *)
(* the one the db had been given by then: never for one the db was given   *)
(* later, so that the two may diverge.  Plugins without a credential of    *)
(* their own speak for the account the db was given last.  After a race    *)
(* that SpeaksForLastGiven excepts, the db's account is the one it has.    *)
Speakers(headers) ==
    {IF headers["Authorization"] # Undefined THEN headers["Authorization"].account
     ELSE headers["X-API-Key"]} \ {Undefined}
RequestsSpeakForGiven ==
    (sent.by = "client" \/ (sent.by = "plugin" /\ baked = Undefined))
        => Speakers(sent.headers) = {sent.owner} \ {Undefined}

(* The db never holds a token that the auth service did not report as a    *)
(* success, unless the application supplied it.                            *)
HoldsGrantedTokens ==
    (current # Undefined /\ isTokenCredential(current))
        => current.token.n = 0 \/ current.token \in granted

(* The account the db speaks for is that of the credential the application *)
(* gave last.  The only exception is the race in the code: an exchange     *)
(* that began before that credential was given and answered after it.      *)
SpeaksForLastGiven ==
    AccountOf(current) # owner => \E c \in Calls : Lost(c)

(* The inductive invariant behind these: a credential is a keypair or a    *)
(* token, only a call that was not answered yet may still change owners,   *)
(* and until a race was lost each such call exchanges a keypair of the     *)
(* owner, unless it was overtaken.  The client's credential is of the      *)
(* account it was given.                                                   *)
Shapes ==
    /\ current # Undefined /\ isTokenCredential(current) => current.apiKey = Undefined
    /\ (client # Undefined /\ client.anonymous = "true") =>
           isTokenCredential(client) /\ client.token.account = Undefined
ClientIsGiven == AccountOf(client) = clientOwner
Exchanges ==
    \A c \in Calls :
        /\ calls[c].pc = "idle" => calls[c].token = Undefined
        /\ calls[c].pc = "posted" =>
               calls[c].cred # Undefined /\ calls[c].cred.apiKey # Undefined
        /\ calls[c].token # Undefined =>
               calls[c].cred # Undefined /\ calls[c].token.account = calls[c].cred.apiKey
        /\ calls[c].success => calls[c].token \in granted
OwnedUnlessLost ==
    \/ \E c \in Calls : Lost(c)
    \/ /\ AccountOf(current) = owner
       /\ \A c \in Calls : (calls[c].pc = "posted" /\ ~calls[c].overtaken)
                              => calls[c].cred.apiKey = owner
IInv ==
    /\ TypeOK /\ Shapes /\ ClientIsGiven /\ Exchanges /\ OwnedUnlessLost
    /\ RequestsFollowCurrent /\ RequestsSpeakForGiven /\ HoldsGrantedTokens

(* What the comment on pluginConfig asks for ("we want this to update when *)
(* this.authenticatedCredential updates"): each request of a plugin is     *)
(* authenticated by the current credential, whatever the plugins are.      *)
(* Violated: the default plugins keep sending the credential they were     *)
(* built with.                                                             *)
HeadersFollowCredential ==
    sent.by = "plugin" => sent.headers = WithAuth(sent.cred, NoHeaders)
=============================================================================
