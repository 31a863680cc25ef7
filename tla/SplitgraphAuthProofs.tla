------------------------ MODULE SplitgraphAuthProofs ------------------------
(***************************************************************************)
(* Proofs about SplitgraphAuth, for any accounts, any number of calls of   *)
(* fetchAccessToken and any number of tokens.                              *)
(***************************************************************************)
EXTENDS SplitgraphAuth, TLAPS

DbCredentials == {cred \in Credentials : cred.anonymous = "false"} \cup {Undefined}
ClientCredentials == {cred \in Credentials : cred.anonymous # "absent"} \cup {Undefined}
Progress ==
    [pc : {"idle", "posted", "skipped", "returned", "threw"},
     cred : Credentials \cup {Undefined}, success : BOOLEAN,
     token : Tokens \cup {Undefined}, overtaken : BOOLEAN]

(* The options an application may pass are credentials: a keypair or a     *)
(* token of its own, and an anonymous one always has a token.              *)
LEMMA OptionsAreCredentials ==
    ASSUME NEW options \in CredentialOptions
    PROVE  /\ options \in Credentials /\ options # Undefined
           /\ options.token # Undefined => options.apiKey = Undefined /\ options.token.n = 0
           /\ options.anonymous = "true" =>
                  options.token # Undefined /\ options.token.account = Undefined
<1>1. 0 \in 0 .. MaxTokens
  BY AuthAssumption
<1>2. Undefined \notin Tokens /\ Undefined \notin Accounts /\ Undefined \notin Credentials
  BY AuthAssumption
<1>3. \A a \in Accounts \cup {Undefined} : [account |-> a, n |-> 0] \in Tokens
  BY <1>1 DEF Tokens
<1>4. CASE options \in KeypairOptions
  BY <1>2, <1>4 DEF KeypairOptions, Credentials
<1>5. CASE options \in TokenOptions
  BY <1>2, <1>3, <1>5 DEF TokenOptions, Credentials
<1>6. CASE options \in AnonymousOptions
  BY <1>2, <1>3, <1>6 DEF AnonymousOptions, Credentials
<1> QED
  BY <1>4, <1>5, <1>6 DEF CredentialOptions

(* What Credential makes of options, null included.                        *)
LEMMA CredentialIsShaped ==
    ASSUME NEW options \in CredentialOptions \cup {Undefined}
    PROVE  /\ Credential(options) \in Credentials /\ Credential(options) # Undefined
           /\ Credential(options).anonymous \in {"true", "false"}
           /\ Credential(options).token # Undefined =>
                  Credential(options).apiKey = Undefined /\ Credential(options).token.n = 0
           /\ Credential(options).anonymous = "true" =>
                  Credential(options).token # Undefined /\ AccountOf(Credential(options)) = Undefined
           /\ AccountOf(Credential(options)) = AccountOf(options)
<1>1. Undefined \notin Credentials
  BY AuthAssumption
<1>2. CASE options = Undefined
  <2>1. AnonymousOptions \subseteq CredentialOptions /\ AnonymousOptions # {}
    BY DEF CredentialOptions, AnonymousOptions
  <2>2. Credential(options) \in AnonymousOptions
    BY <1>2, <2>1 DEF Credential
  <2>3. Credential(options).anonymous = "true"
    BY <2>2 DEF AnonymousOptions
  <2> QED
    BY <1>2, <2>1, <2>2, <2>3, OptionsAreCredentials DEF AccountOf, isTokenCredential
<1>3. CASE options # Undefined /\ options.anonymous = "true"
  BY <1>3, OptionsAreCredentials DEF Credential, AccountOf, isTokenCredential
<1>4. CASE options # Undefined /\ options.anonymous # "true"
  <2>1. options \in Credentials
    BY <1>4, OptionsAreCredentials
  <2>2. Credential(options) = [options EXCEPT !.anonymous = "false"]
    BY <1>4 DEF Credential
  <2>3. /\ Credential(options) \in Credentials
        /\ Credential(options).anonymous = "false"
        /\ Credential(options).token = options.token
        /\ Credential(options).apiKey = options.apiKey
    BY <2>1, <2>2 DEF Credentials
  <2> QED
    BY <1>1, <1>4, <2>1, <2>3, OptionsAreCredentials DEF AccountOf, isTokenCredential
<1> QED
  BY <1>2, <1>3, <1>4

LEMMA AccountOfType ==
    ASSUME NEW cred \in Credentials \cup {Undefined}
    PROVE  AccountOf(cred) \in Accounts \cup {Undefined}
BY DEF AccountOf, isTokenCredential, Credentials, Tokens

(* The headers of a credential hold tokens, accounts or nothing.           *)
LEMMA HeadersType ==
    ASSUME NEW cred \in Credentials \cup {Undefined},
           NEW headers \in [HeaderNames -> Tokens \cup Accounts \cup {Undefined}]
    PROVE  WithAuth(cred, headers) \in [HeaderNames -> Tokens \cup Accounts \cup {Undefined}]
<1>1. NoHeaders \in [HeaderNames -> Tokens \cup Accounts \cup {Undefined}]
  BY DEF NoHeaders
<1>2. CASE cred = Undefined
  BY <1>2 DEF WithAuth
<1>3. CASE cred # Undefined
  <2>1. makeAuthHeaders(cred) \in [HeaderNames -> Tokens \cup Accounts \cup {Undefined}]
    BY <1>1, <1>3 DEF makeAuthHeaders, isTokenCredential, Credentials
  <2> QED
    BY <1>3, <2>1 DEF WithAuth, Spread
<1> QED
  BY <1>2, <1>3

(* The headers of a credential speak for its account, and for nobody if it *)
(* is an anonymous one.                                                    *)
LEMMA SpeakersOfCredential ==
    ASSUME NEW cred \in Credentials \cup {Undefined},
           (cred # Undefined /\ cred.anonymous = "true") =>
               isTokenCredential(cred) /\ cred.token.account = Undefined
    PROVE  Speakers(WithAuth(cred, NoHeaders)) = {AccountOf(cred)} \ {Undefined}
<1>1. CASE cred = Undefined
  BY <1>1 DEF Speakers, WithAuth, NoHeaders, HeaderNames, AccountOf
<1>2. CASE cred # Undefined
  <2>1. WithAuth(cred, NoHeaders) = Spread(NoHeaders, makeAuthHeaders(cred))
    BY <1>2 DEF WithAuth
  <2>2. CASE isAnonymousTokenCredential(cred)
    <3>1. WithAuth(cred, NoHeaders) = NoHeaders
      BY <2>1, <2>2 DEF makeAuthHeaders, Spread, NoHeaders
    <3> QED
      BY <3>1, <2>2, <1>2
      DEF Speakers, NoHeaders, HeaderNames, AccountOf, isAnonymousTokenCredential
  <2>3. CASE ~isAnonymousTokenCredential(cred) /\ isTokenCredential(cred)
    <3>1. WithAuth(cred, NoHeaders)["Authorization"] = cred.token /\ cred.token # Undefined
      BY <2>1, <2>3 DEF makeAuthHeaders, Spread, NoHeaders, HeaderNames, isTokenCredential
    <3> QED
      BY <3>1, <2>3, <1>2 DEF Speakers, AccountOf
  <2>4. CASE ~isTokenCredential(cred)
    <3>1. /\ WithAuth(cred, NoHeaders)["Authorization"] = Undefined
          /\ WithAuth(cred, NoHeaders)["X-API-Key"] = cred.apiKey
      BY <2>1, <2>4
      DEF makeAuthHeaders, Spread, NoHeaders, HeaderNames, isAnonymousTokenCredential
    <3> QED
      BY <3>1, <2>4, <1>2 DEF Speakers, AccountOf
  <2> QED
    BY <2>2, <2>3, <2>4
<1> QED
  BY <1>1, <1>2

LEMMA InitIInv == Init => IInv
<1> SUFFICES ASSUME Init PROVE IInv
  OBVIOUS
<1>1. /\ \/ current = Undefined
         \/ \E cred \in CredentialOptions :
                current = Credential(cred) /\ Credential(cred).anonymous = "false"
      /\ owner = AccountOf(current)
      /\ baked \in CredentialOptions \cup {Undefined}
      /\ client = Undefined \/ \E cred \in CredentialOptions \cup {Undefined} :
                                   client = Credential(cred)
      /\ clientOwner = AccountOf(client)
  <2>1. CASE InitContext
    <3>1. PICK opts \in ContextOptions :
             /\ Constructed(ContextCredential(opts))
             /\ baked \in {opts.db, Undefined}
             /\ client = Credential(Either(opts.client, Either(opts.authenticated, opts.any)))
      BY <2>1 DEF InitContext
    <3>2. /\ ContextCredential(opts) \in CredentialOptions \cup {Undefined}
          /\ Either(opts.client, Either(opts.authenticated, opts.any))
                \in CredentialOptions \cup {Undefined}
          /\ opts.db \in CredentialOptions \cup {Undefined}
      BY DEF ContextOptions, ContextCredential, Either
    <3> QED
      BY <3>1, <3>2 DEF Constructed, Init
  <2>2. CASE InitDb
    BY <2>2 DEF InitDb, Constructed, Init
  <2> QED
    BY <2>1, <2>2 DEF Init
<1>2. /\ calls = [c \in Calls |-> NoCall] /\ issued = [a \in Accounts |-> 0]
      /\ sent = [by |-> "none", headers |-> NoHeaders, cred |-> Undefined,
                 owner |-> Undefined]
      /\ granted = {}
  BY DEF Init
<1>3. current \in DbCredentials /\ client \in ClientCredentials /\ baked \in Credentials \cup {Undefined}
  BY <1>1, CredentialIsShaped, OptionsAreCredentials DEF DbCredentials, ClientCredentials
<1>4. Shapes /\ HoldsGrantedTokens
  BY <1>1, <1>3, CredentialIsShaped
  DEF Shapes, HoldsGrantedTokens, isTokenCredential, AccountOf, DbCredentials,
      ClientCredentials
<1>5. NoCall \in Progress /\ \A c \in Calls : calls[c] = NoCall
  BY <1>2 DEF NoCall, Progress
<1>6. calls \in [Calls -> Progress] /\ issued \in [Accounts -> 0 .. MaxTokens]
  BY <1>2, <1>5, AuthAssumption
<1>7. sent \in [by : {"none", "plugin", "client"},
                headers : [HeaderNames -> Tokens \cup Accounts \cup {Undefined}],
                cred : Credentials \cup {Undefined}, owner : Accounts \cup {Undefined}]
  BY <1>2 DEF NoHeaders
<1>8. owner \in Accounts \cup {Undefined} /\ clientOwner \in Accounts \cup {Undefined}
  BY <1>1, <1>3, AccountOfType DEF DbCredentials, ClientCredentials
<1>9. TypeOK
  BY <1>2, <1>3, <1>6, <1>7, <1>8 DEF TypeOK, DbCredentials, ClientCredentials, Progress
<1>10. Exchanges /\ OwnedUnlessLost
  BY <1>1, <1>5 DEF Exchanges, OwnedUnlessLost, NoCall
<1>11. RequestsFollowCurrent /\ RequestsSpeakForGiven /\ ClientIsGiven
  BY <1>1, <1>2 DEF RequestsFollowCurrent, RequestsSpeakForGiven, ClientIsGiven
<1> QED
  BY <1>4, <1>9, <1>10, <1>11 DEF IInv

(* The types, as the proofs of the steps use them.                         *)
LEMMA Types ==
    ASSUME IInv
    PROVE  /\ current \in DbCredentials /\ client \in ClientCredentials
           /\ baked \in Credentials \cup {Undefined}
           /\ calls \in [Calls -> Progress] /\ issued \in [Accounts -> 0 .. MaxTokens]
           /\ sent \in [by : {"none", "plugin", "client"},
                        headers : [HeaderNames -> Tokens \cup Accounts \cup {Undefined}],
                        cred : Credentials \cup {Undefined}, owner : Accounts \cup {Undefined}]
           /\ granted \subseteq Tokens /\ owner \in Accounts \cup {Undefined}
           /\ clientOwner \in Accounts \cup {Undefined}
           /\ MaxTokens \in Nat
           /\ Undefined \notin Accounts /\ Undefined \notin Tokens
           /\ Undefined \notin Credentials
BY AuthAssumption DEF IInv, TypeOK, DbCredentials, ClientCredentials, Progress

(* A new credential: every exchange under way is overtaken.                *)
LEMMA SetAuthenticatedCredentialStep ==
    ASSUME IInv, NEW options \in CredentialOptions, SetAuthenticatedCredential(options)
    PROVE  IInv'
<1> USE Types
<1>1. /\ Credential(options).anonymous = "false" /\ current' = Credential(options)
      /\ owner' = AccountOf(current')
      /\ calls' = [c \in Calls |-> [calls[c] EXCEPT !.overtaken = @ \/ calls[c].pc = "posted"]]
      /\ UNCHANGED <<baked, client, issued, sent, granted, clientOwner>>
  BY DEF SetAuthenticatedCredential
<1>2. /\ current' \in DbCredentials /\ current' # Undefined
      /\ current'.token # Undefined => current'.apiKey = Undefined /\ current'.token.n = 0
  BY <1>1, CredentialIsShaped DEF DbCredentials
<1>3. ASSUME NEW c \in Calls
      PROVE  /\ calls'[c] \in Progress
             /\ calls'[c].pc = calls[c].pc /\ calls'[c].cred = calls[c].cred
             /\ calls'[c].token = calls[c].token /\ calls'[c].success = calls[c].success
             /\ calls[c].overtaken \/ calls[c].pc = "posted" => calls'[c].overtaken
  <2> DEFINE overtaken == calls[c].overtaken \/ calls[c].pc = "posted"
  <2>1. calls'[c] = [calls[c] EXCEPT !.overtaken = overtaken] /\ calls[c] \in Progress
    BY <1>1
  <2>2. overtaken \in BOOLEAN
    OBVIOUS
  <2>3. calls[c].overtaken \/ calls[c].pc = "posted" => overtaken
    OBVIOUS
  <2> HIDE DEF overtaken
  <2>4. /\ calls'[c] \in Progress /\ calls'[c].overtaken = overtaken
        /\ calls'[c].pc = calls[c].pc /\ calls'[c].cred = calls[c].cred
        /\ calls'[c].token = calls[c].token /\ calls'[c].success = calls[c].success
    BY <2>1, <2>2 DEF Progress
  <2> QED
    BY <2>3, <2>4
<1>4. calls' \in [Calls -> Progress] /\ \A c \in Calls :
          /\ calls'[c].pc = calls[c].pc /\ calls'[c].cred = calls[c].cred
          /\ calls'[c].token = calls[c].token /\ calls'[c].success = calls[c].success
          /\ calls[c].overtaken \/ calls[c].pc = "posted" => calls'[c].overtaken
  BY <1>1, <1>3
<1>5. owner' \in Accounts \cup {Undefined}
  BY <1>1, <1>2, AccountOfType DEF DbCredentials
<1>6. TypeOK'
  BY <1>1, <1>2, <1>4, <1>5 DEF IInv, TypeOK, DbCredentials, Progress
<1>7. Shapes' /\ HoldsGrantedTokens'
  BY <1>1, <1>2 DEF IInv, Shapes, HoldsGrantedTokens, isTokenCredential
<1>8. Exchanges'
  BY <1>1, <1>4 DEF IInv, Exchanges
<1>9. OwnedUnlessLost'
  BY <1>1, <1>4 DEF OwnedUnlessLost
<1>10. RequestsFollowCurrent' /\ RequestsSpeakForGiven' /\ ClientIsGiven'
  BY <1>1 DEF IInv, RequestsFollowCurrent, RequestsSpeakForGiven, Speakers, ClientIsGiven,
              AccountOf, WithAuth, isTokenCredential
<1> QED
  BY <1>6, <1>7, <1>8, <1>9, <1>10 DEF IInv

(* fetchAccessToken reads the credential the db has now.                   *)
LEMMA FetchAccessTokenStep ==
    ASSUME IInv, NEW c \in Calls, FetchAccessToken(c) PROVE IInv'
<1> USE Types
<1>1. /\ calls[c].pc = "idle"
      /\ UNCHANGED <<current, baked, client, issued, sent, granted, owner, clientOwner>>
  BY DEF FetchAccessToken
<1> DEFINE pc == IF current = Undefined THEN "threw"
                 ELSE IF isTokenCredential(current) /\ current.apiKey = Undefined
                                                    /\ current.apiSecret = Undefined
                      THEN "skipped"
                 ELSE IF current.apiKey = Undefined \/ current.apiSecret = Undefined
                      THEN "threw"
                 ELSE "posted"
<1>2. calls' = [calls EXCEPT ![c].cred = current, ![c].pc = pc]
  BY DEF FetchAccessToken
<1>3. /\ pc \in {"threw", "skipped", "posted"}
      /\ pc = "posted" => current # Undefined /\ current.apiKey # Undefined
  OBVIOUS
<1> HIDE DEF pc
<1> DEFINE new == [calls[c] EXCEPT !.cred = current, !.pc = pc]
<1>10. calls[c] \in Progress /\ current \in Credentials \cup {Undefined}
  BY DEF DbCredentials
<1>11. calls' = [calls EXCEPT ![c] = new]
  BY <1>2
<1>12. /\ new \in Progress
       /\ new.pc = pc /\ new.cred = current /\ new.token = calls[c].token
       /\ new.success = calls[c].success /\ new.overtaken = calls[c].overtaken
  BY <1>3, <1>10 DEF Progress
<1> HIDE DEF new
<1>4. /\ calls' \in [Calls -> Progress]
      /\ calls'[c].pc = pc /\ calls'[c].cred = current /\ calls'[c].token = calls[c].token
      /\ calls'[c].success = calls[c].success /\ calls'[c].overtaken = calls[c].overtaken
      /\ \A d \in Calls : d # c => calls'[d] = calls[d]
  BY <1>11, <1>12
<1>5. calls[c].token = Undefined
  BY <1>1 DEF IInv, Exchanges
<1>6. TypeOK'
  BY <1>1, <1>4 DEF IInv, TypeOK, Progress
<1>7. Exchanges'
  BY <1>1, <1>3, <1>4, <1>5 DEF IInv, Exchanges
<1>8. OwnedUnlessLost'
  <2>1. CASE \E d \in Calls : Lost(d)
    <3>1. PICK d \in Calls : Lost(d)
      BY <2>1
    <3>2. d # c
      BY <3>1, <1>1 DEF Lost
    <3> QED
      BY <3>1, <3>2, <1>4 DEF OwnedUnlessLost, Lost
  <2>2. CASE ~\E d \in Calls : Lost(d)
    <3>1. AccountOf(current) = owner
      BY <2>2 DEF IInv, OwnedUnlessLost
    <3>2. pc = "posted" => current.apiKey = owner
      BY <3>1, <1>3 DEF IInv, Shapes, AccountOf
    <3> QED
      BY <2>2, <3>1, <3>2, <1>1, <1>4 DEF IInv, OwnedUnlessLost
  <2> QED
    BY <2>1, <2>2
<1>9. Shapes' /\ ClientIsGiven' /\ HoldsGrantedTokens'
  BY <1>1 DEF IInv, Shapes, ClientIsGiven, HoldsGrantedTokens, AccountOf, isTokenCredential
<1>13. RequestsFollowCurrent' /\ RequestsSpeakForGiven'
  BY <1>1 DEF IInv, RequestsFollowCurrent, RequestsSpeakForGiven, Speakers, WithAuth
<1> QED
  BY <1>6, <1>7, <1>8, <1>9, <1>13 DEF IInv

(* The auth service issues a token of the account whose key was posted.    *)
LEMMA IssueAccessTokenStep ==
    ASSUME IInv, NEW c \in Calls, IssueAccessToken(c) PROVE IInv'
<1> USE Types
<1> DEFINE account == calls[c].cred.apiKey
           token == [account |-> account, n |-> issued[account] + 1]
<1>1. /\ calls[c].pc = "posted" /\ calls[c].token = Undefined
      /\ issued[account] < MaxTokens /\ issued' = [issued EXCEPT ![account] = @ + 1]
      /\ UNCHANGED <<current, baked, client, sent, owner, clientOwner>>
  BY DEF IssueAccessToken
<1>2. PICK success \in BOOLEAN :
          /\ calls' = [calls EXCEPT ![c].token = token, ![c].success = success]
          /\ granted' = IF success THEN granted \cup {token} ELSE granted
  BY DEF IssueAccessToken
<1>3. account \in Accounts
  BY <1>1 DEF IInv, Exchanges, Progress, Credentials
<1>4. /\ token \in Tokens /\ token # Undefined /\ token.account = account
      /\ issued' \in [Accounts -> 0 .. MaxTokens]
  BY <1>1, <1>3 DEF Tokens
<1> HIDE DEF token
<1> DEFINE new == [calls[c] EXCEPT !.token = token, !.success = success]
<1>12. calls[c] \in Progress /\ calls' = [calls EXCEPT ![c] = new]
  BY <1>2
<1>13. /\ new \in Progress
       /\ new.pc = calls[c].pc /\ new.cred = calls[c].cred /\ new.token = token
       /\ new.success = success /\ new.overtaken = calls[c].overtaken
  BY <1>4, <1>12 DEF Progress
<1> HIDE DEF new
<1>5. /\ calls' \in [Calls -> Progress]
      /\ calls'[c].pc = "posted" /\ calls'[c].cred = calls[c].cred
      /\ calls'[c].token = token
      /\ calls'[c].success = success /\ calls'[c].overtaken = calls[c].overtaken
      /\ \A d \in Calls : d # c => calls'[d] = calls[d]
  BY <1>1, <1>12, <1>13
<1>6. granted' \subseteq Tokens /\ granted \subseteq granted' /\ (success => token \in granted')
  BY <1>2, <1>4
<1>7. TypeOK'
  BY <1>1, <1>4, <1>5, <1>6 DEF IInv, TypeOK, Progress
<1>8. Exchanges'
  BY <1>1, <1>4, <1>5, <1>6 DEF IInv, Exchanges
<1>9. OwnedUnlessLost'
  BY <1>1, <1>5 DEF IInv, OwnedUnlessLost, Lost
<1>10. HoldsGrantedTokens'
  BY <1>1, <1>6 DEF IInv, HoldsGrantedTokens, isTokenCredential
<1>11. Shapes' /\ RequestsFollowCurrent' /\ RequestsSpeakForGiven' /\ ClientIsGiven'
  BY <1>1 DEF IInv, Shapes, RequestsFollowCurrent, RequestsSpeakForGiven, Speakers,
              ClientIsGiven, AccountOf, WithAuth,
              isTokenCredential
<1> QED
  BY <1>7, <1>8, <1>9, <1>10, <1>11 DEF IInv

(* The answer: with success its token is the credential; the race is lost  *)
(* if the call was overtaken.                                              *)
LEMMA OnAccessTokenStep ==
    ASSUME IInv, NEW c \in Calls, OnAccessToken(c) \/ OnFetchError(c) PROVE IInv'
<1> USE Types
<1>1. /\ calls[c].pc = "posted"
      /\ UNCHANGED <<baked, client, issued, sent, granted, owner, clientOwner>>
  BY DEF OnAccessToken, OnFetchError
<1>2. PICK pc \in {"returned", "threw"} : calls' = [calls EXCEPT ![c].pc = pc] /\
          IF pc = "threw" THEN UNCHANGED current
          ELSE /\ calls[c].token # Undefined /\ calls[c].success
               /\ current' = [anonymous |-> "false", token |-> calls[c].token,
                             apiKey |-> Undefined, apiSecret |-> Undefined]
  BY DEF OnAccessToken, OnFetchError
<1>3. /\ calls' \in [Calls -> Progress]
      /\ calls'[c].pc = pc /\ calls'[c].cred = calls[c].cred /\ calls'[c].token = calls[c].token
      /\ calls'[c].success = calls[c].success /\ calls'[c].overtaken = calls[c].overtaken
      /\ \A d \in Calls : d # c => calls'[d] = calls[d]
  BY <1>2 DEF Progress
<1>4. Exchanges'
  BY <1>1, <1>3 DEF IInv, Exchanges
<1>5. \A d \in Calls : Lost(d) => Lost(d)'
  BY <1>1, <1>3 DEF Lost
<1>6. RequestsFollowCurrent' /\ RequestsSpeakForGiven' /\ ClientIsGiven'
  BY <1>1 DEF IInv, RequestsFollowCurrent, RequestsSpeakForGiven, Speakers, ClientIsGiven,
              AccountOf, WithAuth, isTokenCredential
<1>7. CASE pc = "threw"
  <2>1. current' = current
    BY <1>2, <1>7
  <2>2. TypeOK'
    BY <2>1, <1>1, <1>3 DEF IInv, TypeOK, Progress
  <2>3. Shapes' /\ HoldsGrantedTokens'
    BY <2>1, <1>1 DEF IInv, Shapes, HoldsGrantedTokens, isTokenCredential
  <2>4. OwnedUnlessLost'
    BY <2>1, <1>1, <1>3, <1>5, <1>7 DEF IInv, OwnedUnlessLost
  <2> QED
    BY <2>2, <2>3, <2>4, <1>4, <1>6 DEF IInv
<1>8. CASE pc = "returned"
  <2>1. /\ calls[c].token # Undefined /\ calls[c].success
        /\ current' = [anonymous |-> "false", token |-> calls[c].token,
                      apiKey |-> Undefined, apiSecret |-> Undefined]
        /\ calls[c].token \in Tokens
    BY <1>2, <1>8 DEF Progress
  <2>2. /\ current' \in DbCredentials /\ current' # Undefined
        /\ current'.token = calls[c].token /\ current'.apiKey = Undefined
    BY <2>1 DEF DbCredentials, Credentials
  <2>3. TypeOK'
    BY <2>2, <1>1, <1>3 DEF IInv, TypeOK, Progress, DbCredentials
  <2>4. Shapes'
    BY <2>2, <1>1 DEF IInv, Shapes, isTokenCredential
  <2>5. HoldsGrantedTokens'
    BY <2>1, <2>2, <1>1 DEF IInv, HoldsGrantedTokens, Exchanges
  <2>6. OwnedUnlessLost'
    <3>1. CASE \E d \in Calls : Lost(d)
      BY <3>1, <1>5 DEF OwnedUnlessLost
    <3>2. CASE calls[c].overtaken
      BY <3>2, <1>3, <1>8 DEF OwnedUnlessLost, Lost
    <3>3. CASE ~calls[c].overtaken /\ ~\E d \in Calls : Lost(d)
      <4>1. calls[c].token.account = owner
        BY <3>3, <2>1, <1>1 DEF IInv, OwnedUnlessLost, Exchanges
      <4>2. AccountOf(current)' = owner'
        BY <4>1, <2>1, <2>2, <1>1 DEF AccountOf, isTokenCredential
      <4> QED
        BY <4>2, <3>3, <1>1, <1>3, <1>8 DEF IInv, OwnedUnlessLost
    <3> QED
      BY <3>1, <3>2, <3>3
  <2> QED
    BY <2>3, <2>4, <2>5, <2>6, <1>4, <1>6 DEF IInv
<1> QED
  BY <1>7, <1>8

(* A client gets a credential: that of the db, of the caller, or its own   *)
(* anonymous one.                                                          *)
LEMMA ClientStep ==
    ASSUME IInv, MakeHTTPClient \/ \E options \in CredentialOptions \cup {Undefined} :
                                        SetCredential(options)
    PROVE  IInv'
<1> USE Types
<1>1. UNCHANGED <<current, baked, calls, issued, sent, granted, owner>>
  BY DEF MakeHTTPClient, SetCredential
<1>2. \/ client' = Credential(current) /\ clientOwner' = DbOwner
      \/ \E options \in CredentialOptions \cup {Undefined} :
             client' = Credential(options) /\ clientOwner' = AccountOf(options)
  BY DEF MakeHTTPClient, SetCredential
<1>3. DbOwner = AccountOf(current)
  BY DEF IInv, OwnedUnlessLost, DbOwner
<1>4. /\ client' \in ClientCredentials /\ client' # Undefined
      /\ client'.anonymous = "true" =>
             client'.token # Undefined /\ AccountOf(client') = Undefined
      /\ AccountOf(client') = clientOwner'
  <2>1. CASE \E options \in CredentialOptions \cup {Undefined} :
                client' = Credential(options) /\ clientOwner' = AccountOf(options)
    BY <2>1, CredentialIsShaped DEF ClientCredentials
  <2>2. CASE client' = Credential(current) /\ clientOwner' = DbOwner /\ current # Undefined
    <3>1. current \in Credentials /\ current.anonymous = "false"
      BY <2>2 DEF DbCredentials
    <3>2. client' = [current EXCEPT !.anonymous = "false"]
      BY <3>1, <2>2 DEF Credential
    <3>3. /\ client' \in Credentials /\ client'.anonymous = "false"
          /\ client'.token = current.token /\ client'.apiKey = current.apiKey
      BY <3>1, <3>2 DEF Credentials
    <3>4. AccountOf(client') = AccountOf(current)
      BY <3>3, <2>2 DEF AccountOf, isTokenCredential
    <3> QED
      BY <3>3, <3>4, <2>2, <1>3 DEF ClientCredentials
  <2>3. CASE client' = Credential(Undefined) /\ clientOwner' = AccountOf(Undefined)
    BY <2>3, CredentialIsShaped DEF ClientCredentials
  <2> QED
    BY <2>1, <2>2, <2>3, <1>2, <1>3
<1>5. clientOwner' \in Accounts \cup {Undefined}
  BY <1>4, AccountOfType DEF ClientCredentials
<1>6. TypeOK'
  BY <1>1, <1>4, <1>5 DEF IInv, TypeOK, ClientCredentials
<1>7. Shapes' /\ ClientIsGiven'
  BY <1>1, <1>4 DEF IInv, Shapes, ClientIsGiven, AccountOf, isTokenCredential
<1>8. Exchanges' /\ OwnedUnlessLost'
  BY <1>1 DEF IInv, Exchanges, OwnedUnlessLost, Lost, AccountOf, isTokenCredential
<1>9. HoldsGrantedTokens' /\ RequestsFollowCurrent' /\ RequestsSpeakForGiven'
  BY <1>1 DEF IInv, HoldsGrantedTokens, RequestsFollowCurrent, RequestsSpeakForGiven,
              Speakers, WithAuth, isTokenCredential
<1> QED
  BY <1>6, <1>7, <1>8, <1>9 DEF IInv

LEMMA SpreadOverNothing ==
    ASSUME NEW cred \in Credentials \cup {Undefined}
    PROVE  Spread(NoHeaders, WithAuth(cred, NoHeaders)) = WithAuth(cred, NoHeaders)
<1>1. NoHeaders \in [HeaderNames -> Tokens \cup Accounts \cup {Undefined}]
  BY DEF NoHeaders
<1>2. WithAuth(cred, NoHeaders) \in [HeaderNames -> Tokens \cup Accounts \cup {Undefined}]
  BY <1>1, HeadersType
<1> QED
  BY <1>2 DEF Spread, NoHeaders

(* A request: a plugin's follow the credential of the db unless the        *)
(* plugins have one of their own, a client's follow its own.               *)
LEMMA RequestStep ==
    ASSUME IInv, SendPluginRequest \/ SendQuery PROVE IInv'
<1> USE Types
<1>1. UNCHANGED <<current, baked, client, calls, issued, granted, owner, clientOwner>>
  BY DEF SendPluginRequest, SendQuery
<1> DEFINE Headers == [HeaderNames -> Tokens \cup Accounts \cup {Undefined}]
<1>2. NoHeaders \in Headers /\ current \in Credentials \cup {Undefined}
        /\ client \in Credentials \cup {Undefined}
  BY DEF NoHeaders, DbCredentials, ClientCredentials
<1>3. /\ Shapes' /\ ClientIsGiven' /\ Exchanges' /\ OwnedUnlessLost' /\ HoldsGrantedTokens'
      /\ clientOwner' = clientOwner
  BY <1>1 DEF IInv, Shapes, ClientIsGiven, Exchanges, OwnedUnlessLost, Lost, AccountOf,
              HoldsGrantedTokens, isTokenCredential
<1>4. CASE SendPluginRequest
  <2>1. sent' = [by |-> "plugin", headers |-> PluginHeaders, cred |-> current,
                 owner |-> DbOwner]
    BY <1>4 DEF SendPluginRequest
  <2>2. \A headers, more \in Headers : Spread(headers, more) \in Headers
    BY DEF Spread
  <2>3. PluginHeaders \in Headers
    BY <1>2, <2>2, HeadersType DEF PluginHeaders
  <2>4. DbOwner = AccountOf(current) /\ DbOwner \in Accounts \cup {Undefined}
    BY <1>2, AccountOfType DEF IInv, OwnedUnlessLost, DbOwner
  <2>5. TypeOK'
    BY <1>1, <1>2, <1>3, <2>1, <2>3, <2>4 DEF IInv, TypeOK
  <2>6. baked = Undefined => PluginHeaders = WithAuth(current, NoHeaders)
    <3>1. Spread(NoHeaders, NoHeaders) = NoHeaders
      BY DEF Spread, NoHeaders
    <3> QED
      BY <3>1, <1>2, SpreadOverNothing DEF PluginHeaders, WithAuth
  <2>7. Speakers(WithAuth(current, NoHeaders)) = {AccountOf(current)} \ {Undefined}
    BY <1>2, SpeakersOfCredential DEF DbCredentials
  <2>8. RequestsFollowCurrent'
    BY <1>1, <2>1, <2>6 DEF RequestsFollowCurrent, WithAuth
  <2>9. RequestsSpeakForGiven'
    BY <1>1, <2>1, <2>4, <2>6, <2>7 DEF RequestsSpeakForGiven
  <2> QED
    BY <1>3, <2>5, <2>8, <2>9 DEF IInv
<1>5. CASE SendQuery
  <2>1. /\ client # Undefined /\ client \in Credentials
        /\ sent' = [by |-> "client", headers |-> WithAuth(client, NoHeaders),
                    cred |-> client, owner |-> clientOwner]
    BY <1>2, <1>5 DEF SendQuery
  <2>2. TypeOK'
    BY <1>1, <1>2, <1>3, <2>1, HeadersType DEF IInv, TypeOK
  <2>3. Speakers(WithAuth(client, NoHeaders)) = {clientOwner} \ {Undefined}
    BY <1>2, SpeakersOfCredential DEF IInv, Shapes, ClientIsGiven
  <2>4. RequestsFollowCurrent' /\ RequestsSpeakForGiven'
    BY <1>1, <2>1, <2>3 DEF RequestsFollowCurrent, RequestsSpeakForGiven
  <2> QED
    BY <1>3, <2>2, <2>4 DEF IInv
<1> QED
  BY <1>4, <1>5

LEMMA NextIInv == IInv /\ [Next]_vars => IInv'
<1> SUFFICES ASSUME IInv, [Next]_vars PROVE IInv'
  OBVIOUS
<1>1. CASE UNCHANGED vars
  <2>1. TypeOK' /\ Exchanges'
    BY <1>1 DEF vars, IInv, TypeOK, Exchanges
  <2>2. Shapes' /\ ClientIsGiven' /\ HoldsGrantedTokens' /\ OwnedUnlessLost'
    BY <1>1 DEF vars, IInv, Shapes, ClientIsGiven, HoldsGrantedTokens, OwnedUnlessLost,
                Lost, AccountOf, isTokenCredential
  <2>3. RequestsFollowCurrent' /\ RequestsSpeakForGiven'
    BY <1>1 DEF vars, IInv, RequestsFollowCurrent, RequestsSpeakForGiven, Speakers, WithAuth
  <2> QED
    BY <2>1, <2>2, <2>3 DEF IInv
<1>2. CASE Next
  BY <1>2, SetAuthenticatedCredentialStep, FetchAccessTokenStep, IssueAccessTokenStep,
     OnAccessTokenStep, ClientStep, RequestStep DEF Next
<1> QED
  BY <1>1, <1>2

(* The inductive invariant of the credentials, for any accounts and calls. *)
THEOREM Inductive == Spec => []IInv
  BY InitIInv, NextIInv, PTL DEF Spec

(* The db never holds an anonymous credential, nor one of another shape.   *)
THEOREM TypeCorrect == Spec => []TypeOK
<1>1. IInv => TypeOK
  BY DEF IInv
<1> QED
  BY <1>1, Inductive, PTL

(* Without default plugins each GraphQL request carries the credential of  *)
(* its moment.                                                             *)
THEOREM PluginsFollowCurrent == Spec => []RequestsFollowCurrent
<1>1. IInv => RequestsFollowCurrent
  BY DEF IInv
<1> QED
  BY <1>1, Inductive, PTL

(* Db and client each speak for the account they were given last: a client *)
(* never for one that its db was given after it was made.                  *)
THEOREM OnlyForGiven == Spec => []RequestsSpeakForGiven
<1>1. IInv => RequestsSpeakForGiven
  BY DEF IInv
<1> QED
  BY <1>1, Inductive, PTL

(* No token of an answer that did not report success becomes a credential. *)
THEOREM OnlyGrantedTokens == Spec => []HoldsGrantedTokens
<1>1. IInv => HoldsGrantedTokens
  BY DEF IInv
<1> QED
  BY <1>1, Inductive, PTL

(* The db speaks for the account given last, but for one race.             *)
THEOREM SpeaksForOwner == Spec => []SpeaksForLastGiven
<1>1. IInv => SpeaksForLastGiven
  BY DEF IInv, OwnedUnlessLost, SpeaksForLastGiven, Lost
<1> QED
  BY <1>1, Inductive, PTL
=============================================================================
