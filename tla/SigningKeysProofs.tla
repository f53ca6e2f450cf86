-------------------------- MODULE SigningKeysProofs --------------------------
(***************************************************************************)
(* The theorem about authentication.  The inductive invariant follows the  *)
(* kid of each request: one that the provider has published all the time   *)
(* is in the key set the request was sent, and from the merge on in the    *)
(* verifier, which drops none.                                             *)
(***************************************************************************)
EXTENDS SigningKeys, TLAPS

\* The token of a request, and how far its authentication is.
Begun(r) ==
    /\ pc[r] = "idle" <=> token[r] = None
    /\ pc[r] = "reply" <=> reply[r] # None
    /\ pc[r] \notin {"idle", "reply"} => token[r].claims
    /\ pc[r] \in {"fetch", "merge"} => jwksURL
    /\ document[r] \subseteq ever

\* Where the key of a request is, if it was published all the time, or known
\* when the request began.
KeyRight(r) ==
    /\ steady[r] => token[r] # None /\ token[r].kid \in published
    /\ pc[r] = "merge" /\ steady[r] => token[r].kid \in document[r]
    /\ pc[r] = "again" /\ steady[r] => token[r].kid \in keys
    /\ pc[r] = "verify" => token[r].kid \in keys
    /\ known[r] => /\ token[r] # None /\ token[r].kid \in keys
                   /\ pc[r] \notin {"refresh", "discover", "fetch", "merge", "again"}

\* The answer of r.
Justified(r) ==
    LET t == token[r] IN
    /\ reply[r] = "OK" => t.claims /\ t.genuine /\ t.granted /\ t.kid \in ever
    /\ reply[r] = "FORBIDDEN" => t.claims /\ t.genuine /\ ~t.granted
    /\ reply[r] = "UNAUTHORIZED" => ~t.claims \/ ~t.genuine
    /\ reply[r] = "AUTH_UNAVAILABLE" => t.claims /\ (failed[r] \/ ~steady[r]) /\ ~known[r]

RequestRight(r) == Begun(r) /\ KeyRight(r) /\ Justified(r)

KeysInv == TypeOK /\ \A r \in Requests : RequestRight(r)

-----------------------------------------------------------------------------

LEMMA InitKeys == Init => KeysInv
<1> SUFFICES ASSUME Init PROVE KeysInv
  OBVIOUS
<1>1. TypeOK
  <2>1. /\ keys = {} /\ jwksURL = FALSE /\ published \subseteq Kids /\ ever = published
        /\ rotations \in 0 .. MaxRotations
    BY SigningKeysAssumption DEF Init
  <2>2. /\ token \in [Requests -> Tokens \cup {None}] /\ pc \in [Requests -> Labels]
        /\ document \in [Requests -> SUBSET Kids] /\ reply \in [Requests -> Replies \cup {None}]
        /\ {steady, known, failed} \subseteq [Requests -> BOOLEAN]
    BY DEF Init, Labels
  <2>3. QED
    BY <2>1, <2>2 DEF TypeOK
<1>2. \A r \in Requests : RequestRight(r)
  BY NoneAssumption DEF Init, RequestRight, Begun, KeyRight, Justified, Replies
<1>3. QED
  BY <1>1, <1>2 DEF KeysInv

\* A token has its parts.
LEMMA TokenType ==
    ASSUME TypeOK, NEW r \in Requests, token[r] # None
    PROVE  /\ token[r] \in Tokens /\ token[r].kid \in Kids
           /\ {token[r].claims, token[r].genuine, token[r].granted} \subseteq BOOLEAN
BY DEF TypeOK, Tokens

Acts(r) ==
    Authenticate(r) \/ Lookup(r) \/ Refresh(r) \/ Discover(r) \/ Fetch(r) \/ ProviderFails(r)
    \/ Merge(r) \/ LookupAgain(r) \/ Verify(r) \/ Leave(r)

LEMMA TypeStep ==
    ASSUME KeysInv, [Next]_vars
    PROVE  TypeOK'
<1> USE DEF TypeOK
<1>0. TypeOK /\ \A r \in Requests : Begun(r)
  BY DEF KeysInv, RequestRight
<1>1. CASE UNCHANGED vars
  BY <1>0, <1>1 DEF vars, verifier, provider, history
<1>2. ASSUME NEW r \in Requests, Authenticate(r) PROVE TypeOK'
  BY <1>0, <1>2 DEF Authenticate, Answer, Goto, Labels, Replies, verifier, provider
<1>3. ASSUME NEW r \in Requests, Lookup(r) \/ Refresh(r) \/ LookupAgain(r) \/ Verify(r)
      PROVE  TypeOK'
  BY <1>0, <1>3 DEF Lookup, Refresh, LookupAgain, Verify, Answer, Goto, Labels, Replies, verifier, provider,
     history
<1>4. ASSUME NEW r \in Requests, Discover(r) \/ Fetch(r) PROVE TypeOK'
  BY <1>0, <1>4 DEF Discover, Fetch, Goto, Labels, verifier, provider, history
<1>5. ASSUME NEW r \in Requests, Merge(r) PROVE TypeOK'
  <2>1. keys' = keys \cup document[r] /\ document[r] \subseteq ever /\ jwksURL
    BY <1>0, <1>5 DEF Merge, Begun
  <2>2. document' \in [Requests -> SUBSET Kids] /\ pc' \in [Requests -> Labels]
    BY <1>0, <1>5 DEF Merge, Goto, Labels
  <2>3. QED
    BY <1>0, <1>5, <2>1, <2>2 DEF Merge, provider, history
<1>6. ASSUME NEW r \in Requests, ProviderFails(r) PROVE TypeOK'
  BY <1>0, <1>6 DEF ProviderFails, Answer, Goto, Labels, Replies, verifier, provider
<1>7. ASSUME NEW r \in Requests, Leave(r) PROVE TypeOK'
  BY <1>0, <1>7 DEF Leave, Goto, Labels, verifier, provider
<1>8. ASSUME NEW k \in Kids, Publish(k) PROVE TypeOK'
  BY <1>0, <1>8, SigningKeysAssumption DEF Publish, verifier, history
<1>9. ASSUME NEW k \in Kids, Withdraw(k) PROVE TypeOK'
  <2>1. steady' \in [Requests -> BOOLEAN]
    BY <1>0, <1>9 DEF Withdraw
  <2>2. rotations' \in 0 .. MaxRotations
    BY <1>0, <1>9, SigningKeysAssumption DEF Withdraw
  <2>3. QED
    BY <1>0, <1>9, <2>1, <2>2 DEF Withdraw, verifier
<1>10. QED
  BY <1>1, <1>2, <1>3, <1>4, <1>5, <1>6, <1>7, <1>8, <1>9 DEF Next

-----------------------------------------------------------------------------
(* A request, beside the steps of the others and of the provider.          *)

\* What is the same for q after a step of another request.
Stands(q) ==
    /\ token'[q] = token[q] /\ pc'[q] = pc[q] /\ document'[q] = document[q]
    /\ reply'[q] = reply[q] /\ steady'[q] = steady[q] /\ known'[q] = known[q]
    /\ failed'[q] = failed[q]

LEMMA ActsShape ==
    ASSUME TypeOK, NEW r \in Requests, Acts(r)
    PROVE  /\ UNCHANGED provider /\ keys \subseteq keys' /\ (jwksURL => jwksURL')
           /\ \A q \in Requests : q # r => Stands(q)
<1> USE DEF TypeOK, Stands, Goto, Answer, verifier, provider, history
<1>1. CASE Authenticate(r)
  BY <1>1 DEF Authenticate
<1>2. CASE Lookup(r) \/ Refresh(r) \/ Discover(r) \/ Fetch(r)
  BY <1>2 DEF Lookup, Refresh, Discover, Fetch
<1>3. CASE ProviderFails(r) \/ Merge(r)
  BY <1>3 DEF ProviderFails, Merge
<1>4. CASE LookupAgain(r) \/ Verify(r) \/ Leave(r)
  BY <1>4 DEF LookupAgain, Verify, Leave
<1>5. QED
  BY <1>1, <1>2, <1>3, <1>4 DEF Acts

LEMMA StandRight ==
    ASSUME NEW q \in Requests, RequestRight(q), Stands(q), UNCHANGED provider,
           keys \subseteq keys', jwksURL => jwksURL'
    PROVE  RequestRight(q)'
BY DEF RequestRight, Begun, KeyRight, Justified, Stands, provider

LEMMA ActRight ==
    ASSUME KeysInv, NEW r \in Requests, Acts(r)
    PROVE  RequestRight(r)'
<1>1. TypeOK /\ Begun(r) /\ KeyRight(r) /\ Justified(r)
  BY DEF KeysInv, RequestRight
<1>2. \A answer \in Replies : answer # None
  BY NoneAssumption
<1> USE DEF TypeOK, Goto, Answer, Labels, verifier, provider, history
<1>3. CASE Authenticate(r)
  <2>1. PICK t \in Tokens :
          /\ token' = [token EXCEPT ![r] = t]
          /\ IF t.claims THEN Goto(r, "key") /\ UNCHANGED reply
                         ELSE Answer(r, "UNAUTHORIZED")
          /\ steady' = [steady EXCEPT ![r] = t.kid \in published]
          /\ known' = [known EXCEPT ![r] = t.kid \in keys]
    BY <1>3 DEF Authenticate
  <2>2. /\ token'[r] = t /\ t # None /\ pc[r] = "idle" /\ reply[r] = None
        /\ steady'[r] = (t.kid \in published) /\ known'[r] = (t.kid \in keys)
        /\ UNCHANGED <<keys, jwksURL, published, ever, document>>
    BY <1>1, <1>3, <2>1, NoneAssumption DEF Authenticate, Begun
  <2>3. IF t.claims THEN pc'[r] = "key" /\ reply'[r] = None
                    ELSE pc'[r] = "reply" /\ reply'[r] = "UNAUTHORIZED"
    BY <1>1, <2>1, <2>2
  <2>4. QED
    BY <1>1, <1>2, <2>2, <2>3 DEF RequestRight, Begun, KeyRight, Justified, Replies
<1>4. CASE Lookup(r) \/ Refresh(r)
  BY <1>1, <1>4 DEF Lookup, Refresh, RequestRight, Begun, KeyRight, Justified
<1>5. CASE Discover(r)
  BY <1>1, <1>5 DEF Discover, RequestRight, Begun, KeyRight, Justified
<1>6. CASE Fetch(r)
  BY <1>1, <1>6 DEF Fetch, RequestRight, Begun, KeyRight, Justified
<1>7. CASE ProviderFails(r)
  BY <1>1, <1>2, <1>7 DEF ProviderFails, RequestRight, Begun, KeyRight, Justified, Replies
<1>8. CASE Merge(r)
  <2>1. /\ pc[r] = "merge" /\ pc'[r] = "again" /\ keys' = keys \cup document[r] /\ document'[r] = {}
        /\ UNCHANGED <<jwksURL, token, reply, published, ever, steady, known, failed>>
    BY <1>1, <1>8 DEF Merge
  <2>2. QED
    BY <1>1, <2>1 DEF RequestRight, Begun, KeyRight, Justified
<1>9. CASE LookupAgain(r)
  BY <1>1, <1>2, <1>9 DEF LookupAgain, RequestRight, Begun, KeyRight, Justified, Replies
<1>10. CASE Verify(r)
  <2>1. /\ pc[r] = "verify" /\ pc'[r] = "reply"
        /\ reply'[r] = IF ~token[r].genuine THEN "UNAUTHORIZED"
                       ELSE IF token[r].granted THEN "OK" ELSE "FORBIDDEN"
        /\ UNCHANGED <<keys, jwksURL, token, document, published, ever, steady, known, failed>>
    BY <1>1, <1>10 DEF Verify
  <2>2. token[r].claims /\ token[r].kid \in ever
    BY <1>1, <2>1 DEF Begun, KeyRight
  <2>3. Justified(r)'
    BY <2>1, <2>2 DEF Justified
  <2>4. QED
    BY <1>1, <1>2, <2>1, <2>3 DEF RequestRight, Begun, KeyRight, Replies
<1>11. CASE Leave(r)
  <2>1. /\ pc'[r] = "idle" /\ token'[r] = None /\ reply'[r] = None /\ ~steady'[r] /\ ~known'[r]
        /\ UNCHANGED <<keys, jwksURL, document, published, ever>>
    BY <1>1, <1>11 DEF Leave
  <2>2. QED
    BY <1>1, <1>2, <2>1 DEF RequestRight, Begun, KeyRight, Justified, Replies
<1>12. QED
  BY <1>3, <1>4, <1>5, <1>6, <1>7, <1>8, <1>9, <1>10, <1>11 DEF Acts

\* The provider publishes or withdraws a key: a request whose kid goes is not steady.
LEMMA ProviderRight ==
    ASSUME KeysInv, NEW k \in Kids, Publish(k) \/ Withdraw(k), NEW r \in Requests
    PROVE  RequestRight(r)'
<1>1. TypeOK /\ RequestRight(r)
  BY DEF KeysInv
<1>2. CASE Publish(k)
  BY <1>1, <1>2 DEF Publish, verifier, history, RequestRight, Begun, KeyRight, Justified
<1>3. CASE Withdraw(k)
  <2>1. steady'[r] = (steady[r] /\ (token[r] = None \/ token[r].kid # k)) /\ published' = published \ {k}
    BY <1>3 DEF Withdraw
  <2>2. UNCHANGED <<keys, jwksURL, token, pc, document, reply, ever, known, failed>>
    BY <1>3 DEF Withdraw, verifier
  <2>3. QED
    BY <1>1, <2>1, <2>2 DEF RequestRight, Begun, KeyRight, Justified
<1>4. QED
  BY <1>2, <1>3

\* Whatever the provider does and however refreshes overlap, for any number of requests
\* and keys: who is let in has a genuine token of a published key, and authentication is
\* called unavailable only when the provider failed or took the key away.
THEOREM AnswersAreJustified == Spec => []AnswersJustified
<1>1. KeysInv /\ [Next]_vars => KeysInv'
  <2> SUFFICES ASSUME KeysInv, [Next]_vars PROVE KeysInv'
    OBVIOUS
  <2>1. ASSUME NEW r \in Requests, Acts(r), NEW q \in Requests PROVE RequestRight(q)'
    BY <2>1, ActsShape, StandRight, ActRight DEF KeysInv
  <2>2. ASSUME NEW k \in Kids, Publish(k) \/ Withdraw(k), NEW q \in Requests PROVE RequestRight(q)'
    BY <2>2, ProviderRight
  <2>3. ASSUME UNCHANGED vars, NEW q \in Requests PROVE RequestRight(q)'
    BY <2>3, StandRight DEF vars, verifier, provider, history, Stands, KeysInv
  <2>4. QED
    BY <2>1, <2>2, <2>3, TypeStep DEF KeysInv, Next, Acts
<1>2. KeysInv => AnswersJustified
  <2> SUFFICES ASSUME KeysInv PROVE AnswersJustified
    OBVIOUS
  <2>1. TypeOK /\ \A r \in Requests : Justified(r)
    BY DEF KeysInv, RequestRight
  <2>2. AnswersTrue
    BY <2>1 DEF AnswersTrue, Justified
  <2>3. KnownKeysNeedNobody
    BY <2>1 DEF KnownKeysNeedNobody, Justified
  <2>4. QED
    BY <2>1, <2>2, <2>3 DEF AnswersJustified
<1>3. QED
  BY <1>1, <1>2, InitKeys, PTL DEF Spec

=============================================================================
