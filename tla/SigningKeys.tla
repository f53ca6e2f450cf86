----------------------------- MODULE SigningKeys -----------------------------
(***************************************************************************)
(* The authentication of requests: the verifier that all requests of the   *)
(* API share keeps the provider's signing keys by kid, asks for them when  *)
(* a token has a kid it does not know, and never drops one.                *)
(*                                                                         *)
(* The identity provider is external.  It publishes and withdraws keys at  *)
(* any moment and may not answer; a kid names one key for ever.  Of the    *)
(* claims a token keeps whether they are in order (algorithm, issuer,      *)
(* audience, times) and whether they grant the principal the route wants.  *)
(***************************************************************************)
EXTENDS Integers, FiniteSets

CONSTANTS
    None,
    Requests,     \* requests in flight at the same time
    Kids,
    MaxRotations  \* bound: keys published or withdrawn

ASSUME SigningKeysAssumption == None \notin Kids /\ MaxRotations \in Nat

VARIABLES
    keys,       \* the kids of the keys in the verifier
    jwksURL,    \* whether the verifier knows where the keys are
    token,      \* the token of each request
    pc,         \* where its authentication is
    document,   \* the kids of the key set it was sent, not yet merged
    reply,      \* how it is answered
    published,  \* the kids the provider publishes
    ever,       \* history: all it has published
    steady,     \* history: the kid was published since the request began
    known,      \* history: the kid was in the verifier when the request began
    failed,     \* history: the provider did not answer the request with keys
    rotations   \* keys published or withdrawn so far

verifier == <<keys, jwksURL>>
provider == <<published, ever, rotations>>
history  == <<steady, known, failed>>
vars     == <<verifier, token, pc, document, reply, provider, history>>

Tokens  == [claims : BOOLEAN, kid : Kids, genuine : BOOLEAN, granted : BOOLEAN]
Replies == {"OK", "UNAUTHORIZED", "FORBIDDEN", "AUTH_UNAVAILABLE"}
Labels  == {"idle", "key", "refresh", "discover", "fetch", "merge", "again", "verify", "reply"}

\* An absent value is none of the values.
ASSUME NoneAssumption == None \notin Tokens /\ None \notin Replies

\* Every variable has its type; what the verifier has was once published, and it
\* has it only from the place it was told.
TypeOK ==
    /\ keys \subseteq ever
    /\ jwksURL \in BOOLEAN
    /\ keys # {} => jwksURL
    /\ token \in [Requests -> Tokens \cup {None}]
    /\ pc \in [Requests -> Labels]
    /\ document \in [Requests -> SUBSET Kids]
    /\ reply \in [Requests -> Replies \cup {None}]
    /\ published \subseteq ever /\ ever \subseteq Kids
    /\ steady \in [Requests -> BOOLEAN]
    /\ known \in [Requests -> BOOLEAN]
    /\ failed \in [Requests -> BOOLEAN]
    /\ rotations \in 0 .. MaxRotations

Init ==
    /\ keys = {}
    /\ jwksURL = FALSE
    /\ token = [r \in Requests |-> None]
    /\ pc = [r \in Requests |-> "idle"]
    /\ document = [r \in Requests |-> {}]
    /\ reply = [r \in Requests |-> None]
    /\ published \in SUBSET Kids
    /\ ever = published
    /\ steady = [r \in Requests |-> FALSE]
    /\ known = [r \in Requests |-> FALSE]
    /\ failed = [r \in Requests |-> FALSE]
    /\ rotations = 0

-----------------------------------------------------------------------------

Goto(r, label) == pc' = [pc EXCEPT ![r] = label]

Answer(r, answer) ==
    /\ Goto(r, "reply")
    /\ reply' = [reply EXCEPT ![r] = answer]

\* A request arrives; its claims are checked before its signature.
Authenticate(r) ==
    /\ pc[r] = "idle"
    /\ \E t \in Tokens :
         /\ token' = [token EXCEPT ![r] = t]
         /\ IF t.claims THEN Goto(r, "key") /\ UNCHANGED reply
                        ELSE Answer(r, "UNAUTHORIZED")
         /\ steady' = [steady EXCEPT ![r] = t.kid \in published]
         /\ known' = [known EXCEPT ![r] = t.kid \in keys]
    /\ UNCHANGED <<verifier, document, provider, failed>>

\* key: a kid that is there needs no provider.
Lookup(r) ==
    /\ pc[r] = "key"
    /\ Goto(r, IF token[r].kid \in keys THEN "verify" ELSE "refresh")
    /\ UNCHANGED <<verifier, token, document, reply, provider, history>>

\* refresh reads the place of the keys under a lock of its own: another request
\* may have discovered it since.
Refresh(r) ==
    /\ pc[r] = "refresh"
    /\ Goto(r, IF jwksURL THEN "fetch" ELSE "discover")
    /\ UNCHANGED <<verifier, token, document, reply, provider, history>>

\* Fault: the place of the keys is used and not kept.
DiscoverForgets(r) ==
    /\ pc[r] = "discover"
    /\ Goto(r, "fetch")
    /\ UNCHANGED <<verifier, token, document, reply, provider, history>>

\* Several requests may discover at once, all the same.
Discover(r) ==
    /\ pc[r] = "discover"
    /\ jwksURL' = TRUE
    /\ Goto(r, "fetch")
    /\ UNCHANGED <<keys, token, document, reply, provider, history>>

\* The provider sends the keys it publishes; a set without keys is an error.
Fetch(r) ==
    /\ pc[r] = "fetch"
    /\ published # {}
    /\ document' = [document EXCEPT ![r] = published]
    /\ Goto(r, "merge")
    /\ UNCHANGED <<verifier, token, reply, provider, history>>

\* No answer within the client's timeout, or one that is not as expected.
ProviderFails(r) ==
    /\ pc[r] \in {"discover", "fetch"}
    /\ failed' = [failed EXCEPT ![r] = TRUE]
    /\ Answer(r, "AUTH_UNAVAILABLE")
    /\ UNCHANGED <<verifier, token, document, provider, steady, known>>

\* Fault: the key set that comes replaces the one that is there.
MergeReplaces(r) ==
    /\ pc[r] = "merge"
    /\ keys' = document[r]
    /\ document' = [document EXCEPT ![r] = {}]
    /\ Goto(r, "again")
    /\ UNCHANGED <<jwksURL, token, reply, provider, history>>

\* The keys that came are added, however old they are by now.
Merge(r) ==
    /\ pc[r] = "merge"
    /\ keys' = keys \cup document[r]
    /\ document' = [document EXCEPT ![r] = {}]
    /\ Goto(r, "again")
    /\ UNCHANGED <<jwksURL, token, reply, provider, history>>

\* A kid that is unknown to the provider as well.
LookupAgain(r) ==
    /\ pc[r] = "again"
    /\ IF token[r].kid \in keys THEN Goto(r, "verify") /\ UNCHANGED reply
                                ELSE Answer(r, "AUTH_UNAVAILABLE")
    /\ UNCHANGED <<verifier, token, document, provider, history>>

\* The signature, then what the route requires of the principal.
Verify(r) ==
    /\ pc[r] = "verify"
    /\ Answer(r, IF ~token[r].genuine THEN "UNAUTHORIZED"
                 ELSE IF token[r].granted THEN "OK" ELSE "FORBIDDEN")
    /\ UNCHANGED <<verifier, token, document, provider, history>>

\* The request has ended and another one comes.
Leave(r) ==
    /\ pc[r] = "reply"
    /\ Goto(r, "idle")
    /\ token' = [token EXCEPT ![r] = None]
    /\ reply' = [reply EXCEPT ![r] = None]
    /\ steady' = [steady EXCEPT ![r] = FALSE]
    /\ known' = [known EXCEPT ![r] = FALSE]
    /\ failed' = [failed EXCEPT ![r] = FALSE]
    /\ UNCHANGED <<verifier, document, provider>>

-----------------------------------------------------------------------------
(* The provider.                                                           *)

Publish(k) ==
    /\ k \notin published /\ rotations < MaxRotations
    /\ published' = published \cup {k}
    /\ ever' = ever \cup {k}
    /\ rotations' = rotations + 1
    /\ UNCHANGED <<verifier, token, pc, document, reply, history>>

Withdraw(k) ==
    /\ k \in published /\ rotations < MaxRotations
    /\ published' = published \ {k}
    /\ rotations' = rotations + 1
    /\ steady' = [r \in Requests |->
                    steady[r] /\ (token[r] = None \/ token[r].kid # k)]
    /\ UNCHANGED <<verifier, token, pc, document, reply, ever, known, failed>>

Next ==
    \/ \E r \in Requests :
         \/ Authenticate(r) \/ Lookup(r) \/ Refresh(r) \/ Discover(r) \/ Fetch(r)
         \/ ProviderFails(r) \/ Merge(r) \/ LookupAgain(r) \/ Verify(r) \/ Leave(r)
    \/ \E k \in Kids : Publish(k) \/ Withdraw(k)

Spec == Init /\ [][Next]_vars

-----------------------------------------------------------------------------
(* Properties.                                                             *)

\* Refreshes that overlap, with key sets of different ages, and keys that are
\* rotated meanwhile, never turn an answer into another one.  A request is let
\* in with a genuine token of a key that was published; it is told that
\* authentication is unavailable only if the provider failed or did not publish
\* its key all the time: the merge of an older key set does not take away a key
\* that another request has just fetched.
AnswersTrue ==
    \A r \in Requests : LET t == token[r] IN
        CASE reply[r] = "OK" -> t.claims /\ t.genuine /\ t.granted /\ t.kid \in ever
          [] reply[r] = "FORBIDDEN" -> t.claims /\ t.genuine /\ ~t.granted
          [] reply[r] = "UNAUTHORIZED" -> ~t.claims \/ ~t.genuine
          [] reply[r] = "AUTH_UNAVAILABLE" -> t.claims /\ (failed[r] \/ ~steady[r])
          [] OTHER -> TRUE

\* A provider that is down or has withdrawn a key disturbs no request whose key
\* the verifier has when it begins.
KnownKeysNeedNobody ==
    \A r \in Requests : known[r] => reply[r] # "AUTH_UNAVAILABLE"

\* Every answer is justified by the token, the keys and the provider.
AnswersJustified == TypeOK /\ AnswersTrue /\ KnownKeysNeedNobody
=============================================================================
