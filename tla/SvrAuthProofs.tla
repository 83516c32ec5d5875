--------------------------- MODULE SvrAuthProofs ---------------------------
(***************************************************************************)
(* Theorems about SvrAuth, for every set of user names, every limit on the *)
(* tries and any number of requests.                                       *)
(***************************************************************************)
EXTENDS SvrAuth, TLAPS

\* Before svr_authinitialise() nothing has been asked or answered.
Fresh ==
    phase = "init" =>
        /\ authtypes = {} /\ initial = {} /\ passed = {} /\ offered = {}
        /\ failcount = 0 /\ serv_pubkey_query_count = 0 /\ queries = 0 /\ failures = 0

\* What a session still accepts: with -t what it began with and has not passed,
\* without it all it began with.
Remaining ==
    phase = "open" =>
        /\ passed \subseteq initial
        /\ authtypes = initial \ passed
        /\ ~multiauthmethod => passed = {}

\* The last failure message named what the session accepts.
Offers == phase = "open" /\ offered # {} => offered = authtypes

\* failcount counts every failure but the first unknown key, and a session that goes on
\* or got in is within the limit.
Counted ==
    phase \in {"open", "authed"} =>
        /\ failcount <= maxauthtries
        /\ serv_pubkey_query_count = queries
        /\ failcount = failures + (IF queries = 0 THEN 0 ELSE queries - 1)

IInv == TypeOK /\ Fresh /\ Remaining /\ Offers /\ Counted /\ AuthenticatedProperly

-----------------------------------------------------------------------------
(* The answers: each keeps the invariant in an open session, given that the *)
(* request itself changed nothing else that the invariant is about.        *)

\* A session begins with nothing tried.
LEMMA InitIInv == Init => IInv
  BY OptionsAssumption, UserAssumption
     DEF Init, IInv, TypeOK, Fresh, Remaining, Offers, Counted, AuthenticatedProperly

\* checkusername() leaves a user name or none.
LEMMA RequestType ==
  ASSUME TypeOK, NEW u \in User, Request(u)
  PROVE  /\ phase = "open" /\ requests' \in Nat /\ username' \in User \cup {None}
         /\ multiauthmethod' = multiauthmethod /\ enabled' = enabled
  BY DEF TypeOK, Request, CheckUsername

\* A failure that counts uses up one try, or ends the session.
LEMMA StepFails ==
  ASSUME IInv, NEW u \in User, Request(u), Fails
  PROVE  IInv'
  <1> USE OptionsAssumption DEF IInv, Fails, Failure
  <1>1. TypeOK'
    BY RequestType DEF TypeOK
  <1>2. Fresh' /\ Remaining' /\ Offers' /\ AuthenticatedProperly'
    BY RequestType DEF Fresh, Remaining, Offers, AuthenticatedProperly
  <1>3. Counted'
    BY RequestType DEF Counted, TypeOK
  <1> QED BY <1>1, <1>2, <1>3

\* A failure message that counts nothing.
LEMMA StepUncounted ==
  ASSUME IInv, NEW u \in User, Request(u), Failure(authtypes, FALSE),
         UNCHANGED <<authtypes, serv_pubkey_query_count, history>>
  PROVE  IInv'
  <1> USE OptionsAssumption DEF IInv, Failure, history
  <1>1. TypeOK'
    BY RequestType DEF TypeOK
  <1>2. Fresh' /\ Remaining' /\ Offers' /\ AuthenticatedProperly'
    BY RequestType DEF Fresh, Remaining, Offers, AuthenticatedProperly
  <1>3. Counted'
    BY RequestType DEF Counted, TypeOK
  <1> QED BY <1>1, <1>2, <1>3

\* A method that succeeds is struck off, and the last one lets the client in.
LEMMA StepSucceeds ==
  ASSUME IInv, NEW u \in User, Request(u), NEW m \in authtypes, Succeeds(m)
  PROVE  IInv'
  <1> USE OptionsAssumption DEF IInv
  <1>1. /\ passed \subseteq initial /\ authtypes = initial \ passed
        /\ ~multiauthmethod => passed = {}
    BY RequestType DEF Remaining
  <1>2. m \in Method /\ m \in initial /\ passed' = passed \cup {m} /\ initial' = initial
    BY <1>1 DEF Succeeds, TypeOK
  <1>3. CASE multiauthmethod /\ authtypes \ {m} # {}
    <2>0. /\ authtypes' = authtypes \ {m} /\ Failure(authtypes', FALSE)
          /\ UNCHANGED <<serv_pubkey_query_count, initial, queries, failures>>
      BY <1>3 DEF Succeeds
    <2>1. /\ authtypes' = authtypes \ {m} /\ offered' = authtypes'
          /\ failcount' = failcount /\ phase' \in {"open", "exited"}
          /\ phase' = "open" => failcount <= maxauthtries
          /\ UNCHANGED <<serv_pubkey_query_count, initial, queries, failures>>
      BY <2>0, RequestType DEF Failure, TypeOK
    <2>2. TypeOK'
      BY <1>2, <2>1, RequestType DEF TypeOK
    <2>3. Remaining'
      BY <1>1, <1>2, <1>3, <2>1, RequestType DEF Remaining
    <2>4. Fresh' /\ Offers' /\ AuthenticatedProperly'
      BY <2>1 DEF Fresh, Offers, AuthenticatedProperly
    <2>5. Counted'
      BY <2>1, RequestType DEF Counted
    <2> QED BY <2>2, <2>3, <2>4, <2>5
  <1>4. CASE ~(multiauthmethod /\ authtypes \ {m} # {})
    <2>1. /\ phase' = "authed" /\ UNCHANGED <<authtypes, failcount, offered>>
          /\ UNCHANGED <<serv_pubkey_query_count, initial, queries, failures>>
      BY <1>4 DEF Succeeds
    <2>2. TypeOK'
      BY <1>2, <2>1, RequestType DEF TypeOK
    <2>3. multiauthmethod => passed \cup {m} = initial
      BY <1>1, <1>2, <1>4
    <2>4. AuthenticatedProperly'
      BY <1>1, <1>2, <2>1, <2>3, RequestType DEF AuthenticatedProperly
    <2>5. Fresh' /\ Remaining' /\ Offers' /\ Counted'
      BY <2>1, RequestType DEF Fresh, Remaining, Offers, Counted
    <2> QED BY <2>2, <2>4, <2>5
  <1> QED BY <1>3, <1>4

\* The first unknown key is free, the others use up a try.
LEMMA StepUnknownKey ==
  ASSUME IInv, NEW u \in User, RequestUnknownKey(u)
  PROVE  IInv'
  <1> USE OptionsAssumption DEF IInv, RequestUnknownKey, Failure, FreeQueryLimit
  <1>1. TypeOK'
    BY RequestType DEF TypeOK
  <1>2. Fresh' /\ Remaining' /\ Offers' /\ AuthenticatedProperly'
    BY RequestType DEF Fresh, Remaining, Offers, AuthenticatedProperly
  <1>3. Counted'
    BY RequestType DEF Counted, TypeOK
  <1> QED BY <1>1, <1>2, <1>3

-----------------------------------------------------------------------------
(* The specification.                                                      *)

\* Any request of the client.
LEMMA StepRequests ==
  ASSUME IInv, NEW u \in User, Requests(u)
  PROVE  IInv'
  <1>1. CASE RequestNone(u) \/ RequestUnknownAlgorithm(u)
    BY <1>1, StepUncounted DEF RequestNone, RequestUnknownAlgorithm
  <1>2. CASE RequestUnknownKey(u)
    BY <1>2, StepUnknownKey
  <1>3. CASE RequestTestKey(u)
    <2>1. /\ UNCHANGED <<phase, authtypes, failcount, serv_pubkey_query_count, offered,
                         initial, passed, queries, failures>>
          /\ TypeOK /\ Request(u)
      BY <1>3 DEF RequestTestKey, history, IInv
    <2>2. TypeOK'
      BY <2>1, RequestType DEF TypeOK
    <2> QED
      BY <2>1, <2>2, RequestType
         DEF IInv, Fresh, Remaining, Offers, Counted, AuthenticatedProperly
  <1>4. ASSUME NEW m, RequestOther(u, m) PROVE IInv'
    BY <1>4, StepFails DEF RequestOther
  <1>5. ASSUME NEW v \in BOOLEAN, RequestPassword(u, v) PROVE IInv'
    BY <1>5, StepFails, StepSucceeds DEF RequestPassword
  <1>6. ASSUME NEW v \in BOOLEAN, RequestPubkey(u, v) PROVE IInv'
    BY <1>6, StepFails, StepSucceeds DEF RequestPubkey
  <1> QED BY <1>1, <1>2, <1>3, <1>4, <1>5, <1>6 DEF Requests

\* Every step, and every stuttering step, keeps the invariant.
LEMMA NextIInv == IInv /\ [Next]_vars => IInv'
  <1> SUFFICES ASSUME IInv, [Next]_vars PROVE IInv'
    OBVIOUS
  <1> USE OptionsAssumption
      DEF IInv, TypeOK, Fresh, Remaining, Offers, Counted, AuthenticatedProperly
  <1>1. CASE Configure
    BY <1>1 DEF Configure, authstate, history
  <1>2. CASE AuthInitialise
    BY <1>2 DEF AuthInitialise
  <1>3. CASE BadRequest
    BY <1>3 DEF BadRequest, authstate, history
  <1>4. CASE Disconnect
    BY <1>4 DEF Disconnect, authstate, history
  <1>5. ASSUME NEW u \in User, Requests(u) PROVE IInv'
    BY <1>5, StepRequests
  <1>6. CASE UNCHANGED vars
    BY <1>6 DEF vars, authstate, history
  <1> QED BY <1>1, <1>2, <1>3, <1>4, <1>5, <1>6 DEF Next

\* The inductive invariant holds throughout.
LEMMA Invariant == Spec => []IInv
  BY InitIInv, NextIInv, PTL DEF Spec

\* svr_auth*: the state of a session keeps its type.
THEOREM TypeCorrect == Spec => []TypeOK
  BY Invariant, PTL DEF IInv

\* recv_msg_userauth_request() and send_msg_userauth_success(): nobody gets in but by
\* methods that were allowed when the session began, and with -t by all of them.
THEOREM ProperAuthentication == Spec => []AuthenticatedProperly
  BY Invariant, PTL DEF IInv

\* send_msg_userauth_failure(): a session that goes on, or got in, has kept to the limits on
\* failed tries and on unknown keys, whatever mix of passwords, signatures and keys it sent.
THEOREM TriesBounded == Spec => []FailuresBounded
  <1>1. IInv => FailuresBounded
    BY OptionsAssumption DEF IInv, TypeOK, Counted, FailuresBounded, QueryLimit
  <1> QED BY <1>1, Invariant, PTL

\* send_msg_userauth_failure(): a client is told what the session still accepts and no
\* method it has passed.
THEOREM OffersTrue == Spec => []OfferIsTrue
  <1>1. IInv => OfferIsTrue
    BY DEF IInv, Remaining, Offers, OfferIsTrue
  <1> QED BY <1>1, Invariant, PTL
=============================================================================
