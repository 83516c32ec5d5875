------------------------------ MODULE SvrAuth ------------------------------
(***************************************************************************)
(* The authentication of one session: svr-auth.c, svr-authpasswd.c and     *)
(* svr-authpubkey.c as iKofi builds them, with the hooks of jni-dropbear.c *)
(* that choose the methods.  The client is free to send any request at any *)
(* time; the user may change the files the methods depend on while the     *)
(* session is going on.                                                    *)
(*                                                                         *)
(* Whether a password or a signature is right is an input of the model     *)
(* ("verdict"); what the session makes of the verdict is modelled.         *)
(***************************************************************************)
EXTENDS Naturals, FiniteSets

CONSTANTS
    User,              \* user names a client can send
    LongUser,          \* the ones longer than MAX_USERNAME_LEN
    None,              \* no user name yet
    maxauthtries,      \* svr_opts.maxauthtries: MAX_AUTH_TRIES or -T
    MAX_PUBKEY_QUERIES, \* unknown keys a session may ask about
    MaxRequests        \* bound: requests of the session

ASSUME UserAssumption == None \notin User /\ LongUser \subseteq User
ASSUME OptionsAssumption ==
    maxauthtries \in Nat /\ MAX_PUBKEY_QUERIES \in Nat /\ MaxRequests \in Nat

VARIABLES
    multiauthmethod,   \* svr_opts.multiauthmethod: was the daemon started with -t?
    enabled,    \* the methods the preferences and the files allow now
    phase,      \* "init", "open", "authed" or "exited"
    username, authtypes, failcount, serv_pubkey_query_count,
    offered,    \* the methods named in the last failure message
    initial, passed, queries, failures, requests  \* history, not in the code

authstate == <<username, authtypes, failcount, serv_pubkey_query_count>>
history   == <<initial, passed, queries, failures>>
vars == <<multiauthmethod, enabled, phase, authstate, offered, history, requests>>

Method == {"pubkey", "password"}

TypeOK ==
    /\ multiauthmethod \in BOOLEAN
    /\ enabled \in SUBSET Method /\ phase \in {"init", "open", "authed", "exited"}
    /\ username \in User \cup {None} /\ authtypes \in SUBSET Method
    /\ failcount \in Nat /\ serv_pubkey_query_count \in Nat
    /\ offered \in SUBSET Method
    /\ initial \in SUBSET Method /\ passed \in SUBSET Method
    /\ queries \in Nat /\ failures \in Nat /\ requests \in Nat

Init ==
    /\ multiauthmethod \in BOOLEAN /\ enabled \in SUBSET Method /\ phase = "init"
    /\ username = None /\ authtypes = {} /\ failcount = 0 /\ serv_pubkey_query_count = 0
    /\ offered = {} /\ initial = {} /\ passed = {} /\ queries = 0 /\ failures = 0
    /\ requests = 0

-----------------------------------------------------------------------------
(* The user: authorized_keys imported or deleted, credentials saved.       *)
Configure ==
    /\ enabled' \in (SUBSET Method) \ {enabled}
    /\ UNCHANGED <<multiauthmethod, phase, authstate, offered, history, requests>>

\* svr_authinitialise(), ikofi_svr_authinitialise(): authtypes is set once.
AuthInitialise ==
    /\ phase = "init"
    /\ phase' = "open"
    /\ authtypes' = enabled /\ initial' = enabled
    /\ UNCHANGED <<multiauthmethod, enabled, username, failcount, serv_pubkey_query_count, offered, passed,
                   queries, failures, requests>>

-----------------------------------------------------------------------------
(* Answers.                                                                *)

Failure_NeverExits(types, incrfail) ==
    /\ offered' = types
    /\ failcount' = IF incrfail THEN failcount + 1 ELSE failcount
    /\ phase' = phase

\* send_msg_userauth_failure()
Failure(types, incrfail) ==
    /\ offered' = types
    /\ failcount' = IF incrfail THEN failcount + 1 ELSE failcount
    /\ phase' = IF failcount' > maxauthtries THEN "exited" ELSE phase

\* A failed attempt that counts.
Fails ==
    /\ Failure(authtypes, TRUE)
    /\ failures' = failures + 1
    /\ UNCHANGED <<authtypes, serv_pubkey_query_count, initial, passed, queries>>

Succeeds_KeepsMethod(m) ==
    /\ passed' = passed \cup {m}
    /\ IF multiauthmethod /\ authtypes \ {m} # {}
       THEN /\ authtypes' = authtypes
            /\ Failure(authtypes', FALSE)
       ELSE /\ phase' = "authed"
            /\ UNCHANGED <<authtypes, failcount, offered>>
    /\ UNCHANGED <<serv_pubkey_query_count, initial, queries, failures>>

\* A method succeeds: partial success while another one is required.
Succeeds(m) ==
    /\ passed' = passed \cup {m}
    /\ IF multiauthmethod /\ authtypes \ {m} # {}
       THEN /\ authtypes' = authtypes \ {m}
            /\ Failure(authtypes', FALSE)
       ELSE /\ phase' = "authed"
            /\ UNCHANGED <<authtypes, failcount, offered>>
    /\ UNCHANGED <<serv_pubkey_query_count, initial, queries, failures>>

-----------------------------------------------------------------------------
(* Requests: recv_msg_userauth_request().                                  *)

\* checkusername(): the first request fixes the name, unless it is too long;
\* every name that can be a name is valid.
CheckUsername(u) ==
    IF u \in LongUser THEN username' = username
    ELSE username \in {None, u} /\ username' = u
ValidUser(u) == u \notin LongUser

Request(u) ==
    /\ phase = "open" /\ requests < MaxRequests
    /\ requests' = requests + 1
    /\ CheckUsername(u)
    /\ UNCHANGED <<multiauthmethod, enabled>>

\* "Client trying multiple usernames", a null byte, an unknown service.
BadRequest ==
    /\ phase = "open" /\ requests < MaxRequests
    /\ requests' = requests + 1
    /\ phase' = "exited"
    /\ UNCHANGED <<multiauthmethod, enabled, authstate, offered, history>>

RequestNone(u) ==
    /\ Request(u)
    /\ Failure(authtypes, FALSE)
    /\ UNCHANGED <<authtypes, serv_pubkey_query_count, history>>

\* Neither a known method nor one that is (still) allowed.
RequestOther(u, m) ==
    /\ Request(u) /\ m \notin authtypes
    /\ Fails

RequestPassword_Unsnapshot(u, verdict) ==
    /\ Request(u) /\ "password" \in enabled
    /\ IF verdict THEN Succeeds("password") ELSE Fails

\* svr_auth_password(), for a valid name or not: a change of password, a password
\* that is too long, blank or wrong all fail alike.
RequestPassword(u, verdict) ==
    /\ Request(u) /\ "password" \in authtypes
    /\ IF verdict THEN Succeeds("password") ELSE Fails

\* svr_auth_pubkey(): an invalid user, or an unknown signature algorithm.
RequestUnknownAlgorithm(u) ==
    /\ Request(u) /\ "pubkey" \in authtypes
    /\ Failure(authtypes, FALSE)
    /\ UNCHANGED <<authtypes, serv_pubkey_query_count, history>>

\* free_query_limit is 0 whatever the options.
FreeQueryLimit == 0

\* A key that is not in authorized_keys; the count is not kept on exit.
RequestUnknownKey(u) ==
    /\ Request(u) /\ ValidUser(u) /\ "pubkey" \in authtypes
    /\ Failure(authtypes, serv_pubkey_query_count > FreeQueryLimit)
    /\ serv_pubkey_query_count' =
          IF phase' = "exited" THEN serv_pubkey_query_count ELSE serv_pubkey_query_count + 1
    /\ queries' = queries + 1
    /\ UNCHANGED <<authtypes, initial, passed, failures>>

\* send_msg_userauth_pk_ok(): the key could be used.
RequestTestKey(u) ==
    /\ Request(u) /\ ValidUser(u) /\ "pubkey" \in authtypes
    /\ UNCHANGED <<phase, authtypes, failcount, serv_pubkey_query_count, offered, history>>

\* The key is known; it may not parse, the signature may be bad.
RequestPubkey(u, verdict) ==
    /\ Request(u) /\ ValidUser(u) /\ "pubkey" \in authtypes
    /\ IF verdict THEN Succeeds("pubkey") ELSE Fails

\* AUTH_TIMEOUT, or the client hangs up.
Disconnect ==
    /\ phase \in {"init", "open"}
    /\ phase' = "exited"
    /\ UNCHANGED <<multiauthmethod, enabled, authstate, offered, history, requests>>

Requests(u) ==
    \/ RequestNone(u) \/ RequestUnknownAlgorithm(u) \/ RequestUnknownKey(u) \/ RequestTestKey(u)
    \/ \E m \in Method \cup {"other"} : RequestOther(u, m)
    \/ \E v \in BOOLEAN : RequestPassword(u, v) \/ RequestPubkey(u, v)

Next ==
    \/ Configure \/ AuthInitialise \/ BadRequest \/ Disconnect
    \/ \E u \in User : Requests(u)

Spec == Init /\ [][Next]_vars

-----------------------------------------------------------------------------
(* Properties.                                                             *)

\* A session is authenticated by methods that were allowed when it began,
\* whatever the user configured since; and with -t by all of them, in whatever
\* order they came and however many attempts failed in between.
AuthenticatedProperly ==
    phase = "authed" =>
        /\ passed # {} /\ passed \subseteq initial
        /\ multiauthmethod => passed = initial

\* "Maximum number of public key queries per session. [...] If -T argument or
\* MAX_AUTH_TRIES is larger that will be used instead."
QueryLimit ==
    IF MAX_PUBKEY_QUERIES > maxauthtries THEN MAX_PUBKEY_QUERIES ELSE maxauthtries

\* "Default maximum number of failed authentication tries": a session that goes on,
\* or got in, is within both documented limits, whatever the order of its attempts.
\* Its failed tries are at most maxauthtries, and the unknown keys it asked about
\* exceed their limit by at most the one that is the first and goes uncounted.
FailuresBounded ==
    phase \in {"open", "authed"} => failures <= maxauthtries /\ queries <= QueryLimit + 1

\* The methods a failure message offers are the ones the session still accepts
\* and has not passed.
OfferIsTrue ==
    phase = "open" /\ offered # {} => offered = authtypes /\ offered \cap passed = {}
=============================================================================
