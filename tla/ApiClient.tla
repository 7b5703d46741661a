------------------------------ MODULE ApiClient ------------------------------
(***************************************************************************)
(* How a call of the Mini App reaches the API (api/client.ts): retries     *)
(* after a failed connection, a timeout for what hangs, and one silent     *)
(* sign-in when the token is refused.                                      *)
(*                                                                         *)
(* The app learns that a connection failed, not whether the request got    *)
(* through before it did: an attempt it has given up on may be served.     *)
(***************************************************************************)
EXTENDS Naturals

CONSTANTS
    Reads,      \* calls of GET endpoints
    Updates     \* calls of POST, PATCH and DELETE endpoints

Calls == Reads \cup Updates

ASSUME ApiConstants == Reads \cap Updates = {}

VARIABLES
    jwt,        \* the stored token: "none", "valid" or "refused"
    call,       \* per call, how far it is
    sent,       \* attempts made
    stray,      \* attempts at a write given up on that may still be served
    served,     \* times the backend has carried a write out
    cut         \* history: connections that failed once a write was out

apiVars == <<jwt, call, sent, stray, served, cut>>

CallState ==
    [pc: {"idle", "sent", "reply", "reauth", "done", "failed"},
     auth: BOOLEAN,                     \* the attempt carries a valid token
     retried: BOOLEAN, netTries: 0 .. 2]

NoCall == [pc |-> "idle", auth |-> FALSE, retried |-> FALSE, netTries |-> 0]

-----------------------------------------------------------------------------
(* Attempts.                                                                *)

\* rawFetch(): the token is read anew for each attempt.
Attempt(c, retried, tries) ==
    /\ call' = [call EXCEPT ![c] = [pc |-> "sent", auth |-> jwt' = "valid",
                                    retried |-> retried, netTries |-> tries]]
    /\ sent' = [sent EXCEPT ![c] = @ + 1]

Begin(c) ==
    /\ call[c].pc = "idle"
    /\ UNCHANGED <<jwt, stray, served, cut>>
    /\ Attempt(c, FALSE, 0)

\* The backend carries it out, or refuses it.
Serve(c) ==
    /\ call[c].pc = "sent"
    /\ call' = [call EXCEPT ![c].pc = "reply"]
    /\ served' = IF c \in Updates /\ call[c].auth THEN [served EXCEPT ![c] = @ + 1] ELSE served
    /\ UNCHANGED <<jwt, sent, stray, cut>>

ServeStray(c) ==
    /\ stray[c] > 0
    /\ stray' = [stray EXCEPT ![c] = @ - 1]
    /\ served' = [served EXCEPT ![c] = @ + 1]
    /\ UNCHANGED <<jwt, call, sent, cut>>

\* Mutation: a write is sent again after a timeout too.
MayResendAny(c, code) ==
    IF c \in Reads THEN call[c].netTries < 2 ELSE call[c].netTries < 1

\* GETs are sent again after any failure, writes only after a connection error.
MayResend(c, code) ==
    IF c \in Reads THEN call[c].netTries < 2
    ELSE code = "NETWORK" /\ call[c].netTries < 1

\* fetch() rejects: by itself, or aborted after TIMEOUT_MS.  What was out
\* may have been served, or may be served later.
Rejected(c, code) ==
    /\ call[c].pc \in {"sent", "reply"}
    /\ UNCHANGED jwt
    /\ \E out \in (IF c \in Updates THEN BOOLEAN ELSE {FALSE}) :
         /\ stray' = IF out /\ call[c].pc = "sent" /\ call[c].auth
                     THEN [stray EXCEPT ![c] = @ + 1] ELSE stray
         /\ cut' = IF c \in Updates /\ code = "NETWORK" /\ (out \/ call[c].pc = "reply")
                   THEN [cut EXCEPT ![c] = @ + 1] ELSE cut
    /\ \/ MayResend(c, code) /\ Attempt(c, call[c].retried, call[c].netTries + 1)
       \/ /\ ~MayResend(c, code)
          /\ call' = [call EXCEPT ![c].pc = "failed"]
          /\ UNCHANGED sent
    /\ UNCHANGED served

-----------------------------------------------------------------------------
(* Replies.                                                                 *)

\* The data, or the backend's own error.
Replied(c) ==
    /\ call[c].pc = "reply" /\ call[c].auth
    /\ call' = [call EXCEPT ![c].pc = "done"]
    /\ UNCHANGED <<jwt, sent, stray, served, cut>>

\* 401: sign in once, silently.
Refused(c) ==
    /\ call[c].pc = "reply" /\ ~call[c].auth
    /\ call' = [call EXCEPT ![c].pc = IF call[c].retried THEN "failed" ELSE "reauth"]
    /\ UNCHANGED <<jwt, sent, stray, served, cut>>

\* The request again, as a call of its own that will not sign in.
ReplayOnce(c) == Attempt(c, TRUE, 0)

\* reauth(): the new token is stored, whatever became of the session.
Reauthed(c) ==
    /\ call[c].pc = "reauth"
    /\ jwt' = "valid"
    /\ ReplayOnce(c)
    /\ UNCHANGED <<stray, served, cut>>

ReauthFails(c) ==
    /\ call[c].pc = "reauth"
    /\ call' = [call EXCEPT ![c].pc = "failed"]
    /\ UNCHANGED <<jwt, sent, stray, served, cut>>

-----------------------------------------------------------------------------
(* The session.                                                             *)

\* authTelegram() at sign-in; the token expires; clearToken() at sign-out.
SessionChanges ==
    /\ \/ jwt # "valid" /\ jwt' = "valid"
       \/ jwt = "valid" /\ jwt' = "refused"
       \/ jwt # "none" /\ jwt' = "none"
    /\ UNCHANGED <<call, sent, stray, served, cut>>

ApiInit ==
    /\ jwt = "none"
    /\ call = [c \in Calls |-> NoCall]
    /\ sent = [c \in Calls |-> 0] /\ stray = [c \in Updates |-> 0]
    /\ served = [c \in Updates |-> 0] /\ cut = [c \in Updates |-> 0]

ApiNext ==
    \/ SessionChanges
    \/ \E c \in Calls :
         \/ Begin(c) \/ Serve(c)
         \/ Rejected(c, "NETWORK") \/ Rejected(c, "TIMEOUT")
         \/ Replied(c) \/ Refused(c) \/ Reauthed(c) \/ ReauthFails(c)
    \/ \E c \in Updates : ServeStray(c)

ApiSpec == ApiInit /\ [][ApiNext]_apiVars

-----------------------------------------------------------------------------
ApiTypeOK ==
    /\ jwt \in {"none", "valid", "refused"}
    /\ call \in [Calls -> CallState]
    /\ sent \in [Calls -> Nat] /\ stray \in [Updates -> Nat]
    /\ served \in [Updates -> Nat] /\ cut \in [Updates -> Nat]

(* A write is carried out more often than asked only because a connection    *)
(* failed once the request was out: neither a timeout nor the replay after a *)
(* refused token repeats it, whatever the token and other calls do meanwhile *)
(* (client.ts:107-117).                                                      *)
RepeatedOnlyByLoss == \A c \in Updates : served[c] + stray[c] <= 1 + cut[c]

(* However it fails, a call ends: two attempts of a write, three of a GET,   *)
(* and as many again after the one silent sign-in.                           *)
AttemptsBounded ==
    \A c \in Calls : sent[c] <= IF c \in Reads THEN 6 ELSE 4
=============================================================================
