----------------------------- MODULE SeatSession -----------------------------
(***************************************************************************)
(* Threads that call tools over one shared login: SeatSession and          *)
(* SeatRpcClient._post_envelope of agentkit/transport/seat_rpc.py, and     *)
(* UrllibWire.send of agentkit/transport/wire.py.  Each caller makes one   *)
(* invoke_tool call.  The platform is external: it may expire a token at   *)
(* any time, and any request or reply may be lost.                         *)
(***************************************************************************)
EXTENDS Naturals

CONSTANTS
  Caller,       \* calls in progress, one per thread
  Writer,       \* the calls of tools that write
  ReadAttempts, \* UrllibWire.read_attempts
  MaxTokens     \* bound: how many tokens the platform issues

ASSUME SessionAssumption ==
  /\ Writer \subseteq Caller
  /\ ReadAttempts \in Nat \ {0}
  /\ MaxTokens \in Nat \ {0}

VARIABLES
  password, \* whether the login has one; without, the environment gives a token
  token,    \* SeatSession.token; 0 for None, else the number of the token
  holder,   \* the callers inside `with self._lock` (never more than one)
  issued,   \* how many tokens the platform has issued
  valid,    \* the tokens the platform accepts
  call,     \* call[c]: where the thread of c is, and its local variables
  applied,  \* history: how often the platform processed c's request
  replaced  \* history: replaced[t]: logins by callers who found token t rejected,
            \* or, for t = 0, none

sessionVars == <<password, token, holder, issued, valid, call, applied, replaced>>

At == {"idle", "first", "login", "headers", "wire", "rejected", "renewing", "done"}

Kind == {"none", "ok", "flaky", "expired", "other"}

\* stale: the token _post_envelope saw first; carry: the one the request
\* carries; refused: the one the platform answered 401 to; round 2 is the resend.
CallState == [at: At, stale: Nat, carry: Nat, refused: Nat, tries: Nat,
              round: {1, 2}, kind: Kind]

SessionInit ==
  /\ password \in BOOLEAN
  /\ token \in {0, 1} /\ (~password => token = 1)
  /\ holder = {}
  /\ issued = token
  /\ valid = {token} \ {0}
  /\ call = [c \in Caller |-> [at |-> "idle", stale |-> 0, carry |-> 0, refused |-> 0,
                               tries |-> 0, round |-> 1, kind |-> "none"]]
  /\ applied = [c \in Caller |-> 0]
  /\ replaced = [t \in 0..MaxTokens |-> 0]

Goes(c, at) == call' = [call EXCEPT ![c] = [@ EXCEPT !.at = at]]

Resends(c) == call' = [call EXCEPT ![c] = [@ EXCEPT !.at = "headers", !.round = 2]]

Ends(c, kind) == call' = [call EXCEPT ![c] = [@ EXCEPT !.at = "done", !.kind = kind]]

-------------------------------------------------------------------------------
(* ensure_token, login and renew                                           *)

\* ensure_token with a token there.  Once there is one it is never removed,
\* so the test and the read of self.token may be one step.
StartCall(c) ==
  /\ call[c].at = "idle"
  /\ IF token # 0
       THEN call' = [call EXCEPT ![c] = [@ EXCEPT !.at = "headers", !.stale = token]]
       ELSE Goes(c, "first")
  /\ UNCHANGED <<password, token, holder, issued, valid, applied, replaced>>

\* Inside the lock the token is looked at again: another thread may have
\* logged in meanwhile.
FirstLock(c) ==
  /\ call[c].at = "first"
  /\ holder = {}
  /\ IF token # 0
       THEN Goes(c, "idle") /\ UNCHANGED holder
       ELSE Goes(c, "login") /\ holder' = {c}
  /\ UNCHANGED <<password, token, issued, valid, applied, replaced>>

\* Mutant: every rejected caller logs in again.
MustReplaceAlways(c) == TRUE

\* renew(stale): log in unless the token is no longer the stale one.
MustReplace(c) == token = call[c].stale

Renew(c) ==
  /\ call[c].at = "rejected"
  /\ holder = {}
  /\ IF MustReplace(c)
       THEN Goes(c, "renewing") /\ holder' = {c}
       ELSE Resends(c) /\ UNCHANGED holder
  /\ UNCHANGED <<password, token, issued, valid, applied, replaced>>

\* A login that returned: ensure_token reads the token again (StartCall), renew
\* is followed by the resend.
LoggedIn(c) == IF call[c].at = "login" THEN Goes(c, "idle") ELSE Resends(c)

\* Without a password the token of the environment is all there is.
KeepToken(c) ==
  /\ call[c].at \in {"login", "renewing"}
  /\ ~password /\ token # 0
  /\ LoggedIn(c)
  /\ holder' = {}
  /\ UNCHANGED <<password, token, issued, valid, applied, replaced>>

Login(c) ==
  /\ call[c].at \in {"login", "renewing"}
  /\ password \/ token = 0
  /\ issued < MaxTokens
  /\ issued' = issued + 1
  /\ token' = issued + 1
  /\ valid' = valid \cup {issued + 1}
  /\ replaced' = [replaced EXCEPT ![call[c].stale] = @ + 1]
  /\ LoggedIn(c)
  /\ holder' = {}
  /\ UNCHANGED <<password, applied>>

\* Mutant: the lock is not released when login raises.
AfterFailedLoginKept == holder

AfterFailedLogin == {}

\* Unreachable is FLAKY, HTTP 401 TOKEN_EXPIRED, any other answer
\* UNCLASSIFIED; the exception leaves the lock and ends the call.
LoginFails(c) ==
  /\ call[c].at \in {"login", "renewing"}
  /\ password \/ token = 0
  /\ \E kind \in {"flaky", "expired", "other"} : Ends(c, kind)
  /\ holder' = AfterFailedLogin
  /\ UNCHANGED <<password, token, issued, valid, applied, replaced>>

-------------------------------------------------------------------------------
(* _post_once and UrllibWire.send                                          *)

\* auth_headers reads the token anew: it may be newer than `stale`.
Headers(c) ==
  /\ call[c].at = "headers"
  /\ call' = [call EXCEPT ![c] = [@ EXCEPT !.at = "wire", !.carry = token, !.tries = 1]]
  /\ UNCHANGED <<password, token, holder, issued, valid, applied, replaced>>

\* Mutant: every request may be repeated.
AttemptsOfAnyCall(c) == ReadAttempts

\* safe_to_repeat: a write gets exactly one attempt.
Attempts(c) == IF c \in Writer THEN 1 ELSE ReadAttempts

Processed(c) ==
  /\ call[c].carry \in valid
  /\ applied' = [applied EXCEPT ![c] = @ + 1]

MayBeProcessed(c) == Processed(c) \/ UNCHANGED applied

\* HTTP 401: the first time the session is renewed and the request resent.
Reject(c) ==
  /\ call[c].at = "wire"
  /\ call[c].carry \notin valid
  /\ IF call[c].round = 1
       THEN call' = [call EXCEPT ![c] = [@ EXCEPT !.at = "rejected", !.refused = call[c].carry]]
       ELSE Ends(c, "expired")
  /\ UNCHANGED <<password, token, holder, issued, valid, applied, replaced>>

\* A reply that arrives: the payload, or an error the platform reports (403,
\* an error of the tool, another status).
GetReply(c) ==
  /\ call[c].at = "wire"
  /\ \/ Processed(c) /\ Ends(c, "ok")
     \/ MayBeProcessed(c) /\ Ends(c, "other")
  /\ UNCHANGED <<password, token, holder, issued, valid, replaced>>

\* No reply, or 502, 503, 504, before or after the platform processed the
\* request: repeated while attempts are left.
NoReply(c) ==
  /\ call[c].at = "wire"
  /\ MayBeProcessed(c)
  /\ IF call[c].tries < Attempts(c)
       THEN call' = [call EXCEPT ![c] = [@ EXCEPT !.tries = call[c].tries + 1]]
       ELSE Ends(c, "flaky")
  /\ UNCHANGED <<password, token, holder, issued, valid, replaced>>

\* 429, any other 5xx or a body that is not JSON: FLAKY at once.
Garbled(c) ==
  /\ call[c].at = "wire"
  /\ MayBeProcessed(c)
  /\ Ends(c, "flaky")
  /\ UNCHANGED <<password, token, holder, issued, valid, replaced>>

\* The platform, external: it stops accepting a token.
Expire(t) ==
  /\ valid' = valid \ {t}
  /\ UNCHANGED <<password, token, holder, issued, call, applied, replaced>>

Step(c) ==
  \/ StartCall(c) \/ FirstLock(c) \/ Renew(c)
  \/ KeepToken(c) \/ Login(c) \/ LoginFails(c)
  \/ Headers(c) \/ Reject(c) \/ GetReply(c) \/ NoReply(c) \/ Garbled(c)

SessionNext == (\E c \in Caller : Step(c)) \/ (\E t \in valid : Expire(t))

SessionSpec == SessionInit /\ [][SessionNext]_sessionVars

\* Threads run; every request ends, because the wire sets a timeout.
FairSessionSpec == SessionSpec /\ \A c \in Caller : WF_sessionVars(Step(c))

-------------------------------------------------------------------------------
(* Properties                                                              *)

\* The session and its callers keep to their types, and at most one caller is
\* inside the lock: the one that logs in.
SessionTypeOK ==
  /\ password \in BOOLEAN
  /\ token \in 0..MaxTokens /\ issued \in 0..MaxTokens
  /\ valid \subseteq 1..MaxTokens
  /\ holder = {c \in Caller : call[c].at \in {"login", "renewing"}}
  /\ \A c, d \in holder : c = d
  /\ call \in [Caller -> CallState]
  /\ applied \in [Caller -> Nat]
  /\ replaced \in [0..MaxTokens -> Nat]

\* "Concurrent callers share one session; only the first re-logs in": however
\* many callers find a token missing or rejected, one login replaces it.
OneLoginPerToken == \A t \in 0..MaxTokens : replaced[t] <= 1

\* A write reaches the platform's state at most once per call, through the
\* re-login and the resend, and not at all when the call ends TOKEN_EXPIRED.
WritesAppliedOnce ==
  \A c \in Writer : applied[c] <= 1 /\ (call[c].kind = "expired" => applied[c] = 0)

\* Every call ends: no caller waits for the session's lock for ever.
CallsEnd == \A c \in Caller : call[c].at # "idle" ~> call[c].at = "done"

\* What the module says of TOKEN_EXPIRED ("HTTP 401 after one re-login already
\* failed"), of a session that can log in: the second 401 was to another token
\* than the first.
ExpiredOnlyAfterReLogin ==
  password =>
    \A c \in Caller : call[c].kind = "expired" /\ call[c].round = 2 =>
      call[c].carry # call[c].refused

===============================================================================
