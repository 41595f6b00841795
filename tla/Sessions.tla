------------------------------ MODULE Sessions ------------------------------
(***************************************************************************)
(* Sessions of one account (backend/internal/auth): refresh tokens that    *)
(* rotate, access tokens checked against a denylist and a cached account   *)
(* state, sign-out, sign-out everywhere, suspension and the reset of the   *)
(* second factor, with a cache that goes down and comes back.              *)
(*                                                                         *)
(* An access token is named by its session and the token_version it        *)
(* carries.  The denylist entry outlives every access token of the session *)
(* (AccessTTL plus a minute, longer than a refresh takes).                 *)
(***************************************************************************)
EXTENDS Naturals, FiniteSets

CONSTANTS
    SessionIds,
    Requests,        \* requests in flight at the same time
    MaxRotations,    \* bound on the refresh tokens of a session
    MaxVersions      \* bound on token_version

VARIABLES
    sessRow,       \* sessions: the number of the current refresh token, and revoked
    sessUser,      \* users: token_version and whether the account is active
    sessTokens,    \* access tokens that have not expired
    sessDenied,    \* cache: auth:denied_session
    sessCached,    \* cache: auth:user_state, or {} when it has none
    sessCacheUp,   \* the cache answers
    sessReq,       \* request -> where it stands
    sessOut        \* (ghost) sessions whose sign-out has reached the denylist

sessVars == <<sessRow, sessUser, sessTokens, sessDenied, sessCached, sessCacheUp, sessReq,
              sessOut>>

NoReq == [at |-> "idle", s |-> 0, ver |-> 0, late |-> FALSE, ids |-> {}]
In(r, at) == sessReq[r].at = at
Set(r, req) == sessReq' = [sessReq EXCEPT ![r] = req]
Done(r) == Set(r, NoReq)

Init ==
    /\ sessRow = [s \in SessionIds |-> [token |-> 1, revoked |-> FALSE]]
    /\ sessUser = [ver |-> 1, active |-> TRUE]
    /\ sessTokens = [s : SessionIds, ver : {1}]
    /\ sessDenied = {} /\ sessCached = {} /\ sessCacheUp = TRUE
    /\ sessReq = [r \in Requests |-> NoReq]
    /\ sessOut = {}

RotateMatches(s, t) == ~sessRow[s].revoked /\ sessRow[s].token = t

\* One update finds the row by the presented token and replaces it; a token presented
\* again finds none.
RotateRefreshToken(r, s, t) ==
    /\ In(r, "idle")
    /\ sessRow[s].token < MaxRotations
    /\ RotateMatches(s, t)
    /\ sessRow' = [sessRow EXCEPT ![s].token = @ + 1]
    /\ Set(r, [NoReq EXCEPT !.at = "refresh", !.s = s])
    /\ UNCHANGED <<sessUser, sessTokens, sessDenied, sessCached, sessCacheUp, sessOut>>

\* The account is read after the rotation, and the access token has its version.
Refresh(r) ==
    /\ In(r, "refresh")
    /\ sessTokens' = IF sessUser.active
                     THEN sessTokens \cup {[s |-> sessReq[r].s, ver |-> sessUser.ver]}
                     ELSE sessTokens
    /\ Done(r)
    /\ UNCHANGED <<sessRow, sessUser, sessDenied, sessCached, sessCacheUp, sessOut>>

TokenExpires(t) ==
    /\ t \in sessTokens
    /\ sessTokens' = sessTokens \ {t}
    /\ UNCHANGED <<sessRow, sessUser, sessDenied, sessCached, sessCacheUp, sessReq, sessOut>>

\* A form in which a cache that does not answer is taken for one without an entry.
RefusedByCache(s) == sessCacheUp /\ s \in sessDenied

\* The denylist decides, or the session's row when the cache does not answer.
Refused(s) == IF sessCacheUp THEN s \in sessDenied ELSE sessRow[s].revoked

\* A request with an access token passes the denylist ...
authenticate(r, t) ==
    /\ In(r, "idle")
    /\ t \in sessTokens
    /\ ~Refused(t.s)
    /\ Set(r, [NoReq EXCEPT !.at = "user", !.s = t.s, !.ver = t.ver, !.late = t.s \in sessOut])
    /\ UNCHANGED <<sessRow, sessUser, sessTokens, sessDenied, sessCached, sessCacheUp, sessOut>>

\* ... then the account's state, cached or read and about to be cached ...
userWithCache(r) ==
    /\ In(r, "user")
    /\ \E state \in IF sessCacheUp /\ sessCached # {} THEN sessCached ELSE {sessUser} :
          Set(r, [sessReq[r] EXCEPT
                    !.at = IF state.ver = sessReq[r].ver /\ state.active THEN "admitted" ELSE "refused",
                    !.ids = IF state \in sessCached THEN {} ELSE {state}])
    /\ UNCHANGED <<sessRow, sessUser, sessTokens, sessDenied, sessCached, sessCacheUp, sessOut>>

\* ... and is served or refused.
AuthenticateToken(r) ==
    /\ sessReq[r].at \in {"admitted", "refused"}
    /\ sessCached' = IF sessCacheUp /\ sessReq[r].ids # {} THEN sessReq[r].ids ELSE sessCached
    /\ Done(r)
    /\ UNCHANGED <<sessRow, sessUser, sessTokens, sessDenied, sessCacheUp, sessOut>>

\* A sign-out, of this session or of others, revokes rows and devices in a transaction ...
RevokeSessions(r, ids) ==
    /\ In(r, "idle")
    /\ ids # {} /\ \A s \in ids : ~sessRow[s].revoked
    /\ sessRow' = [s \in SessionIds |-> [sessRow[s] EXCEPT !.revoked = @ \/ s \in ids]]
    /\ Set(r, [NoReq EXCEPT !.at = "deny", !.ids = ids])
    /\ UNCHANGED <<sessUser, sessTokens, sessDenied, sessCached, sessCacheUp, sessOut>>

RevokeSession(r, s) == RevokeSessions(r, {s})

RevokeOtherSessions(r, keep) ==
    RevokeSessions(r, {s \in SessionIds \ {keep} : ~sessRow[s].revoked})

\* ... and then denies each one's access tokens, a failure being logged.
denySession(r) ==
    /\ In(r, "deny")
    /\ \E s \in sessReq[r].ids :
          /\ IF sessCacheUp THEN /\ sessDenied' = sessDenied \cup {s}
                                 /\ sessOut' = sessOut \cup {s}
             ELSE UNCHANGED <<sessDenied, sessOut>>
          /\ IF sessReq[r].ids = {s} THEN Done(r)
             ELSE Set(r, [sessReq[r] EXCEPT !.ids = @ \ {s}])
    /\ UNCHANGED <<sessRow, sessUser, sessTokens, sessCached, sessCacheUp>>

\* The entry lapses when no access token it could meet is left.
DenyLapses(s) ==
    /\ s \in sessDenied
    /\ \A t \in sessTokens : t.s # s
    /\ \A r \in Requests : sessReq[r].at = "refresh" => sessReq[r].s # s
    /\ sessDenied' = sessDenied \ {s}
    /\ UNCHANGED <<sessRow, sessUser, sessTokens, sessCached, sessCacheUp, sessReq, sessOut>>

\* A new password, or none, raises token_version and nothing else.
SetTwoStepPassword ==
    /\ sessUser.active /\ sessUser.ver < MaxVersions
    /\ sessUser' = [sessUser EXCEPT !.ver = @ + 1]
    /\ UNCHANGED <<sessRow, sessTokens, sessDenied, sessCached, sessCacheUp, sessReq, sessOut>>

\* The reset of the second factor raises token_version and revokes every session.
ResetTwoStep ==
    /\ sessUser.ver < MaxVersions
    /\ sessUser' = [sessUser EXCEPT !.ver = @ + 1]
    /\ sessRow' = [s \in SessionIds |-> [sessRow[s] EXCEPT !.revoked = TRUE]]
    /\ UNCHANGED <<sessTokens, sessDenied, sessCached, sessCacheUp, sessReq, sessOut>>

\* An administrator suspends the account, with every session of it, or reinstates it ...
SetUserStatus(r, active) ==
    /\ In(r, "idle")
    /\ sessUser.ver < MaxVersions
    /\ sessUser' = [ver |-> sessUser.ver + 1, active |-> active]
    /\ sessRow' = [s \in SessionIds |-> [sessRow[s] EXCEPT !.revoked = @ \/ ~active]]
    /\ Set(r, [NoReq EXCEPT !.at = "invalidate"])
    /\ UNCHANGED <<sessTokens, sessDenied, sessCached, sessCacheUp, sessOut>>

\* ... and then the cached state is dropped, if the cache answers.
InvalidateUserCache(r) ==
    /\ In(r, "invalidate")
    /\ sessCached' = IF sessCacheUp THEN {} ELSE sessCached
    /\ Done(r)
    /\ UNCHANGED <<sessRow, sessUser, sessTokens, sessDenied, sessCacheUp, sessOut>>

\* userCacheTTL
CacheLapses ==
    /\ sessCached # {}
    /\ sessCached' = {}
    /\ UNCHANGED <<sessRow, sessUser, sessTokens, sessDenied, sessCacheUp, sessReq, sessOut>>

\* The cache goes away and comes back with what it held.
CacheUpDown ==
    /\ sessCacheUp' = ~sessCacheUp
    /\ UNCHANGED <<sessRow, sessUser, sessTokens, sessDenied, sessCached, sessReq, sessOut>>

Next ==
    \/ \E r \in Requests :
         \/ \E s \in SessionIds, t \in 1 .. MaxRotations : RotateRefreshToken(r, s, t)
         \/ \E t \in sessTokens : authenticate(r, t)
         \/ \E s \in SessionIds : RevokeSession(r, s) \/ RevokeOtherSessions(r, s)
         \/ Refresh(r) \/ userWithCache(r) \/ AuthenticateToken(r) \/ denySession(r)
         \/ InvalidateUserCache(r) \/ \E active \in BOOLEAN : SetUserStatus(r, active)
    \/ \E t \in sessTokens : TokenExpires(t)
    \/ \E s \in SessionIds : DenyLapses(s)
    \/ SetTwoStepPassword \/ ResetTwoStep \/ CacheLapses \/ CacheUpDown

Spec == Init /\ [][Next]_sessVars

-----------------------------------------------------------------------------
(* Properties *)

\* No request that starts after a sign-out has reached the denylist is let in by a token
\* of that session: not by a refresh that was under way, not while the cache is down, not
\* after it came back (AuthenticateToken, denySession).
SignedOutStaysOut ==
    \A r \in Requests : sessReq[r].late => sessReq[r].at # "admitted"

-----------------------------------------------------------------------------
(* What the repository says of this code and the code does not do *)

\* middleware.go:194 says InvalidateUserCache is "used after a ban or a role change so the
\* effect is immediate": a request that read the account before the change writes what
\* it read into the cache after the entry was dropped, where it stays for its 30 seconds.
CacheIsFresh ==
    sessCached \subseteq {sessUser}
=============================================================================
