------------------------------ MODULE AntiSpam ------------------------------
(***************************************************************************)
(* Rate limits and the anti-spam score of one account                      *)
(* (backend/internal/ratelimit, backend/internal/antispam, and the calls   *)
(* of messaging and auth): a sliding window in Redis decides on every send *)
(* and every code request, refused sends, blocks and reports raise a       *)
(* score, the score restricts the account for a while and decays.          *)
(*                                                                         *)
(* Time is a clock of a few ticks that never passes an event by: what the  *)
(* code compares with `now' is compared with the clock.  Weights,          *)
(* threshold and periods are parameters with the code's relations.         *)
(***************************************************************************)
EXTENDS Naturals, FiniteSets

CONSTANTS
    Limit, Window,                   \* a Rule: Limit events per Window ticks; 0 is no limit
    Processes,                       \* how many API processes count with the one window
    WeightReport, WeightBlock, WeightRateLimit,   \* what a report and a refused send add to the score
    RestrictThreshold, RestrictFor,  \* from this score, for this long
    DecayPerDay, TicksPerDay,        \* what the score sheds
    SweepAge,                        \* rows younger than this are left alone (an hour)
    MaxClock, MaxScore               \* bounds on the clock and on the score

Rules == {"messages_user", "otp_phone"}
FailClosed(rule) == rule = "otp_phone"

VARIABLES
    asNow,       \* the clock
    asRedis,     \* Redis answers
    asWindow,    \* rl:<rule>: <<time, member>> of the sorted set
    asScore,     \* spam_scores: score, restricted_until, updated_at; NoScore if there is no row
    asAllowed,   \* (ghost) what the rule that fails closed let through in the last Window ticks
    asSentence   \* (ghost) the latest end of a restriction that was imposed and not lifted

asVars == <<asNow, asRedis, asWindow, asScore, asAllowed, asSentence>>

NoScore == [score |-> 0, until |-> 0, updated |-> 0, row |-> FALSE]

Init ==
    /\ asNow = 1 /\ asRedis = TRUE
    /\ asWindow = [r \in Rules |-> {}]
    /\ asScore = NoScore
    /\ asAllowed = {}
    /\ asSentence = 0

Tick ==
    /\ asNow < MaxClock
    /\ asNow' = asNow + 1
    /\ asAllowed' = {e \in asAllowed : e[1] > asNow' - Window}
    /\ UNCHANGED <<asRedis, asWindow, asScore, asSentence>>

RedisFails ==
    /\ asRedis' = ~asRedis
    /\ UNCHANGED <<asNow, asWindow, asScore, asAllowed, asSentence>>

\* ZREMRANGEBYSCORE key -inf now-window
Pruned(rule) == {e \in asWindow[rule] : e[1] > asNow - Window}

\* Two events of one microsecond are two members: the suffix is a counter.  It is a counter of
\* the process, so another process may form the member of the same microsecond again.
randomSuffix(rule) ==
    LET ofNow == {e \in Pruned(rule) : e[1] = asNow}
    IN  {<<asNow, 1 + Cardinality(ofNow)>>} \cup (IF Processes > 1 THEN ofNow ELSE {})

\* The script decides and records in one step, while Redis answers ...
slidingWindowScript(rule) ==
    /\ asRedis
    /\ Cardinality(Pruned(rule)) < Limit
    /\ \E member \in randomSuffix(rule) :
          asWindow' = [asWindow EXCEPT ![rule] = Pruned(rule) \cup {member}]

\* ... and the rule says what happens when it does not.
Degraded(rule) == ~asRedis /\ ~FailClosed(rule) /\ UNCHANGED asWindow

\* A limit of zero is none: everything is let through, and nothing recorded.
Allow(rule) ==
    /\ IF Limit = 0 THEN UNCHANGED asWindow
       ELSE slidingWindowScript(rule) \/ Degraded(rule)
    /\ asAllowed' = IF FailClosed(rule)
                    THEN asAllowed \cup {<<asNow, 1 + Cardinality({e \in asAllowed : e[1] = asNow})>>}
                    ELSE asAllowed

Refused(rule) ==
    /\ Limit > 0 /\ asRedis /\ Cardinality(Pruned(rule)) >= Limit
    /\ asWindow' = [asWindow EXCEPT ![rule] = Pruned(rule)]

Larger(m, n) == IF m > n THEN m ELSE n

\* A form in which a new signal decides the restriction anew.
RecordAnew(s, weight) ==
    [row |-> TRUE, score |-> s.score + weight, updated |-> asNow,
     until |-> IF s.score + weight >= RestrictThreshold THEN asNow + RestrictFor ELSE 0]

\* One upsert: the score grows, and from the threshold on the restriction is never shortened.
Record(s, weight) ==
    [row |-> TRUE, score |-> s.score + weight, updated |-> asNow,
     until |-> IF s.score + weight >= RestrictThreshold
               THEN Larger(s.until, asNow + RestrictFor) ELSE s.until]

Signal(weight) ==
    /\ asScore.score + weight <= MaxScore
    /\ asScore' = Record(asScore, weight)
    /\ asSentence' = IF asScore.score + weight >= RestrictThreshold
                     THEN Larger(asSentence, asNow + RestrictFor) ELSE asSentence

\* A send that fits the window goes on to the restriction, which holds for strangers only.
Send ==
    /\ Allow("messages_user")
    /\ UNCHANGED <<asNow, asRedis, asScore, asSentence>>

\* A refused send is a signal; one that could not be written fails nothing.
RateLimited ==
    /\ Refused("messages_user")
    /\ Signal(WeightRateLimit) \/ UNCHANGED <<asScore, asSentence>>
    /\ UNCHANGED <<asNow, asRedis, asAllowed>>

Reported ==
    /\ Signal(WeightReport)
    /\ UNCHANGED <<asNow, asRedis, asWindow, asAllowed>>

Blocked ==
    /\ Signal(WeightBlock)
    /\ UNCHANGED <<asNow, asRedis, asWindow, asAllowed>>

checkLimit ==
    /\ Allow("otp_phone")
    /\ UNCHANGED <<asNow, asRedis, asScore, asSentence>>

\* A successful sign-in clears the window; a failure to is ignored.
Reset ==
    /\ asRedis
    /\ asWindow' = [asWindow EXCEPT !["otp_phone"] = {}]
    /\ asAllowed' = {}
    /\ UNCHANGED <<asNow, asRedis, asScore, asSentence>>

\* (now - updated_at) / day * DecayPerDay, rounded to an integer
Shed(elapsed) == (2 * elapsed * DecayPerDay + TicksPerDay) \div (2 * TicksPerDay)

Decayed(s) ==
    IF s.score > 0 /\ s.updated + SweepAge < asNow
    THEN [s EXCEPT !.score = IF Shed(asNow - s.updated) >= s.score THEN 0 ELSE s.score - Shed(asNow - s.updated),
                   !.updated = asNow]
    ELSE s

Spent(s) == s.score = 0 /\ (s.until = 0 \/ s.until < asNow)

\* The sweep of the worker, one transaction.
Decay ==
    /\ asScore.row
    /\ LET s == Decayed(asScore) IN asScore' = IF Spent(s) THEN NoScore ELSE s
    /\ UNCHANGED <<asNow, asRedis, asWindow, asAllowed, asSentence>>

Clear == asScore' = NoScore

\* A moderator clears the score and the restriction with it.
Lift ==
    /\ asScore.row
    /\ Clear /\ asSentence' = 0
    /\ UNCHANGED <<asNow, asRedis, asWindow, asAllowed>>

Restricted == asScore.row /\ asScore.until > asNow

Next ==
    \/ Tick \/ RedisFails \/ Send \/ RateLimited \/ Reported \/ Blocked \/ checkLimit \/ Reset \/ Decay \/ Lift

Spec == Init /\ [][Next]_asVars

-----------------------------------------------------------------------------
(* Properties *)

\* With one API process and a limit that is not zero: at no moment were more than Limit events of
\* a rule that fails closed let through in the Window before it, since its last reset, whatever
\* Redis did meanwhile (slidingWindowScript, Limiter.Allow).
LimitHolds == Limit > 0 /\ Processes = 1 => Cardinality(asAllowed) <= Limit

\* A restriction lasts until its time is over or a moderator lifts it: neither a later
\* signal nor the decay of the score releases the account early (Repository.Record, Decay).
RestrictionServed == asSentence > asNow => Restricted

\* Both together: neither the limiter's window nor the ledger's sentence is ever cut short.
LimitsAreKept == LimitHolds /\ RestrictionServed

-----------------------------------------------------------------------------
(* What the repository says of this code and the code does not do *)

\* antispam.go:162 says of Decay "the result does not depend on how often the worker happens to
\* run": each sweep rounds what it sheds, so two sweeps may shed less, or more, than one.
DecayIsPaceFree == \A d, e \in 1 .. MaxClock : d > SweepAge /\ e > SweepAge => Shed(d) + Shed(e) = Shed(d + e)

\* rules.go:59 says of the counter "disambiguates two events recorded in the same microsecond",
\* and that "members must be unique": two processes may form the same member, and the window then
\* holds one event for the two that were let through.
LimitHoldsOnEveryNode == Limit > 0 => Cardinality(asAllowed) <= Limit
=============================================================================
