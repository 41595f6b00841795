------------------------------ MODULE Presence ------------------------------
(***************************************************************************)
(* Who is online (backend/internal/presence): one key with a time to live  *)
(* per device and one set of devices per user in Redis, written by every   *)
(* WebSocket connection when it starts and when it ends (Handler.ServeHTTP *)
(* in backend/internal/realtime/handler.go).  Each command to Redis and    *)
(* each publication is a step; connections of one device overlap when it   *)
(* reconnects before the server has noticed that the old socket is dead.   *)
(***************************************************************************)
EXTENDS Naturals

CONSTANTS
    Users, Devices, Connections,
    Owner,        \* device -> its user
    Faults        \* the faults this instance exhibits: "cache", "lapse"

VARIABLES
    at,           \* connection -> where ServeHTTP stands
    device,       \* connection -> the device it authenticated as
    key,          \* devices whose presence key exists
    listed,       \* devices in the presence set of their user
    lastSeen,     \* users with a last_seen key
    announced,    \* user -> "online" or "offline", as last announced
    failed        \* (ghost) a command to Redis has failed

vars == <<at, device, key, listed, lastSeen, announced, failed>>

Steps == {"new", "marking", "announcing", "serving",
          "left", "unlisting", "checking", "retracting", "done"}

User(s) == Owner[device[s]]
Goto(s, step) == at' = [at EXCEPT ![s] = step] /\ UNCHANGED device

\* Redis does what it is asked to, or it does not and nothing changes.
Works == UNCHANGED failed
Fails == "cache" \in Faults /\ failed' = TRUE

Init ==
    /\ at = [s \in Connections |-> "new"]
    /\ device \in [Connections -> Devices]
    /\ key = {} /\ listed = {} /\ lastSeen = {}
    /\ announced = [u \in Users |-> "offline"]
    /\ failed = FALSE

IsOnline(u) == \E d \in key \cap listed : Owner[d] = u

-----------------------------------------------------------------------------
(* MarkOnline: the key, the set, the announcement. *)

\* Without its key the connection is served unannounced.
MarkOnline(s) ==
    /\ at[s] = "new"
    /\ \/ Works /\ key' = key \cup {device[s]} /\ Goto(s, "marking")
       \/ Fails /\ key' = key /\ Goto(s, "serving")
    /\ UNCHANGED <<listed, lastSeen, announced>>

AddDevice(s) ==
    /\ at[s] = "marking"
    /\ \/ Works /\ listed' = listed \cup {device[s]}
       \/ Fails /\ UNCHANGED listed
    /\ Goto(s, "announcing")
    /\ UNCHANGED <<key, lastSeen, announced>>

AnnounceOnline(s) ==
    /\ at[s] = "announcing"
    /\ announced' = [announced EXCEPT ![User(s)] = "online"]
    /\ Goto(s, "serving")
    /\ UNCHANGED <<key, listed, lastSeen, failed>>

\* readPump returns.
Leave(s) ==
    /\ at[s] = "serving"
    /\ Goto(s, "left")
    /\ UNCHANGED <<key, listed, lastSeen, announced, failed>>

-----------------------------------------------------------------------------
(* MarkOffline: the key, the set, and the announcement if no key is left. *)

\* A form in which a key that is gone already ends the call.
DeleteKeyIfThere(s) ==
    /\ at[s] = "left"
    /\ key' = key \ {device[s]}
    /\ Goto(s, IF device[s] \in key THEN "unlisting" ELSE "done")
    /\ UNCHANGED <<listed, lastSeen, announced, failed>>

\* A form that leaves the key to run out.
DeleteKeyForgotten(s) ==
    /\ at[s] = "left"
    /\ Goto(s, "unlisting")
    /\ UNCHANGED <<key, listed, lastSeen, announced, failed>>

DeleteKey(s) ==
    /\ at[s] = "left"
    /\ \/ Works /\ key' = key \ {device[s]}
       \/ Fails /\ UNCHANGED key
    /\ Goto(s, "unlisting")
    /\ UNCHANGED <<listed, lastSeen, announced>>

\* SRem, and the time the user was last seen.
RemoveDevice(s) ==
    /\ at[s] = "unlisting"
    /\ \/ Works /\ listed' = listed \ {device[s]} /\ lastSeen' = lastSeen \cup {User(s)}
       \/ Fails /\ listed' = listed /\ lastSeen' \in {lastSeen, lastSeen \cup {User(s)}}
       \/ Fails /\ listed' = listed \ {device[s]} /\ lastSeen' = lastSeen
    /\ Goto(s, "checking")
    /\ UNCHANGED <<key, announced>>

\* An error while asking counts as offline.
CheckLast(s) ==
    /\ at[s] = "checking"
    /\ \/ Works /\ Goto(s, IF IsOnline(User(s)) THEN "done" ELSE "retracting")
       \/ Fails /\ Goto(s, "retracting")
    /\ UNCHANGED <<key, listed, lastSeen, announced>>

AnnounceOffline(s) ==
    /\ at[s] = "retracting"
    /\ announced' = [announced EXCEPT ![User(s)] = "offline"]
    /\ Goto(s, "done")
    /\ UNCHANGED <<key, listed, lastSeen, failed>>

MarkOffline(s) == DeleteKey(s) \/ RemoveDevice(s) \/ CheckLast(s) \/ AnnounceOffline(s)

\* A form whose device keys carry no time to live.
LapseSetOnly ==
    /\ "lapse" \in Faults
    /\ \E u \in Users :
         /\ \A d \in key : Owner[d] # u
         /\ \E d \in listed : Owner[d] = u
         /\ listed' = {d \in listed : Owner[d] # u}
    /\ UNCHANGED <<at, device, key, lastSeen, announced, failed>>

\* onlineTTL runs out on a key, and twice that on the set.  MarkOnline starts
\* both anew and nothing extends them: Refresh has no caller.
Lapse ==
    /\ "lapse" \in Faults
    /\ \/ \E d \in key : key' = key \ {d} /\ listed' = listed
       \/ \E u \in Users :
            /\ \A d \in key : Owner[d] # u
            /\ \E d \in listed : Owner[d] = u
            /\ listed' = {d \in listed : Owner[d] # u}
            /\ key' = key
    /\ UNCHANGED <<at, device, lastSeen, announced, failed>>

Finished == (\A s \in Connections : at[s] = "done") /\ UNCHANGED vars

Next ==
    \/ \E s \in Connections :
         \/ MarkOnline(s) \/ AddDevice(s) \/ AnnounceOnline(s)
         \/ Leave(s) \/ MarkOffline(s)
    \/ Lapse \/ Finished

Spec == Init /\ [][Next]_vars

\* Connections need not end, but Redis expires keys.
FairSpec == Spec /\ WF_vars(Lapse)

-----------------------------------------------------------------------------
(* Properties. *)

TypeOK ==
    /\ at \in [Connections -> Steps] /\ device \in [Connections -> Devices]
    /\ key \subseteq Devices /\ listed \subseteq Devices /\ lastSeen \subseteq Users
    /\ announced \in [Users -> {"online", "offline"}] /\ failed \in BOOLEAN

\* Once every connection of a user has gone, the user is offline, was last
\* announced offline and has a last_seen, however the ends of several
\* connections, of one device or of several, overlap with each other and with
\* new connections (MarkOnline, MarkOffline), until a command to Redis fails.
QuietMeansOffline ==
    failed \/ \A u \in Users :
        LET mine == {s \in Connections : User(s) = u} IN
        (\A s \in mine : at[s] \in {"new", "done"}) /\ (\E s \in mine : at[s] = "done")
            => ~ IsOnline(u) /\ announced[u] = "offline" /\ u \in lastSeen

\* Every presence key belongs to a connection that has yet to remove it
\* (ServeHTTP pairs MarkOnline with MarkOffline): no device stays online by
\* itself, whatever order the connections of a device end in, until a command
\* to Redis fails.
NoGhostDevice ==
    failed \/ \A d \in key : \E s \in Connections :
        device[s] = d /\ at[s] \in {"marking", "announcing", "serving", "left"}

\* Whatever Redis failed to do, a user whose connections have all gone reads
\* as offline in the end: the keys carry a time to live (onlineTTL).
GoneReadsOffline ==
    (\A s \in Connections : at[s] = "done") ~> \A u \in Users : ~ IsOnline(u)

-----------------------------------------------------------------------------
\* What the repository says of this code and the code does not do. These
\* formulas are violated; README.md says under which constants.

\* A user with a connection that is being served is online: "a live connection
\* keeps refreshing it well before it lapses" (presence.go).
LiveIsOnline ==
    \A s \in Connections : at[s] = "serving" => IsOnline(User(s))

\* presence.offline is announced "when the user's last device goes away"
\* (MarkOffline).
OfflineMeansLastDevice ==
    [][\A s \in Connections : AnnounceOffline(s) =>
          ~ \E t \in Connections : User(t) = User(s) /\ at[t] = "serving"]_vars

\* presence.online is announced "when this is the user's first live device"
\* (MarkOnline).
OnlineMeansFirstDevice ==
    [][\A s \in Connections : AnnounceOnline(s) =>
          ~ \E t \in Connections :
                User(t) = User(s) /\ device[t] \in key \ {device[s]} /\ at[t] = "serving"]_vars
=============================================================================
