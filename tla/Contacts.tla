------------------------------ MODULE Contacts ------------------------------
(***************************************************************************)
(* Address books, blocks and contact requests                              *)
(* (backend/internal/contacts): two people who add, sync, block and ask    *)
(* each other at the same time.                                            *)
(*                                                                         *)
(* A pair <<owner, other>> names an entry of a book, a block or the        *)
(* direction of a request.  A transaction that takes a row lock is two     *)
(* steps, the locking read and the commit; a sync is the match and, later, *)
(* the write.                                                              *)
(***************************************************************************)
EXTENDS Naturals, FiniteSets

CONSTANTS
    People,          \* two users
    Handlers,        \* requests in flight at the same time
    MaxAsked         \* bound on the contact requests of a direction

Pairs == {p \in People \X People : p[1] # p[2]}
Back(p) == <<p[2], p[1]>>

VARIABLES
    ctBook,       \* contacts
    ctFavorite,   \* contacts.is_favorite
    ctBlocked,    \* blocked_users
    ctAsked,      \* contact_requests: direction -> status of each, oldest first
    ctReq,        \* handler -> what it does and what it has read
    ctResolved    \* (ghost) <<direction, number, outcome>> answered with success

ctVars == <<ctBook, ctFavorite, ctBlocked, ctAsked, ctReq, ctResolved>>

Free == [at |-> "idle", pair |-> <<>>, nth |-> 0, to |-> "", match |-> {}]
In(h, at) == ctReq[h].at = at
Done(h) == ctReq' = [ctReq EXCEPT ![h] = Free]

Init ==
    /\ ctBook = {} /\ ctFavorite = {} /\ ctBlocked = {}
    /\ ctAsked = [p \in Pairs |-> [n \in 1 .. MaxAsked |-> "none"]]
    /\ ctReq = [h \in Handlers |-> Free]
    /\ ctResolved = {}

Add(p) ==
    /\ ctBook' = ctBook \cup {p}
    /\ UNCHANGED <<ctFavorite, ctBlocked, ctAsked, ctReq, ctResolved>>

Remove(p) ==
    /\ p \in ctBook
    /\ ctBook' = ctBook \ {p} /\ ctFavorite' = ctFavorite \ {p}
    /\ UNCHANGED <<ctBlocked, ctAsked, ctReq, ctResolved>>

SetFavorite(p) ==
    /\ p \in ctBook
    /\ ctFavorite' \in {ctFavorite \cup {p}, ctFavorite \ {p}}
    /\ UNCHANGED <<ctBook, ctBlocked, ctAsked, ctReq, ctResolved>>

\* Blocking takes each out of the other's book, in the transaction of the block.
Block(p) ==
    /\ ctBlocked' = ctBlocked \cup {p}
    /\ ctBook' = ctBook \ {p, Back(p)}
    /\ ctFavorite' = ctFavorite \ {p, Back(p)}
    /\ UNCHANGED <<ctAsked, ctReq, ctResolved>>

Unblock(p) ==
    /\ p \in ctBlocked
    /\ ctBlocked' = ctBlocked \ {p}
    /\ UNCHANGED <<ctBook, ctFavorite, ctAsked, ctReq, ctResolved>>

\* Numbers are matched with accounts that have not blocked the caller ...
MatchByHash(book) == {p \in book : Back(p) \notin ctBlocked}

Sync(h, u, book) ==
    /\ In(h, "idle")
    /\ ctReq' = [ctReq EXCEPT ![h] = [Free EXCEPT !.at = "sync", !.to = u, !.match = MatchByHash(book)]]
    /\ UNCHANGED <<ctBook, ctFavorite, ctBlocked, ctAsked, ctResolved>>

Pruned(u, match) == {p \in ctBook : p[1] = u} \ match

\* ... and a full sync makes the book the matched set, keeping the rows that stay.
ReplaceContacts(h) ==
    LET r == ctReq[h] IN
    /\ In(h, "sync")
    /\ ctBook' = (ctBook \ Pruned(r.to, r.match)) \cup r.match
    /\ ctFavorite' = ctFavorite \ Pruned(r.to, r.match)
    /\ Done(h)
    /\ UNCHANGED <<ctBlocked, ctAsked, ctResolved>>

IsBlocked(p) == {p, Back(p)} \cap ctBlocked # {}
Mutual(p) == {p, Back(p)} \subseteq ctBook
Pending(p) == \E n \in 1 .. MaxAsked : ctAsked[p][n] = "pending"
Unused(p) == {n \in 1 .. MaxAsked : ctAsked[p][n] = "none"}

\* A request to someone who is no contact yet and blocks nobody; one that is open is
\* returned again, with a new message.
CreateRequest(p) ==
    /\ ~IsBlocked(p) /\ ~Mutual(p)
    /\ ~Pending(p) /\ Unused(p) # {}
    /\ LET n == CHOOSE k \in Unused(p) : \A l \in Unused(p) : k <= l
       IN  ctAsked' = [ctAsked EXCEPT ![p][n] = "pending"]
    /\ UNCHANGED <<ctBook, ctFavorite, ctBlocked, ctReq, ctResolved>>

\* A form in which the request is read without its lock.
NotLocked(h, p, n) == TRUE

RequestLocked(h, p, n) ==
    \A g \in Handlers \ {h} : In(g, "resolve") => <<ctReq[g].pair, ctReq[g].nth>> # <<p, n>>

\* The request is read FOR UPDATE: it is pending, and this outcome is the actor's to give.
Resolve(h, actor, p, n, outcome) ==
    /\ In(h, "idle")
    /\ RequestLocked(h, p, n)
    /\ ctAsked[p][n] = "pending"
    /\ actor = IF outcome = "cancelled" THEN p[1] ELSE p[2]
    /\ ctReq' = [ctReq EXCEPT ![h] = [Free EXCEPT !.at = "resolve", !.pair = p, !.nth = n, !.to = outcome]]
    /\ UNCHANGED <<ctBook, ctFavorite, ctBlocked, ctAsked, ctResolved>>

\* The status, and with an acceptance the entries in both books, are committed.
ResolveRequest(h) ==
    LET r == ctReq[h] IN
    /\ In(h, "resolve")
    /\ ctAsked' = [ctAsked EXCEPT ![r.pair][r.nth] = r.to]
    /\ ctBook' = IF r.to = "accepted" THEN ctBook \cup {r.pair, Back(r.pair)} ELSE ctBook
    /\ ctResolved' = ctResolved \cup {<<r.pair, r.nth, r.to>>}
    /\ Done(h)
    /\ UNCHANGED <<ctFavorite, ctBlocked>>

Next ==
    \/ \E p \in Pairs : Add(p) \/ Remove(p) \/ SetFavorite(p) \/ Block(p) \/ Unblock(p) \/ CreateRequest(p)
    \/ \E h \in Handlers :
         \/ \E u \in People, book \in SUBSET Pairs :
               (\A p \in book : p[1] = u) /\ Sync(h, u, book)
         \/ \E u \in People, p \in Pairs, n \in 1 .. MaxAsked,
              outcome \in {"accepted", "rejected", "cancelled"} : Resolve(h, u, p, n, outcome)
         \/ ReplaceContacts(h) \/ ResolveRequest(h)

Spec == Init /\ [][Next]_ctVars

-----------------------------------------------------------------------------
(* Properties *)

\* A contact request is answered once: an acceptance and a cancellation that cross are not
\* both told they succeeded, and what was told is what the request says
\* (Repository.ResolveRequest).
RequestResolvedOnce ==
    \A x \in ctResolved :
        /\ ctAsked[x[1]][x[2]] = x[3]
        /\ \A y \in ctResolved : x[1] = y[1] /\ x[2] = y[2] => x = y

\* A full sync that still finds a person leaves their favourite flag alone
\* (ReplaceContacts: "the delete spares them").
SparesFavorites ==
    \A h \in Handlers : In(h, "sync") /\ ctReq'[h] = Free =>
        ctFavorite \cap ctReq[h].match \subseteq ctFavorite'

SyncKeepsFavorites == [][SparesFavorites]_ctVars

-----------------------------------------------------------------------------
(* What the repository says of this code and the code does not do *)

\* contacts.go:246 says "Blocking implies removing the contact in both directions": a
\* request that is accepted, an Add or a sync puts the entry back while the block stands.
BlockedIsNoContact == \A p \in ctBlocked : {p, Back(p)} \cap ctBook = {}
=============================================================================
