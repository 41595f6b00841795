------------------------------ MODULE Stories -------------------------------
(***************************************************************************)
(* Stories (backend/internal/stories): posts that expire, the rule that    *)
(* says who sees one, written out in the feed's query and again in the     *)
(* query before a view is recorded, and the counter of its viewers.        *)
(*                                                                         *)
(* A view is two steps, the check and the transaction that records it.     *)
(***************************************************************************)
EXTENDS Naturals, FiniteSets

CONSTANTS
    StoryUsers,      \* authors and viewers
    StoryHandlers,   \* requests in flight at the same time
    MaxStories       \* bound on the stories posted

StoryIds == 1 .. MaxStories
Privacies == {"everyone", "contacts", "close_friends", "selected"}
Links == {l \in StoryUsers \X StoryUsers : l[1] # l[2]}

VARIABLES
    stStory,     \* stories: id -> row
    stViews,     \* story_views: <<story, viewer>>
    stFriends,   \* close_friends: <<owner, friend>>
    stBook,      \* contacts: <<owner, contact>>
    stPoster,    \* the users who may post stories for the channel
    stReq,       \* handler -> what it does and what it has read
    stGone       \* users with deleted_at set

stVars == <<stStory, stViews, stFriends, stBook, stPoster, stReq, stGone>>

NoStory == [by |-> "nobody", channel |-> FALSE, privacy |-> "contacts", allow |-> {}, deny |-> {},
            views |-> 0, deleted |-> FALSE, expired |-> FALSE]
Idle == [at |-> "idle", story |-> 0, viewer |-> "nobody"]
In(h, at) == stReq[h].at = at
Done(h) == stReq' = [stReq EXCEPT ![h] = Idle]
Posted(s) == stStory[s] # NoStory

Init ==
    /\ stStory = [s \in StoryIds |-> NoStory]
    /\ stViews = {} /\ stFriends = {} /\ stBook = {} /\ stPoster = {} /\ stGone = {}
    /\ stReq = [h \in StoryHandlers |-> Idle]

\* A story for selected people names at least one; one of a channel needs post_stories in it.
Publishable(u, channel, privacy, allow) ==
    /\ privacy = "selected" => allow # {}
    /\ channel => u \in stPoster

Create(row) ==
    \E s \in StoryIds :
        /\ ~Posted(s) /\ \A t \in StoryIds : t < s => Posted(t)
        /\ stStory' = [stStory EXCEPT ![s] = row]

create(u, channel, privacy, allow, deny) ==
    /\ u \notin stGone
    /\ Publishable(u, channel, privacy, allow)
    /\ Create([NoStory EXCEPT !.by = u, !.channel = channel, !.privacy = privacy, !.allow = allow, !.deny = deny])
    /\ UNCHANGED <<stViews, stFriends, stBook, stPoster, stReq, stGone>>

Live(s) == Posted(s) /\ ~stStory[s].deleted /\ ~stStory[s].expired

\* The feed's join and WHERE clause; the answer is the newest of these ...
Feed(u) ==
    {s \in StoryIds :
        LET row == stStory[s] IN
        /\ row.by \notin stGone
        /\ Live(s)
        /\ u \notin row.deny
        /\ \/ row.by = u
           \/ row.privacy = "everyone"
           \/ row.privacy = "contacts" /\ <<row.by, u>> \in stBook
           \/ row.privacy = "close_friends" /\ <<row.by, u>> \in stFriends
           \/ row.privacy = "selected" /\ u \in row.allow}

\* A form in which the second copy of the rule knows no close friends.
CanViewFew(s, u) ==
    /\ stStory[s].by = u \/ stStory[s].privacy = "everyone" \/ u \in stStory[s].allow
    /\ u \notin stStory[s].deny

\* ... and the rule once more, as the query of CanView has it: it does not join users.
CanView(s, u) ==
    /\ \/ stStory[s].by = u
       \/ stStory[s].privacy = "everyone"
       \/ stStory[s].privacy = "contacts" /\ <<stStory[s].by, u>> \in stBook
       \/ stStory[s].privacy = "close_friends" /\ <<stStory[s].by, u>> \in stFriends
       \/ stStory[s].privacy = "selected" /\ u \in stStory[s].allow
    /\ u \notin stStory[s].deny

\* View tells a reader who may not see the story that there is none.
View(s, u) == Live(s) /\ CanView(s, u)

view(h, s, u) ==
    /\ In(h, "idle") /\ u \notin stGone
    /\ View(s, u)
    /\ stReq' = [stReq EXCEPT ![h] = [Idle EXCEPT !.at = "view", !.story = s, !.viewer = u]]
    /\ UNCHANGED <<stStory, stViews, stFriends, stBook, stPoster, stGone>>

\* RETURNING (xmax = 0): the upsert made the row.
Inserted(v) == v \notin stViews

RecordView(h) ==
    LET v == <<stReq[h].story, stReq[h].viewer>> IN
    /\ In(h, "view")
    /\ stViews' = stViews \cup {v}
    /\ stStory' = IF Inserted(v) THEN [stStory EXCEPT ![v[1]].views = @ + 1] ELSE stStory
    /\ Done(h)
    /\ UNCHANGED <<stFriends, stBook, stPoster, stGone>>

Delete(s, u) ==
    /\ Posted(s) /\ stStory[s].by = u /\ ~stStory[s].deleted
    /\ stStory' = [stStory EXCEPT ![s].deleted = TRUE]

deleteStory(s, u) ==
    /\ u \notin stGone
    /\ Delete(s, u)
    /\ UNCHANGED <<stViews, stFriends, stBook, stPoster, stReq, stGone>>

\* The list is replaced in one transaction.
SetCloseFriends(u, friends) ==
    stFriends' = {l \in stFriends : l[1] # u} \cup {<<u, f>> : f \in friends}

setCloseFriends(u, friends) ==
    /\ u \notin stGone
    /\ SetCloseFriends(u, friends)
    /\ UNCHANGED <<stStory, stViews, stBook, stPoster, stReq, stGone>>

\* A day passes.
Expires(s) ==
    /\ Live(s)
    /\ stStory' = [stStory EXCEPT ![s].expired = TRUE]
    /\ UNCHANGED <<stViews, stFriends, stBook, stPoster, stReq, stGone>>

\* Contacts and channel permissions change beside all this.
Befriend(l) ==
    /\ l[1] \notin stGone /\ l[2] \notin stGone
    /\ stBook' = IF l \in stBook THEN stBook \ {l} ELSE stBook \cup {l}
    /\ UNCHANGED <<stStory, stViews, stFriends, stPoster, stReq, stGone>>

Appoint(u) ==
    /\ u \notin stGone
    /\ stPoster' = IF u \in stPoster THEN stPoster \ {u} ELSE stPoster \cup {u}
    /\ UNCHANGED <<stStory, stViews, stFriends, stBook, stReq, stGone>>

\* An account is erased: its sessions end, its contacts and memberships go; its stories, and the
\* close friends' lists it is on, stay.
Erase(u) ==
    /\ u \notin stGone
    /\ stGone' = stGone \cup {u}
    /\ stBook' = {l \in stBook : u \notin {l[1], l[2]}}
    /\ stPoster' = stPoster \ {u}
    /\ UNCHANGED <<stStory, stViews, stFriends, stReq>>

Next ==
    \/ \E h \in StoryHandlers :
        \/ RecordView(h)
        \/ \E s \in StoryIds, u \in StoryUsers : view(h, s, u)
    \/ \E s \in StoryIds : Expires(s) \/ \E u \in StoryUsers : deleteStory(s, u)
    \/ \E u \in StoryUsers, channel \in BOOLEAN, privacy \in Privacies, allow, deny \in SUBSET StoryUsers :
          create(u, channel, privacy, allow, deny)
    \/ \E u \in StoryUsers :
        \/ Appoint(u) \/ Erase(u)
        \/ \E friends \in SUBSET (StoryUsers \ {u}) : setCloseFriends(u, friends)
    \/ \E l \in Links : Befriend(l)

Spec == Init /\ [][Next]_stVars

-----------------------------------------------------------------------------
(* Properties *)

\* A story is counted once for each person who saw it, however often and from however many
\* devices it is opened; and the two copies of the visibility rule agree: what the feed lists may
\* be opened, and what may be opened is listed while its author has an account
\* (Repository.RecordView, Feed and CanView).
ViewsAreCountedAndFeedOpens ==
    \A s \in StoryIds :
        /\ stStory[s].views = Cardinality({v \in stViews : v[1] = s})
        /\ \A u \in StoryUsers :
              /\ s \in Feed(u) => View(s, u)
              /\ View(s, u) /\ stStory[s].by \notin stGone => s \in Feed(u)

-----------------------------------------------------------------------------
(* What the repository says of this code and the code does not do *)

\* stories.go:112 says "The visibility rules are expressed once, in SQL": they are written twice,
\* and the story of an erased author leaves the feed and can still be opened.
FeedListsWhatOpens ==
    \A s \in StoryIds, u \in StoryUsers : View(s, u) => s \in Feed(u)

\* stories.go:114 says "`contacts` requires a reciprocal contact entry": the author's entry
\* for the viewer is enough.
ContactsAreReciprocal ==
    \A u \in StoryUsers : \A s \in Feed(u) :
        stStory[s].privacy = "contacts" /\ stStory[s].by # u => <<u, stStory[s].by>> \in stBook
=============================================================================
