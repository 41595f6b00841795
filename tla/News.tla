-------------------------------- MODULE News --------------------------------
(***************************************************************************)
(* One article in the newsroom (backend/internal/news, the scheduler of    *)
(* backend/internal/worker): authors write and submit, editors schedule,   *)
(* publish and archive, the worker promotes what is due, readers read,     *)
(* bookmark and follow, and the publication is announced through the job   *)
(* queue after it is committed.                                            *)
(*                                                                         *)
(* A text is the number of the edit that wrote it.                         *)
(***************************************************************************)
EXTENDS Naturals, Sequences, FiniteSets

CONSTANTS
    Readers,
    Desks,        \* editorial requests in flight at the same time
    Pictures,     \* media a gallery may show
    MaxEdits,     \* texts written
    MaxDay        \* days that pass

VARIABLES
    nwArt,       \* news_articles: status, text, is_breaking, publish_at reached, published_at set, view_count
    nwViews,     \* news_article_views: <<reader, day>>
    nwReader,    \* reader -> bookmarked, follows the category; a request has found the article
    nwCategory,  \* news_categories.is_active
    nwGallery,   \* news_article_gallery: <<media, position>>
    nwTrans,     \* news_article_translations, one locale: source, text, approved
    nwReq,       \* request -> where it stands
    nwJobs,      \* jobs queued, by id: the text they carry, 0 if none
    nwIndex,     \* the text in the search index, 0 if none
    nwMoved,     \* (ghost) who last moved the article into or out of the feed
    nwClock      \* edits and days so far

nwVars == <<nwArt, nwViews, nwReader, nwCategory, nwGallery, nwTrans, nwReq, nwJobs, nwIndex, nwMoved, nwClock>>

Statuses == {"draft", "review", "scheduled", "published", "archived"}
Staff == {"author", "editor"}
NoTranslation == [source |-> "none", text |-> 0, approved |-> FALSE]
Idle == [at |-> "idle", text |-> 0, breaking |-> FALSE, rows |-> {}, trans |-> NoTranslation]
In(h, at) == nwReq[h].at = at
Done(h) == nwReq' = [nwReq EXCEPT ![h] = Idle]

Init ==
    /\ nwArt = [status |-> "draft", text |-> 1, breaking |-> FALSE, due |-> FALSE, out |-> FALSE, views |-> 0]
    /\ nwViews = {} /\ nwIndex = 0 /\ nwMoved = "editor"
    /\ nwReader = [u \in Readers |-> [mark |-> FALSE, follow |-> FALSE, reading |-> FALSE]]
    /\ nwCategory = TRUE
    /\ nwGallery = {}
    /\ nwTrans = NoTranslation
    /\ nwReq = [h \in Desks |-> Idle]
    /\ nwJobs = [index |-> 0, breaking |-> 0]
    /\ nwClock = [edit |-> 1, day |-> 1]

-----------------------------------------------------------------------------
(* The editorial workflow *)

\* Editing keeps the status: neither does it unpublish nor announce anything.
Save(text, breaking) == nwArt' = [nwArt EXCEPT !.text = text, !.breaking = breaking]

saveArticle(breaking) ==
    /\ nwClock.edit < MaxEdits
    /\ nwClock' = [nwClock EXCEPT !.edit = @ + 1]
    /\ Save(nwClock.edit + 1, breaking)
    /\ UNCHANGED <<nwViews, nwReader, nwCategory, nwGallery, nwTrans, nwReq, nwJobs, nwIndex, nwMoved>>

transitions(status) ==
    CASE status = "draft" -> {"draft", "review", "scheduled"}
      [] status = "review" -> {"draft", "review"}
      [] status = "scheduled" -> {"review", "draft", "scheduled"}
      [] status = "published" -> {"review", "scheduled", "archived"}
      [] OTHER -> {"published"}

publishStates == {"scheduled", "published", "archived"}

\* A form in which the article is looked up by its id alone.
FromAnyState(status) == TRUE

\* UPDATE ... WHERE status = ANY(allowedFrom)
AllowedFrom(status) == nwArt.status \in transitions(status)

SetStatus(status) ==
    /\ AllowedFrom(status)
    /\ nwArt' = [nwArt EXCEPT !.status = status, !.due = FALSE, !.out = @ \/ status = "published"]

\* What moving to a status asks of the person, before the article is looked at.
Permitted(who, status) == status \in publishStates => who = "editor"

setStatus(h, who, status) ==
    /\ In(h, "idle")
    /\ Permitted(who, status)
    /\ SetStatus(status)
    /\ nwMoved' = IF (nwArt.status = "published") # (status = "published") THEN who ELSE nwMoved
    /\ nwReq' = IF status = "published" THEN [nwReq EXCEPT ![h].at = "read"] ELSE nwReq
    /\ UNCHANGED <<nwViews, nwReader, nwCategory, nwGallery, nwTrans, nwJobs, nwIndex, nwClock>>

\* The article is read again once it is published, ...
ByID(h) ==
    /\ In(h, "read")
    /\ nwReq' = [nwReq EXCEPT ![h] = [@ EXCEPT !.at = "index", !.text = nwArt.text, !.breaking = nwArt.breaking]]
    /\ UNCHANGED <<nwArt, nwViews, nwReader, nwCategory, nwGallery, nwTrans, nwJobs, nwIndex, nwMoved, nwClock>>

\* ... and what was read is announced: the queue drops an id it has seen, and a failure to
\* queue is logged.
announcePublication(h) ==
    /\ \/ /\ In(h, "index")
          /\ nwJobs' = [nwJobs EXCEPT !.index = IF @ = 0 THEN nwReq[h].text ELSE @] \/ UNCHANGED nwJobs
          /\ nwReq' = [nwReq EXCEPT ![h] = IF @.breaking THEN [@ EXCEPT !.at = "announce"] ELSE Idle]
       \/ /\ In(h, "announce")
          /\ nwJobs' = [nwJobs EXCEPT !.breaking = IF @ = 0 THEN nwReq[h].text ELSE @] \/ UNCHANGED nwJobs
          /\ Done(h)
    /\ UNCHANGED <<nwArt, nwViews, nwReader, nwCategory, nwGallery, nwTrans, nwIndex, nwMoved, nwClock>>

Abandon(h) ==
    /\ ~In(h, "idle")
    /\ Done(h)
    /\ UNCHANGED <<nwArt, nwViews, nwReader, nwCategory, nwGallery, nwTrans, nwJobs, nwIndex, nwMoved, nwClock>>

handleSearchIndexing ==
    /\ nwJobs.index # 0
    /\ nwIndex' = nwJobs.index
    /\ UNCHANGED <<nwArt, nwViews, nwReader, nwCategory, nwGallery, nwTrans, nwReq, nwJobs, nwMoved, nwClock>>

\* publish_at passes.
Due ==
    /\ nwArt.status = "scheduled" /\ ~nwArt.due
    /\ nwArt' = [nwArt EXCEPT !.due = TRUE]
    /\ UNCHANGED <<nwViews, nwReader, nwCategory, nwGallery, nwTrans, nwReq, nwJobs, nwIndex, nwMoved, nwClock>>

\* One UPDATE: what an editor scheduled is published, and nothing else happens.
publishScheduledArticles ==
    /\ nwArt.status = "scheduled" /\ nwArt.due
    /\ nwArt' = [nwArt EXCEPT !.status = "published", !.out = TRUE]
    /\ nwMoved' = "editor"
    /\ UNCHANGED <<nwViews, nwReader, nwCategory, nwGallery, nwTrans, nwReq, nwJobs, nwIndex, nwClock>>

-----------------------------------------------------------------------------
(* Gallery and translations *)

\* The rows there are when the transaction starts are deleted ...
ClearGallery(h) ==
    /\ In(h, "idle")
    /\ nwReq' = [nwReq EXCEPT ![h] = [@ EXCEPT !.at = "gallery", !.rows = nwGallery]]
    /\ UNCHANGED <<nwArt, nwViews, nwReader, nwCategory, nwGallery, nwTrans, nwJobs, nwIndex, nwMoved, nwClock>>

\* ... and the sequence is inserted, a picture that is there already being moved.
ReplaceGallery(h, items) ==
    /\ In(h, "gallery")
    /\ nwGallery' = {r \in nwGallery \ nwReq[h].rows : \A i \in DOMAIN items : items[i] # r[1]}
                        \cup {<<items[i], i>> : i \in DOMAIN items}
    /\ Done(h)
    /\ UNCHANGED <<nwArt, nwViews, nwReader, nwCategory, nwTrans, nwJobs, nwIndex, nwMoved, nwClock>>

\* The same picture twice is refused.
replaceGallery(h) ==
    \/ ClearGallery(h)
    \/ \E n \in 0 .. Cardinality(Pictures) : \E items \in [1 .. n -> Pictures] :
        /\ Cardinality({items[i] : i \in DOMAIN items}) = n
        /\ ReplaceGallery(h, items)

SaveTranslation(row) == nwTrans' = row

\* What a person wrote is vouched for by whoever saves it; a machine's work is not.
saveTranslation(source) ==
    /\ SaveTranslation([source |-> source, text |-> nwArt.text, approved |-> source = "human"])
    /\ UNCHANGED <<nwArt, nwViews, nwReader, nwCategory, nwGallery, nwReq, nwJobs, nwIndex, nwMoved, nwClock>>

\* Approving reads the row ...
Translation(h) ==
    /\ In(h, "idle") /\ nwTrans.source # "none"
    /\ nwReq' = [nwReq EXCEPT ![h] = [@ EXCEPT !.at = "approve", !.trans = nwTrans]]
    /\ UNCHANGED <<nwArt, nwViews, nwReader, nwCategory, nwGallery, nwTrans, nwJobs, nwIndex, nwMoved, nwClock>>

\* ... and writes all of it back.
ApproveTranslation(h) ==
    /\ In(h, "approve")
    /\ SaveTranslation([nwReq[h].trans EXCEPT !.approved = TRUE])
    /\ Done(h)
    /\ UNCHANGED <<nwArt, nwViews, nwReader, nwCategory, nwGallery, nwJobs, nwIndex, nwMoved, nwClock>>

DeleteTranslation ==
    /\ nwTrans.source # "none"
    /\ nwTrans' = NoTranslation
    /\ UNCHANGED <<nwArt, nwViews, nwReader, nwCategory, nwGallery, nwReq, nwJobs, nwIndex, nwMoved, nwClock>>

-----------------------------------------------------------------------------
(* The readers *)

BySlug == nwArt.status = "published"

\* The article as the feed of a reader has it: all there is, or what the reader follows.
Feed(u, mode) ==
    /\ nwArt.status = "published"
    /\ mode = "following" => nwReader[u].follow
    /\ mode = "breaking" => nwArt.breaking

Bookmarks(u) == nwReader[u].mark /\ nwArt.status = "published"

\* RETURNING (xmax = 0)
Inserted(v) == v \notin nwViews

RecordView(v) ==
    /\ nwViews' = nwViews \cup {v}
    /\ nwArt' = IF Inserted(v) THEN [nwArt EXCEPT !.views = @ + 1] ELSE nwArt

\* The article is found, and the view recorded in a statement of its own, wherever the article has
\* got to by then; recording may fail.
article(u) ==
    /\ ~nwReader[u].reading /\ BySlug
    /\ nwReader' = [nwReader EXCEPT ![u].reading = TRUE]
    /\ UNCHANGED <<nwArt, nwViews, nwCategory, nwGallery, nwTrans, nwReq, nwJobs, nwIndex, nwMoved, nwClock>>

recordView(u) ==
    /\ nwReader[u].reading
    /\ nwReader' = [nwReader EXCEPT ![u].reading = FALSE]
    /\ RecordView(<<u, nwClock.day>>) \/ UNCHANGED <<nwArt, nwViews>>
    /\ UNCHANGED <<nwCategory, nwGallery, nwTrans, nwReq, nwJobs, nwIndex, nwMoved, nwClock>>

SetBookmark(u, on) == nwReader' = [nwReader EXCEPT ![u].mark = on]

bookmark(u, on) ==
    /\ nwReader[u].mark # on
    /\ SetBookmark(u, on)
    /\ UNCHANGED <<nwArt, nwViews, nwCategory, nwGallery, nwTrans, nwReq, nwJobs, nwIndex, nwMoved, nwClock>>

SetFollow(u, on) == nwReader' = [nwReader EXCEPT ![u].follow = on]

setFollow(u, on) ==
    /\ nwReader[u].follow # on
    /\ SetFollow(u, on)
    /\ UNCHANGED <<nwArt, nwViews, nwCategory, nwGallery, nwTrans, nwReq, nwJobs, nwIndex, nwMoved, nwClock>>

\* A section is saved active or not, and closed rather than deleted.
UpsertCategory(active) == nwCategory' = active

DeleteCategory == nwCategory' = FALSE

category ==
    /\ UpsertCategory(TRUE) \/ DeleteCategory
    /\ UNCHANGED <<nwArt, nwViews, nwReader, nwGallery, nwTrans, nwReq, nwJobs, nwIndex, nwMoved, nwClock>>

NextDay ==
    /\ nwClock.day < MaxDay
    /\ nwClock' = [nwClock EXCEPT !.day = @ + 1]
    /\ UNCHANGED <<nwArt, nwViews, nwReader, nwCategory, nwGallery, nwTrans, nwReq, nwJobs, nwIndex, nwMoved>>

Next ==
    \/ \E b \in BOOLEAN : saveArticle(b)
    \/ \E h \in Desks :
        \/ \E who \in Staff, status \in Statuses : setStatus(h, who, status)
        \/ ByID(h) \/ announcePublication(h) \/ Abandon(h) \/ replaceGallery(h)
        \/ Translation(h) \/ ApproveTranslation(h)
    \/ handleSearchIndexing \/ Due \/ publishScheduledArticles
    \/ \E source \in {"human", "ai"} : saveTranslation(source)
    \/ DeleteTranslation \/ category \/ NextDay
    \/ \E u \in Readers : article(u) \/ recordView(u) \/ \E on \in BOOLEAN : bookmark(u, on) \/ setFollow(u, on)

Spec == Init /\ [][Next]_nwVars

-----------------------------------------------------------------------------
(* Properties *)

\* Only an editor's decision moves an article into the feed or out of it, however an author's
\* withdrawal crosses the worker's promotion; nothing is read, counted or indexed that was
\* never published; and a reader counts once a day (Service.SetStatus, Repository.SetStatus,
\* publishScheduledArticles, RecordView).
OnlyEditorsMoveTheFeed ==
    /\ nwMoved = "editor"
    /\ nwArt.views = Cardinality(nwViews)
    /\ nwViews # {} \/ nwIndex # 0 \/ (\E u \in Readers : Feed(u, "following") \/ Bookmarks(u)) => nwArt.out

-----------------------------------------------------------------------------
(* What the repository says of this code and the code does not do *)

\* news/gallery.go:79 says of replacing a gallery that "it cannot leave two images claiming the
\* same position": neither of two replacements deletes what the other inserts.
OnePictureAPosition == \A r, s \in nwGallery : r[2] = s[2] => r[1] = s[1]

\* news/repository.go:670 says "LatestBreaking backs the breaking-news banner and its push
\* notification": an article that was scheduled is published by the worker, and the push is
\* queued by nobody.
BreakingIsPushed == [][publishScheduledArticles /\ nwArt.breaking => nwJobs'.breaking # 0]_nwVars

\* news/repository.go:166 says that deactivating a category works by "removing the section from
\* the feed": the feed does not look at is_active, and its articles stay.
ClosedSectionLeavesTheFeed == ~nwCategory => \A u \in Readers : ~Feed(u, "latest")

\* news/gallery.go:271 says "ApproveTranslation records that a person has read a machine
\* translation": it writes back the row it read, and a translation saved meanwhile is lost.
ApprovalKeepsTheText ==
    [][\A h \in Desks : ApproveTranslation(h) => nwTrans'.text = nwTrans.text /\ nwTrans'.source = nwTrans.source]_nwVars
=============================================================================
