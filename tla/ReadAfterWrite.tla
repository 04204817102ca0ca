---------------------------- MODULE ReadAfterWrite ----------------------------
(***************************************************************************)
(* Answers of an app view that the server completes with what the account  *)
(* wrote since the revision the app view has seen: read-after-write/, and  *)
(* the handlers of app.bsky.feed and app.bsky.actor that use it.           *)
(*                                                                         *)
(* The app view is external: it has seen the repository up to a revision,  *)
(* its items have times that may be later than those of the commits, and   *)
(* it may fail or leave the revision out of its answer.  A view is a       *)
(* sequence of items, of a thread in no order; the place of a post in a    *)
(* thread is its parent.  Time is the revision, here and at the app view.  *)
(***************************************************************************)
EXTENDS RepoHistory, SequencesExt

CONSTANTS
  Reply,        \* [Posts -> what a post replies to: its parent and its root, or None]
  LocalLimits,  \* how many records getRecordsSinceRev takes at most (10 in the code)
  FeedLimit     \* items of a feed

ASSUME ReplyAssumption == \A p \in Posts :
  Reply[p] = None \/ (Reply[p].parent \in Posts /\ Reply[p].root \in Posts)
ASSUME LimitAssumption == LocalLimits \subseteq Nat /\ FeedLimit \in Nat
ASSUME LookAssumption == None \notin [look : Said]

Unread == UNCHANGED repoVars
Reading(at) == reader.op = "merge" /\ reader.at = at
Answer(r, answer) == reader' = [r EXCEPT !.at = "done", !.answer = answer, !.local = {}, !.todo = {}]
Refuse(r, answer) == Answer([r EXCEPT !.original = <<>>, !.view = <<>>, !.failed = TRUE], answer)

(* An item: which post, or None of somebody else; what it says, when, and  *)
(* as what profile its author is shown; and whether the feed has it of the *)
(* account itself (of others, because the account reposted it).            *)
Item(p, text, at, look, mine) == [post |-> p, text |-> text, at |-> at, look |-> look, mine |-> mine]
Look(rows) == IF rows[Profile] = None THEN None ELSE rows[Profile].text
OthersItem(at, reposted) == Item(None, None, at, None, reposted)
Own(item) == item.post # None
In(p, view) == \E i \in DOMAIN view : view[i].post = p

(* What the app view shows of the account, having seen a revision. *)
Seen(s) == IF s = 0 THEN [p \in Paths |-> None] ELSE log[s]
PostItem(p, rows, late) == Item(p, rows[p].text, rows[p].rev + late, Look(rows), TRUE)
(* Items of posts, the newest first. *)
Newest(posts, rows, n) == CHOOSE p \in posts : Cardinality({q \in posts : rows[q].rev > rows[p].rev}) = n - 1
ItemsOf(posts, rows, late) ==
  [i \in 1..Cardinality(posts) |-> PostItem(Newest(posts, rows, i), rows, late)]
OwnItems(s, late) == ItemsOf(Posts \cap Existing(Seen(s)), Seen(s), late)
Cut(feed) == SubSeq(feed, 1, IF FeedLimit < Len(feed) THEN FeedLimit ELSE Len(feed))
WithOther(own, item) == {Cut(InsertAt(own, i, item)) : i \in 1..(Len(own) + 1)}
OthersItems(s, kind) ==
  {OthersItem(t, FALSE) : t \in {0, s + 1}}
    \cup (IF kind = "author" THEN {OthersItem(t, TRUE) : t \in {0, s + 1}} ELSE {})
FeedsOf(s, kind) ==
  UNION {LET own == OwnItems(s, late)
         IN  {<<>>, Cut(own)} \cup UNION {WithOther(own, item) : item \in OthersItems(s, kind)} :
           late \in {0, 1}}

ProfilesOf(s, kind) ==
  LET own == Item(Profile, None, 0, Look(Seen(s)), TRUE)
  IN  IF kind = "profile" THEN {<<own>>, <<OthersItem(0, FALSE)>>} ELSE {<<OthersItem(0, FALSE), own>>}

(* A post and what is below it. *)
ThreadOf(s, anchor) ==
  LET rows == Seen(s)
      below[n \in 0..Cardinality(Posts)] ==
        IF n = 0 THEN {anchor}
        ELSE below[n - 1] \cup {p \in Posts \cap Existing(rows) : Reply[p] # None /\ Reply[p].parent \in below[n - 1]}
      posts == Posts \cap below[Cardinality(Posts)]
  IN  ItemsOf(posts, rows, 0)
ViewsOf(s, kind, anchor) ==
  CASE kind \in {"timeline", "author"} -> FeedsOf(s, kind)
    [] kind = "likes" -> {<<>>, Cut(OwnItems(s, 0)), <<OthersItem(s, FALSE)>>}
    [] kind \in {"profile", "profiles"} -> ProfilesOf(s, kind)
    [] OTHER -> IF Seen(s)[anchor] = None THEN {} ELSE {ThreadOf(s, anchor)}

-----------------------------------------------------------------------------
Ask(kind, anchor) ==
  /\ reader = Idle
  /\ reader' = [op |-> "merge", at |-> "upstream", kind |-> kind, anchor |-> anchor, since |-> Rev,
                seen |-> 0, notFound |-> FALSE, original |-> <<>>, view |-> <<>>, local |-> {},
                todo |-> {}, failed |-> FALSE, limit |-> 0, answer |-> None]
  /\ Unread

GetTimeline == Ask("timeline", None)
GetAuthorFeed == Ask("author", None)
GetActorLikes == Ask("likes", None)
GetProfile == Ask("profile", None)
GetProfiles == Ask("profiles", None)
GetPostThread(p) == Ask("thread", p)

(* pipethrough.  Without the revision the answer is passed on; an error is *)
(* too, but for a thread that the app view does not know, if it told the   *)
(* revision.                                                               *)
Pipethrough ==
  /\ Reading("upstream")
  /\ \/ Refuse(reader, "error")
     \/ \E s \in 0..Rev, told \in BOOLEAN :
          LET views == ViewsOf(s, reader.kind, reader.anchor)
              r == [reader EXCEPT !.at = "records", !.seen = s]
          IN  \/ told /\ \E v \in views : reader' = [r EXCEPT !.original = v, !.view = v]
              \/ told /\ views = {} /\ reader' = [r EXCEPT !.notFound = TRUE]
              \/ ~told /\ Refuse(reader, IF views = {} THEN "NotFound" ELSE "ok")
  /\ Unread

PassOn == Answer(reader, IF reader.notFound THEN "NotFound" ELSE "ok")
(* What fails after the answer of the app view is there leaves it as it is *)
(* (an answer that is only passed on is not kept here).                    *)
GiveUp == Refuse(reader, IF reader.notFound THEN "error" ELSE "ok")

LocalRecord(rows, p) == [path |-> p, text |-> rows[p].text, rev |-> rows[p].rev]

(* getRecordsSinceRev: the oldest of the records newer than the revision;  *)
(* and in a second query, whether any is as old.                           *)
GetRecordsSinceRev ==
  /\ Reading("records")
  /\ \E limit \in LocalLimits :
     LET newer == {p \in Existing(Rows) : Rows[p].rev > reader.seen}
         older(p) == {q \in newer : Rows[q].rev < Rows[p].rev}
         taken == {p \in newer : Cardinality(older(p)) < limit}
     IN  IF taken = {} THEN PassOn
         ELSE reader' = [reader EXCEPT !.at = "sanity", !.limit = limit, !.local = {LocalRecord(Rows, p) : p \in taken}]
  /\ Unread
SanityCheck ==
  /\ Reading("sanity")
  /\ IF \E p \in Existing(Rows) : Rows[p].rev <= reader.seen
     THEN reader' = [reader EXCEPT !.at = IF reader.notFound THEN "munge" ELSE "buffer"]
     ELSE PassOn
  /\ Unread

(* asPipeThroughBuffer: the stream breaks, its content is not what it is   *)
(* to be and is passed on, or it can be completed.                         *)
BufferAnswer ==
  /\ Reading("buffer")
  /\ \/ Refuse(reader, "error")
     \/ GiveUp
     \/ reader' = [reader EXCEPT !.at = "munge"]
  /\ Unread

-----------------------------------------------------------------------------
(* What a handler makes of it.                                             *)

LocalPosts == {r \in reader.local : r.path # Profile}
LocalProfile == {r \in reader.local : r.path = Profile}
UpdateProfile(view) ==
  [i \in DOMAIN view |->
     IF Own(view[i]) /\ LocalProfile # {}
     THEN [view[i] EXCEPT !.look = (CHOOSE r \in LocalProfile : TRUE).text] ELSE view[i]]

(* Mutant: the time of the wrong end. *)
FirstTime(feed) == IF feed = <<>> THEN 0 ELSE feed[1].at

(* formatAndInsertPostsInFeed: what is newer than the end of the feed,     *)
(* each before the first item that is older.                               *)
LastTime(feed) == IF feed = <<>> THEN 0 ELSE feed[Len(feed)].at
InFeed(feed) == {r \in LocalPosts : r.rev > LastTime(feed)}
InsertInFeed(feed, item) ==
  LET older == {i \in DOMAIN feed : feed[i].at < item.at}
  IN  IF older = {} THEN Append(feed, item)
      ELSE InsertAt(feed, CHOOSE i \in older : \A j \in older : i <= j, item)

IsUsersFeed(feed) == feed # <<>> /\ feed[1].mine

(* findPostsInThread: the replies to the post at the top or to its root. *)
Root(p) == IF Reply[p] = None THEN None ELSE Reply[p].root
IsOfThread(p) == Root(p) # None /\ Root(p) \in {reader.anchor, Root(reader.anchor)}
InThread(posts) == {r \in posts : IsOfThread(r.path)}

(* What each handler makes of the answer, by the name of its file: the     *)
(* profile put in place, and the posts that are to be looked at.           *)
ToPosts(view, posts) == reader' = [reader EXCEPT !.at = "posts", !.view = view, !.todo = posts]
GetTimelineMunge == ToPosts(reader.view, InFeed(reader.view))
GetAuthorMunge ==
  IF IsUsersFeed(reader.view) THEN ToPosts(UpdateProfile(reader.view), InFeed(reader.view)) ELSE PassOn
GetActorLikesMunge == ToPosts(UpdateProfile(reader.view), {})
GetProfileMunge == ToPosts(UpdateProfile(reader.view), {})
GetProfilesMunge == ToPosts(UpdateProfile(reader.view), {})
GetPostThreadMunge == ToPosts(reader.view, InThread(LocalPosts))
(* A thread that the app view does not know, of a post that is found here. *)
(* Posts above it come from the app view, if it has them.                  *)
ReadAfterWriteNotFound ==
  LET top == {r \in LocalPosts : r.path = reader.anchor}
  IN  IF top = {} THEN PassOn ELSE ToPosts(<<>>, top \cup InThread(LocalPosts \ top))

Munge ==
  /\ Reading("munge")
  /\ CASE reader.kind = "timeline" -> GetTimelineMunge
       [] reader.kind = "author" -> GetAuthorMunge
       [] reader.kind = "likes" -> GetActorLikesMunge
       [] reader.kind = "profile" -> GetProfileMunge
       [] reader.kind = "profiles" -> GetProfilesMunge
       [] OTHER -> IF reader.notFound THEN ReadAfterWriteNotFound ELSE GetPostThreadMunge
  /\ Unread

(* An account that is not up has no profile to show with a post. *)
GetProfileBasic == IF status = "up" THEN [look |-> Look(Rows)] ELSE None
(* insertIntoThreadReplies: below its parent, or not at all; the post that *)
(* was asked for, and what goes in a feed, has a place anyway.             *)
IsTop == reader.notFound /\ reader.view = <<>>
IsPlaced(p) == IsTop \/ reader.kind # "thread" \/ (Reply[p] # None /\ In(Reply[p].parent, reader.view))
InsertPost(item) == IF reader.kind = "thread" THEN Append(reader.view, item) ELSE InsertInFeed(reader.view, item)

(* The order in which the posts are looked at: in a feed the newest first, *)
(* in a thread the one that was asked for, and then the oldest first.      *)
IsFirst(r) == reader.notFound /\ r.path = reader.anchor
Precedes(q, r) ==
  IF reader.kind # "thread" THEN q.rev > r.rev ELSE ~IsFirst(r) /\ (IsFirst(q) \/ q.rev < r.rev)
NextPost == CHOOSE r \in reader.todo : \A q \in reader.todo : ~Precedes(q, r)

GetPost ==
  /\ Reading("posts") /\ reader.todo # {}
  /\ LET next == NextPost
         author == GetProfileBasic
         skipped == [reader EXCEPT !.todo = @ \ {next}]
     IN  IF ~IsPlaced(next.path) THEN reader' = skipped
         ELSE IF author = None THEN IF IsTop THEN PassOn ELSE reader' = skipped
         ELSE reader' = [skipped EXCEPT !.view = InsertPost(Item(next.path, next.text, next.rev, author.look, TRUE))]
  /\ Unread

(* The record that a post embeds is asked of the app view, which may fail. *)
FormatRecordEmbed ==
  /\ Reading("posts") /\ reader.todo # {} /\ IsPlaced(NextPost.path)
  /\ GetProfileBasic # None /\ GiveUp
  /\ Unread
Respond == Reading("posts") /\ reader.todo = {} /\ Answer(reader, "ok") /\ Unread

Merge ==
  \/ GetTimeline \/ GetAuthorFeed \/ GetActorLikes \/ GetProfile \/ GetProfiles
  \/ \E p \in Posts : GetPostThread(p)
  \/ Pipethrough \/ GetRecordsSinceRev \/ SanityCheck \/ BufferAnswer \/ Munge
  \/ GetPost \/ FormatRecordEmbed \/ Respond

-----------------------------------------------------------------------------
(* What the account wrote before it asks, and that stays as it is, is in   *)
(* the answer, although the app view has not seen it: a post in a feed     *)
(* that reaches back to it, a reply in a thread that has its parent, a     *)
(* post that the app view does not know at all, the profile wherever the   *)
(* account is shown.  It is so if the app view told the revision and the   *)
(* answer could be completed, of no more records than the limit, while a  *)
(* record as old as the revision is there, and the account is up.          *)
Before == log[reader.since]
Steady == status = "up" /\ Account \notin changed
Old(p) == Before[p] # None /\ Before[p].rev <= reader.seen
Newer(p) == {q \in Existing(Before) : Before[q].rev > reader.seen /\ Before[q].rev <= Before[p].rev}
Promised(p) ==
  /\ Before[p] # None /\ p \notin changed \cup down /\ Before[p].rev > reader.seen
  /\ Cardinality(Newer(p)) <= reader.limit
  /\ \E q \in Paths \ changed : Old(q)
  /\ Steady /\ ~reader.failed
Reaches(p) ==
  CASE reader.kind \in {"timeline", "author"} ->
         /\ reader.kind = "author" => IsUsersFeed(reader.original)
         /\ reader.original # <<>> => Before[p].rev > reader.original[Len(reader.original)].at
    [] reader.kind = "thread" ->
         \/ reader.notFound /\ p = reader.anchor
         \/ /\ p # reader.anchor /\ IsOfThread(p)
            /\ LET parent == Reply[p].parent
               IN  \/ In(parent, reader.original)
                   \/ /\ In(parent, reader.view) /\ parent \notin changed
                      /\ Before[parent] # None /\ Before[parent].rev < Before[p].rev
    [] OTHER -> FALSE
ShowsPost(p) == \E i \in DOMAIN reader.view : reader.view[i].post = p /\ reader.view[i].text = Before[p].text
ShowsProfile ==
  \A i \in DOMAIN reader.view : Own(reader.view[i]) => reader.view[i].look = Before[Profile].text
ShowsAProfile ==
  reader.kind \in {"likes", "profile", "profiles"} \/ (reader.kind = "author" /\ IsUsersFeed(reader.original))
ReadYourWrites ==
  Reading("done") /\ reader.answer \in {"ok", "NotFound"} =>
    /\ \A p \in Posts : Promised(p) /\ Reaches(p) => ShowsPost(p)
    /\ Promised(Profile) /\ ShowsAProfile => ShowsProfile
=============================================================================
