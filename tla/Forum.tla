-------------------------------- MODULE Forum --------------------------------
(***************************************************************************)
(* The forum (routers/forum.py): posts, their likes and comments, and the  *)
(* notifications about them.                                               *)
(*                                                                         *)
(* A handler commits a like or a comment in one transaction and the        *)
(* notification in another; it reads before each.  Nothing is locked and   *)
(* no table refers to another, so the handlers of other API processes come *)
(* in between, and rows about a deleted post can stay.  A handler may stop,*)
(* or lose the database, at any point.  Left out is what is only shown:    *)
(* titles, texts, the count of views and the videos.                       *)
(***************************************************************************)
EXTENDS Naturals, FiniteSets

CONSTANTS
    Posters,
    Posts, PostAuthor, PostHasImage,
    CommentIds, NoComment,
    NoticeIds, NoNotice,
    MaxLikes        \* bounds the counter, which overlapping likes let drift

ASSUME ForumAssumption ==
    /\ PostAuthor \in [Posts -> Posters] /\ PostHasImage \in [Posts -> BOOLEAN]
    /\ NoComment \notin CommentIds /\ NoNotice \notin NoticeIds
    /\ MaxLikes \in Nat

VARIABLES
    posts,          \* "absent", "deleted" or the category
    pictures,       \* the S3 folder the picture of a post is in
    post_likes,     \* ForumPostLike: a unique user and post
    post_likes_count,
    comments,       \* ForumComment: post, parent and user
    notices,        \* ForumNotification: kind, sender, recipient and post
    forum_calls,    \* likes and comments that are under way
    met,            \* posts of which two likes were under way at once
    untold          \* users and posts they liked twice at once, or whose author
                    \* was not told since the call stopped

forumVars == <<posts, pictures, post_likes, post_likes_count, comments, notices, forum_calls, met, untold>>

Categories == {"discussions", "showcase"}
Comment == [post : Posts, parent : CommentIds \cup {NoComment}, user : Posters]
Notice == [kind : {"like", "comment", "reply"}, from : Posters, to : Posters,
           post : Posts, read : BOOLEAN]

ASSUME RowAssumption == NoComment \notin Comment /\ NoNotice \notin Notice

ForumTypeOK ==
    /\ posts \in [Posts -> {"absent", "deleted"} \cup Categories]
    /\ pictures \in [Posts -> {"none", "temp", "active"}]
    /\ post_likes \subseteq Posters \X Posts
    /\ post_likes_count \in [Posts -> 0..MaxLikes]
    /\ comments \in [CommentIds -> Comment \cup {NoComment}]
    /\ notices \in [NoticeIds -> Notice \cup {NoNotice}]
    /\ met \subseteq Posts /\ untold \subseteq Posters \X Posts

ForumInit ==
    /\ posts = [p \in Posts |-> "absent"]
    /\ pictures = [p \in Posts |-> "none"]
    /\ post_likes = {}
    /\ post_likes_count = [p \in Posts |-> 0]
    /\ comments = [c \in CommentIds |-> NoComment]
    /\ notices = [n \in NoticeIds |-> NoNotice]
    /\ forum_calls = {}
    /\ met = {} /\ untold = {}

PostIsThere(p) == posts[p] \in Categories

\* An id that no row and no call uses: ids are random and never used again.
UnusedComment(c) ==
    /\ comments[c] = NoComment
    /\ \A call \in forum_calls : c \notin {call.comment, call.parent}
    /\ \A other \in CommentIds : comments[other] # NoComment => comments[other].parent # c
UnusedNotice(n) == notices[n] = NoNotice /\ \A call \in forum_calls : call.notice # n

Become(call, next) == forum_calls' = (forum_calls \ {call}) \cup next
Ends(call) == Become(call, {}) /\ UNCHANGED <<post_likes, post_likes_count, comments, notices>>

-----------------------------------------------------------------------------
(* Posts.                                                                    *)

\* get_presigned_url: a picture is uploaded to the temporary folder.
UploadPicture(p) ==
    /\ posts[p] = "absent" /\ PostHasImage[p]
    /\ pictures' = [pictures EXCEPT ![p] = "temp"]
    /\ UNCHANGED <<posts, post_likes, post_likes_count, comments, notices, forum_calls, met, untold>>

\* validate_post_content.
Acceptable(p, category) == category = "showcase" => PostHasImage[p]

\* create_post, with confirm_temp_images: a move that fails is passed over.
CreatePost(p, category, moved) ==
    /\ posts[p] = "absent"
    /\ PostHasImage[p] => pictures[p] = "temp"
    /\ Acceptable(p, category)
    /\ posts' = [posts EXCEPT ![p] = category]
    /\ pictures' = [pictures EXCEPT ![p] = IF @ = "temp" /\ moved THEN "active" ELSE @]
    /\ UNCHANGED <<post_likes, post_likes_count, comments, notices, forum_calls, met, untold>>

\* update_post, by its author or an administrator.
UpdatePost(p, category) ==
    /\ PostIsThere(p)
    /\ Acceptable(p, category)
    /\ posts' = [posts EXCEPT ![p] = category]
    /\ UNCHANGED <<pictures, post_likes, post_likes_count, comments, notices, forum_calls, met, untold>>

\* delete_post: the post and every row about it, in one transaction.
DeletePost(p) ==
    /\ PostIsThere(p)
    /\ posts' = [posts EXCEPT ![p] = "deleted"]
    /\ post_likes' = {like \in post_likes : like[2] # p}
    /\ comments' = [c \in CommentIds |->
                      IF comments[c] # NoComment /\ comments[c].post = p THEN NoComment ELSE comments[c]]
    /\ notices' = [n \in NoticeIds |->
                      IF notices[n] # NoNotice /\ notices[n].post = p THEN NoNotice ELSE notices[n]]
    /\ UNCHANGED <<pictures, post_likes_count, forum_calls, met, untold>>

-----------------------------------------------------------------------------
(* like_post.                                                                *)

LikeCalls(u, p) == {call \in forum_calls : call.op # "comment" /\ call.user = u /\ call.post = p}

ReadPostLike(u, p) ==
    /\ PostIsThere(p)
    /\ forum_calls' = forum_calls \cup
         {[op |-> IF <<u, p>> \in post_likes THEN "unlike" ELSE "like", at |-> "read",
           user |-> u, post |-> p, seen |-> post_likes_count[p], comment |-> NoComment,
           parent |-> NoComment, notice |-> NoNotice, to |-> PostAuthor[p]]}
    /\ met' = IF \E call \in forum_calls : call.op # "comment" /\ call.post = p
              THEN met \cup {p} ELSE met
    /\ untold' = untold \cup {<<u, p>> : call \in LikeCalls(u, p)}
    /\ UNCHANGED <<posts, pictures, post_likes, post_likes_count, comments, notices>>

\* Mutant: the counter is left alone when a like is taken back.
LikesAfterKeepingOne(call) == IF call.op = "like" THEN call.seen + 1 ELSE call.seen

\* The counter is written as it was read, one more or one less.
LikesAfter(call) ==
    IF call.op = "like" THEN call.seen + 1 ELSE IF call.seen > 0 THEN call.seen - 1 ELSE 0

\* The first commit: it fails when the post is gone or the like is already there.
CommitPostLike(call) ==
    /\ call.op # "comment" /\ call.at = "read"
    /\ IF ~PostIsThere(call.post) \/ (call.op = "like" /\ <<call.user, call.post>> \in post_likes)
       THEN Ends(call)
       ELSE /\ LikesAfter(call) <= MaxLikes
            /\ post_likes' = IF call.op = "like" THEN post_likes \cup {<<call.user, call.post>>}
                             ELSE post_likes \ {<<call.user, call.post>>}
            /\ post_likes_count' = [post_likes_count EXCEPT ![call.post] = LikesAfter(call)]
            /\ Become(call, {[call EXCEPT !.at = "committed"]})
            /\ UNCHANGED <<comments, notices>>
    /\ UNCHANGED <<posts, pictures, met, untold>>

\* db.refresh(post) and what to do about the author's notification.
RefreshLikedPost(call) ==
    LET told == {n \in NoticeIds : /\ notices[n] # NoNotice
                                   /\ notices[n].kind = "like" /\ notices[n].from = call.user
                                   /\ notices[n].post = call.post}
        next == IF ~PostIsThere(call.post) THEN {}
                ELSE IF call.op = "unlike" THEN {[call EXCEPT !.at = "noting", !.notice = n] : n \in told}
                ELSE IF PostAuthor[call.post] = call.user THEN {}
                ELSE {[call EXCEPT !.at = "noting"]}
    IN  /\ call.op # "comment" /\ call.at = "committed"
        /\ IF next = {} THEN Ends(call)
           ELSE /\ \E one \in next : Become(call, {one})
                /\ UNCHANGED <<post_likes, post_likes_count, comments, notices>>
        /\ UNCHANGED <<posts, pictures, met, untold>>

-----------------------------------------------------------------------------
(* create_comment.                                                           *)

\* Mutant: the parent need not belong to the post.
ParentAnywhere(parent, p) == parent # NoComment => comments[parent] # NoComment

ParentIsThere(parent, p) ==
    parent # NoComment => comments[parent] # NoComment /\ comments[parent].post = p

ReadCommented(u, p, parent) ==
    /\ PostIsThere(p)
    /\ ParentIsThere(parent, p)
    /\ forum_calls' = forum_calls \cup
         {[op |-> "comment", at |-> "read", user |-> u, post |-> p, seen |-> 0,
           comment |-> NoComment, parent |-> parent, notice |-> NoNotice, to |-> u]}
    /\ UNCHANGED <<posts, pictures, post_likes, post_likes_count, comments, notices, met, untold>>

CommitComment(call, c) ==
    /\ call.op = "comment" /\ call.at = "read"
    /\ UnusedComment(c)
    /\ comments' = [comments EXCEPT ![c] =
                      [post |-> call.post, parent |-> call.parent, user |-> call.user]]
    /\ Become(call, {[call EXCEPT !.at = "committed", !.comment = c]})
    /\ UNCHANGED <<posts, pictures, post_likes, post_likes_count, notices, met, untold>>

\* Who is told: the parent's author, if the parent is still there, or the post's.
RefreshComment(call) ==
    LET reply == call.parent # NoComment
        to == CASE reply /\ comments[call.parent] # NoComment -> comments[call.parent].user
                [] ~reply /\ PostIsThere(call.post) -> PostAuthor[call.post]
                [] OTHER -> call.user
    IN  /\ call.op = "comment" /\ call.at = "committed"
        /\ IF comments[call.comment] = NoComment \/ to = call.user THEN Ends(call)
           ELSE /\ Become(call, {[call EXCEPT !.at = "noting", !.to = to]})
                /\ UNCHANGED <<post_likes, post_likes_count, comments, notices>>
        /\ UNCHANGED <<posts, pictures, met, untold>>

-----------------------------------------------------------------------------
(* Notifications.                                                            *)

\* The second commit, whatever has become of the post.
Told(call) ==
    [kind |-> IF call.op = "like" THEN "like" ELSE IF call.parent = NoComment THEN "comment" ELSE "reply",
     from |-> call.user, to |-> call.to, post |-> call.post, read |-> FALSE]

CommitNotice(call) ==
    /\ call.at = "noting"
    /\ \/ call.op = "unlike" /\ notices' = [notices EXCEPT ![call.notice] = NoNotice]
       \/ /\ call.op # "unlike"
          /\ \E n \in NoticeIds : UnusedNotice(n) /\ notices' = [notices EXCEPT ![n] = Told(call)]
    /\ Become(call, {})
    /\ UNCHANGED <<posts, pictures, post_likes, post_likes_count, comments, met, untold>>

\* read_notification and, of all of a user's, read_all_notifications.
ReadNotices(u, ns) ==
    /\ ns # {} /\ \A n \in ns : notices[n] # NoNotice /\ notices[n].to = u
    /\ notices' = [n \in NoticeIds |->
                     IF n \in ns THEN [notices[n] EXCEPT !.read = TRUE] ELSE notices[n]]
    /\ UNCHANGED <<posts, pictures, post_likes, post_likes_count, comments, forum_calls, met, untold>>

\* A call stops: its process does, or a database operation fails.
DropCall(call) ==
    /\ forum_calls' = forum_calls \ {call}
    /\ untold' = IF call.op # "comment" /\ call.at # "read" THEN untold \cup {<<call.user, call.post>>}
                 ELSE untold
    /\ UNCHANGED <<posts, pictures, post_likes, post_likes_count, comments, notices, met>>

ForumNext ==
    \/ \E p \in Posts :
        \/ UploadPicture(p) \/ DeletePost(p)
        \/ \E category \in Categories :
            UpdatePost(p, category) \/ \E moved \in BOOLEAN : CreatePost(p, category, moved)
        \/ \E u \in Posters :
            ReadPostLike(u, p) \/ \E parent \in CommentIds \cup {NoComment} : ReadCommented(u, p, parent)
    \/ \E call \in forum_calls :
        \/ CommitPostLike(call) \/ RefreshLikedPost(call) \/ RefreshComment(call) \/ CommitNotice(call)
        \/ DropCall(call)
        \/ \E c \in CommentIds : CommitComment(call, c)
    \/ \E u \in Posters :
        LET own == {n \in NoticeIds : notices[n] # NoNotice /\ notices[n].to = u}
        IN  ReadNotices(u, own) \/ \E n \in own : ReadNotices(u, {n})

ForumSpec == ForumInit /\ [][ForumNext]_forumVars

-----------------------------------------------------------------------------
(* Properties.                                                               *)

\* What a user's like of a post has told its author.
LikeNotices(u, p) ==
    {n \in NoticeIds : /\ notices[n] # NoNotice /\ notices[n].kind = "like"
                       /\ notices[n].from = u /\ notices[n].post = p}

\* A post whose likes never overlapped counts its likes, wherever calls stopped;
\* and once a user's call is over, overlapped by those of others or not, the
\* author has been told of the like once, and of none that was taken back, but
\* for calls that stopped on their way there (forum.py:588-624).
PostLikesAddUp ==
    \A p \in Posts : PostIsThere(p) =>
        /\ p \notin met =>
             post_likes_count[p] = Cardinality({like \in post_likes : like[2] = p})
        /\ \A u \in Posters : <<u, p>> \notin untold /\ LikeCalls(u, p) = {} =>
             Cardinality(LikeNotices(u, p)) = IF <<u, p>> \in post_likes /\ u # PostAuthor[p] THEN 1 ELSE 0

\* Every comment that a post counts is reached from its first-level comments
\* (list_comments, forum.py:319-379): its parent is a comment of the same post.
CommentsAreShown ==
    \A c \in CommentIds : comments[c] # NoComment /\ PostIsThere(comments[c].post) =>
        \/ comments[c].parent = NoComment
        \/ /\ comments[comments[c].parent] # NoComment
           /\ comments[comments[c].parent].post = comments[c].post
=============================================================================
