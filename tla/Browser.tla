------------------------------- MODULE Browser -------------------------------
(***************************************************************************)
(* The browser application against its server: tabs of one browser that    *)
(* share localStorage, each with a user store (useUserStore.ts), the pages *)
(* that log in (Login.vue), toggle a like (NoteDetail.vue) and publish a   *)
(* note with a photo (NoteCreate.vue, ImageUploader.vue), and the calls on *)
(* their way (utils/request.ts), which are served and answered in any      *)
(* order, or time out.  One note, whose likes the server keeps; a call is  *)
(* served in one step here.                                                *)
(***************************************************************************)
EXTENDS Uploads

CONSTANTS
  Tabs,       \* tabs of the browser
  Users,      \* accounts that log in
  Scenes,     \* what may happen in a behaviour: tabs, users, acts and bound on calls
  None        \* no token, user, tab or photo

Acts == {"logout", "reload", "like", "photo", "expire", "fault", "crash"}
ASSUME BrowserScenes ==
  \A s \in Scenes : /\ s.tabs \subseteq Tabs /\ s.users \subseteq Users
                    /\ s.acts \subseteq Acts /\ s.calls \in Nat

\* A login gives out a token of its own: n is the call that asked for it.  Two
\* logins of one second may get one text, which expires for both at once.
Token == [n : Nat, of : Users]

ASSUME BrowserNone ==
  None \notin Tabs \cup Users \cup Uploads \cup Token

VARIABLES
  local,      \* localStorage: the token
  tab,        \* each tab: its user store and the component of its page
  wire,       \* calls on their way
  sent,       \* how many calls were sent
  accepted,   \* tokens that have not expired
  likes,      \* who likes the note
  published,  \* the photos of published notes
  photo,      \* which tab waits for which upload
  scene,      \* what may happen
  apart,      \* history: tabs that did not see localStorage change
  alone       \* history: tabs on whose page nobody else changed the likes

serverVars == <<accepted, likes, published>>
vars == <<clock, up, files, local, tab, wire, sent, accepted, likes, published, photo,
          scene, apart, alone>>

\* busy: the page's button spins.
Closed == [page |-> "home", token |-> None, user |-> None,
           loaded |-> FALSE, liked |-> FALSE, count |-> 0, busy |-> FALSE,
           image |-> None, uploading |-> FALSE]

Init ==
  /\ UploadsInit
  /\ local = None
  /\ tab = [t \in Tabs |-> Closed]
  /\ wire = {} /\ sent = 0
  /\ accepted = {} /\ likes = {} /\ published = {}
  /\ photo = [u \in Uploads |-> None]
  /\ scene \in Scenes
  /\ apart = {} /\ alone = {}

\* A new component on page p of a tab with the user store of s.
Mount(s, p) == [Closed EXCEPT !.page = p, !.token = s.token, !.user = s.user]

\* A call that nobody listens for any more.
Unheard(c) == [c EXCEPT !.tab = None, !.here = FALSE]

\* Calls and uploads whose component is gone are answered to nobody on a page.
Orphans(calls, t) == {[c EXCEPT !.here = @ /\ c.tab # t] : c \in calls}
OrphanPhotos(t) ==
  [u \in Uploads |-> IF photo[u] = None \/ photo[u].tab # t THEN photo[u]
                     ELSE [photo[u] EXCEPT !.here = FALSE]]

\* Tab t goes to another page, whose component starts as s.
Goes(t, s) ==
  /\ tab' = [tab EXCEPT ![t] = s]
  /\ photo' = OrphanPhotos(t)
  /\ alone' = alone \ {t}

\* Tab t stays on its page, which is now s.
Stays(t, s) == tab' = [tab EXCEPT ![t] = s] /\ UNCHANGED <<photo, alone>>

\* The request interceptor: the token is the one localStorage holds by now.
Call(t, kind, arg) ==
  [n |-> sent + 1, tab |-> t, here |-> TRUE, kind |-> kind, token |-> local,
   arg |-> arg, status |-> 0, got |-> None]

Send(calls, c) == sent < scene.calls /\ sent' = sent + 1 /\ wire' = calls \cup {c}

\* Tab t puts token k into localStorage and its store; no other tab is told.
Store(k, t) ==
  /\ local' = k
  /\ apart' = (IF k = local THEN apart ELSE Tabs) \ {t}

(***************************************************************************)
(* The user.                                                               *)
(***************************************************************************)
\* A link, or the router guard of /note/create, which looks at the store's
\* token and has the login page come back to the form.  Straight from the one
\* login address to the other the router keeps the page's component; over
\* another page, it is a new one.
Open(t, p) ==
  /\ p \in {"login", "form", "guarded"}
  /\ p # "login" => "photo" \in scene.acts /\ ((p = "guarded") <=> (tab[t].token = None))
  /\ \/ Goes(t, Mount(tab[t], p)) /\ wire' = Orphans(wire, t)
     \/ /\ {p, tab[t].page} = {"login", "guarded"}
        /\ Stays(t, [tab[t] EXCEPT !.page = p]) /\ UNCHANGED wire
  /\ UNCHANGED <<local, sent, apart>>

SubmitLogin(t, u) ==
  /\ tab[t].page \in {"login", "guarded"} /\ ~tab[t].busy
  /\ Stays(t, [tab[t] EXCEPT !.busy = TRUE])
  /\ Send(wire, Call(t, "login", u))
  /\ UNCHANGED <<local, apart>>

Logout(t) ==
  /\ "logout" \in scene.acts /\ tab[t].token # None
  /\ Goes(t, Closed)
  /\ Store(None, t)
  /\ wire' = Orphans(wire, t)
  /\ UNCHANGED sent

\* The note page asks for its note; liked starts FALSE whoever liked it.
OpenNote(t) ==
  /\ "like" \in scene.acts
  /\ Goes(t, Mount(tab[t], "note"))
  /\ Send(Orphans(wire, t), Call(t, "note", None))
  /\ UNCHANGED <<local, apart>>

ToggleLike(t) ==
  /\ tab[t].page = "note" /\ tab[t].loaded /\ ~tab[t].busy
  /\ \/ /\ tab[t].token = None
        /\ Goes(t, Mount(tab[t], "login"))
        /\ wire' = Orphans(wire, t)
        /\ UNCHANGED sent
     \/ /\ tab[t].token # None
        /\ Stays(t, [tab[t] EXCEPT !.busy = TRUE])
        /\ Send(wire, Call(t, IF tab[t].liked THEN "unlike" ELSE "like", None))
  /\ UNCHANGED <<local, apart>>

\* Nothing keeps the form from being sent while its photo is on its way.
Submit(t) ==
  /\ tab[t].page = "form" /\ ~tab[t].busy
  /\ Stays(t, [tab[t] EXCEPT !.busy = TRUE])
  /\ Send(wire, Call(t, "publish", tab[t].image))
  /\ UNCHANGED <<local, apart>>

\* The document is loaded anew, at the home page: the store takes the token
\* from localStorage and knows no user.  Nobody hears the answers any more.
Reload(t) ==
  /\ "reload" \in scene.acts
  /\ tab' = [tab EXCEPT ![t] = [Closed EXCEPT !.token = local]]
  /\ wire' = {c \in wire : c.tab # t}
               \cup {Unheard(c) : c \in {d \in wire : d.tab = t /\ d.status = 0}}
  /\ photo' = [u \in Uploads |-> IF photo[u] # None /\ photo[u].tab = t THEN None ELSE photo[u]]
  /\ alone' = alone \ {t}
  /\ apart' = apart \ {t}
  /\ UNCHANGED <<local, sent>>

UserActs(t) ==
  /\ t \in scene.tabs
  /\ \/ (\E p \in {"login", "form", "guarded"} : Open(t, p))
     \/ (\E u \in scene.users : SubmitLogin(t, u))
     \/ Logout(t) \/ OpenNote(t) \/ ToggleLike(t) \/ Submit(t) \/ Reload(t)
  /\ UNCHANGED <<uploadVars, serverVars>>

\* doUpload: axios itself, without the interceptors and without a timeout.
DoUpload(t, u) ==
  /\ tab[t].page = "form" /\ ~tab[t].uploading /\ up[u].pc = "waiting"
  /\ Receive(u, local \in accepted)
  /\ tab' = [tab EXCEPT ![t].uploading = TRUE]
  /\ photo' = [photo EXCEPT ![u] = [tab |-> t, here |-> TRUE]]
  /\ UNCHANGED <<clock, files, local, wire, sent, serverVars, apart, alone>>

Uploaded(u) ==
  /\ photo[u] # None
  /\ up[u].pc \in {"saved", "refused", "lost"}
  /\ LET t == photo[u].tab IN
       tab' = IF ~photo[u].here THEN tab
              ELSE [tab EXCEPT ![t].uploading = FALSE,
                               ![t].image = IF up[u].pc = "saved" THEN u ELSE @]
  /\ photo' = [photo EXCEPT ![u] = None]
  /\ UNCHANGED <<uploadVars, local, wire, sent, serverVars, apart, alone>>

(***************************************************************************)
(* The server.                                                             *)
(***************************************************************************)
\* A call whose tab is gone leaves nothing when it has been served.
Served(c, status, got) ==
  wire' = (wire \ {c}) \cup
          (IF c.tab = None THEN {} ELSE {[c EXCEPT !.status = status, !.got = got]})

\* What a call that did its work is answered: a 500 when the database did it
\* and its word of that was lost.
Told(status) == {status} \cup {s \in {500} : "fault" \in scene.acts}

\* A like comes or goes: what other pages counted is not the count any more,
\* nor what the asking page counts that is told of an error.
Liking(c, whom, status) ==
  /\ Served(c, status, None)
  /\ likes' = whom
  /\ alone' = {t \in alone : t = c.tab /\ c.here /\ status # 500}

ServeLogin(c) ==
  /\ c.kind = "login"
  /\ \/ Served(c, 401, None) /\ UNCHANGED accepted
     \/ LET k == [n |-> c.n, of |-> c.arg] IN
          Served(c, 200, k) /\ accepted' = accepted \cup {k}
  /\ UNCHANGED <<likes, published, alone>>

\* The error of the count is dropped: the note comes with no likes.
ServeNote(c) ==
  /\ c.kind = "note"
  /\ \/ /\ Served(c, 200, Cardinality(likes))
        /\ alone' = IF c.here THEN alone \cup {c.tab} ELSE alone
     \/ "fault" \in scene.acts /\ Served(c, 200, 0) /\ UNCHANGED alone
  /\ UNCHANGED serverVars

ServeLike(c) ==
  /\ c.kind \in {"like", "unlike"} /\ c.token \in accepted
  /\ LET u == c.token.of IN
       \/ /\ c.kind = "like" /\ u \notin likes
          /\ \E status \in Told(201) : Liking(c, likes \cup {u}, status)
       \/ /\ c.kind = "like" /\ u \in likes
          /\ Served(c, 409, None) /\ UNCHANGED <<likes, alone>>
       \/ /\ c.kind = "unlike" /\ u \in likes
          /\ \E status \in Told(200) : Liking(c, likes \ {u}, status)
       \/ /\ c.kind = "unlike" /\ u \notin likes
          /\ Served(c, 404, None) /\ UNCHANGED <<likes, alone>>
  /\ UNCHANGED <<accepted, published>>

ServePublish(c) ==
  /\ c.kind = "publish" /\ c.token \in accepted
  /\ \E status \in Told(201) : Served(c, status, None)
  /\ published' = published \cup {c.arg}
  /\ UNCHANGED <<accepted, likes, alone>>

\* AuthRequired.
ServeRefused(c) ==
  /\ c.kind \in {"like", "unlike", "publish"} /\ c.token \notin accepted
  /\ Served(c, 401, None)
  /\ UNCHANGED <<serverVars, alone>>

\* A statement of the handler fails before it has done anything.
ServeFails(c) ==
  /\ "fault" \in scene.acts
  /\ c.kind \in {"login", "note"} \/ c.token \in accepted
  /\ Served(c, 500, None)
  /\ UNCHANGED <<serverVars, alone>>

Serve ==
  /\ \E c \in wire :
       /\ c.status = 0
       /\ \/ ServeLogin(c) \/ ServeNote(c) \/ ServeLike(c) \/ ServePublish(c)
          \/ ServeRefused(c) \/ ServeFails(c)
  /\ UNCHANGED <<uploadVars, local, tab, sent, photo, apart>>

Expire ==
  /\ "expire" \in scene.acts
  /\ \E k \in accepted : accepted' = accepted \ {k}
  /\ UNCHANGED <<uploadVars, local, tab, wire, sent, likes, published, photo, apart, alone>>

PhotoServed ==
  /\ "photo" \in scene.acts
  /\ Tick \/ (\E u \in Uploads : UploadStep(u)) \/ ("crash" \in scene.acts /\ UploadsDie)
  /\ UNCHANGED <<local, tab, wire, sent, serverVars, photo, apart, alone>>

(***************************************************************************)
(* The answers.                                                            *)
(***************************************************************************)
\* Mutant: any error throws the token away.
MutClears(c) == c.status # 200 /\ c.status # 201

\* The response interceptor throws the token away on a 401.
Clears(c) == c.status = 401

\* Mutant: a like that was there already counts as one of this visit.
MutWorked(c) == c.status \in {200, 201, 409}

Worked(c) == c.status \in {200, 201}

\* Mutant: the spinner stops only when the call succeeds.
MutComponent(s, c) == [s EXCEPT !.busy = ~Worked(c)]

\* What the component does with the answer it awaited; finally, the spinner.
Component(s, c) ==
  LET idle == [s EXCEPT !.busy = FALSE] IN
    CASE c.kind = "note" /\ Worked(c)   -> [s EXCEPT !.loaded = TRUE, !.count = c.got]
      [] c.kind = "note" /\ ~Worked(c)  -> s
      [] c.kind = "like" /\ Worked(c)   -> [idle EXCEPT !.liked = TRUE, !.count = @ + 1]
      [] c.kind = "unlike" /\ Worked(c) ->
           [idle EXCEPT !.liked = FALSE, !.count = IF @ = 0 THEN 0 ELSE @ - 1]
      [] OTHER                          -> idle

\* No answer within the timeout: an error without a response.
TimedOut == 408

\* The 401 speaks of a password, or of a token localStorage holds no more.
Unearned(c) == c.kind = "login" \/ c.token # local

\* A tab hears the answer c to its call, of which others are still on their
\* way.  The store and the router outlive the component that made the call.
Hear(c, others) ==
  LET s      == tab[c.tab]
      logsIn == c.kind = "login" /\ Worked(c) IN
    /\ IF logsIn \/ (c.kind = "publish" /\ Worked(c))
       THEN /\ Goes(c.tab, IF logsIn
                           THEN Mount([token |-> c.got, user |-> c.got.of],
                                      IF s.page = "guarded" THEN "form" ELSE "home")
                           ELSE Mount(s, "published"))
            /\ wire' = Orphans(others, c.tab)
       ELSE /\ tab' = [tab EXCEPT ![c.tab] = IF c.here THEN Component(s, c) ELSE s]
            /\ alone' = IF c.status = TimedOut THEN alone \ {c.tab} ELSE alone
            /\ wire' = others
            /\ UNCHANGED photo
    /\ IF logsIn THEN Store(c.got, c.tab)
       ELSE /\ local' = IF Clears(c) THEN None ELSE local
            /\ apart' = IF Clears(c) /\ Unearned(c) THEN Tabs ELSE apart
    /\ UNCHANGED <<uploadVars, sent, serverVars>>

Answered(c) == c.tab # None /\ c.status # 0 /\ Hear(c, wire \ {c})

\* After 15 seconds.  What the server still does the tab does not hear of.
Timeout(c) ==
  /\ "fault" \in scene.acts
  /\ c.tab # None
  /\ Hear([c EXCEPT !.status = TimedOut],
          (wire \ {c}) \cup (IF c.status = 0 THEN {Unheard(c)} ELSE {}))

Next ==
  /\ \/ \E t \in Tabs : UserActs(t) \/ \E u \in Uploads : DoUpload(t, u)
     \/ \E u \in Uploads : Uploaded(u)
     \/ \E c \in wire : Answered(c) \/ Timeout(c)
     \/ Serve \/ Expire \/ PhotoServed
  /\ UNCHANGED scene

\* Every call is served and heard of, or the 15 seconds are over.
Heard == Serve \/ \E c \in wire : Answered(c) \/ Timeout(c)
Spec == Init /\ [][Next]_vars /\ WF_vars(Heard /\ UNCHANGED scene)

-----------------------------------------------------------------------------
\* The token a tab's store holds, if it is good, or the lack of one, is what the
\* tab's calls are sent with, and the user it shows is the one the server takes
\* it for - until another tab, or a 401 that does not speak of this token,
\* changes localStorage behind its back (request.ts, useUserStore.ts).
GoodTokenIsSent ==
  \A t \in Tabs \ apart :
    /\ tab[t].token \in accepted \cup {None} => local = tab[t].token
    /\ tab[t].user # None /\ local # None => local.of = tab[t].user

\* The count beside the like button is the count of the server once the page was
\* given it (note_handler.go Get answers 0 likes when it cannot count them),
\* while nobody else changes it and none of the page's own calls did its work
\* and was told of an error or nothing: whatever was liked before the visit and
\* whichever of its calls are refused or fail (NoteDetail.vue toggleLike).
AloneTheCountIsRight ==
  \A t \in alone :
    tab[t].page = "note" /\ tab[t].loaded /\ ~tab[t].busy => tab[t].count = Cardinality(likes)

\* No button that sends a call through request.ts spins for good: with an
\* answer of any kind, or none, the page can be used again (the finally blocks;
\* the timeout of request.ts).  The upload button is not one of them: axios
\* itself, without a timeout, sends the photo.
NoButtonSpinsForever == \A t \in Tabs : tab[t].busy ~> ~tab[t].busy

\* The photo of a published note is, to the last piece, the one its author
\* picked, unless another upload was given the same name (file.go SaveUpload:
\* the name is answered after the copy; nothing but the clock makes it).
SameName(u) == {v \in Uploads \ {u} : up[v].name = up[u].name}

PublishedPhotoIsWhole ==
  \A u \in published \ {None} :
    up[u].pc = "saved" /\ (files[up[u].name] = WholeOf(u) \/ SameName(u) # {})
=============================================================================
