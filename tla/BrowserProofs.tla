---------------------------- MODULE BrowserProofs ----------------------------
(***************************************************************************)
(* Proofs about Browser: the token a tab's calls are sent with, the photo  *)
(* of a published note, and the count beside the like button.              *)
(*                                                                         *)
(* They rest on what stays true of the calls on their way.  A token in     *)
(* anybody's hands was given out by a login that has been served, so the   *)
(* token of a later login is a new one, and an old one that was refused is *)
(* never good again.  A photo in anybody's hands has been saved, and a     *)
(* saved photo stays.                                                      *)
(***************************************************************************)
EXTENDS Browser, FiniteSetTheorems, TLAPS

-----------------------------------------------------------------------------
(***************************************************************************)
(* Uploads.                                                                *)
(***************************************************************************)
UpRow == [pc : {"waiting", "received", "create", "copy", "saved", "refused", "lost"},
          at : Times, name : Names \cup {<<>>}, written : 0..Chunks]

\* A file of which u has copied w pieces and nobody else any.
Copied(u, w) == [k \in 1..Chunks |-> IF k <= w THEN u ELSE "end"]

CopyTrue(u) ==
  /\ up[u].pc \in {"waiting", "received", "create"} =>
       up[u].name = <<>> /\ up[u].written = 0
  /\ up[u].pc \in {"copy", "saved"} =>
       /\ up[u].name \in Names
       /\ up[u].name \in DOMAIN files
       /\ SameName(u) = {} => files[up[u].name] = Copied(u, up[u].written)
  /\ up[u].pc = "saved" => up[u].written = Chunks

UploadInv ==
  /\ clock \in Times
  /\ up \in [Uploads -> UpRow]
  /\ \A u \in Uploads : CopyTrue(u)

LEMMA NoName == <<>> \notin Names
BY DEF Names

LEMMA UploadStart ==
  ASSUME UploadsInit
  PROVE  UploadInv
<1>1. 0 \in Times BY UploadBounds DEF Times
<1>2. Waiting \in UpRow BY <1>1, UploadBounds DEF Waiting, UpRow
<1>3. clock \in Times /\ up \in [Uploads -> UpRow] BY <1>1, <1>2 DEF UploadsInit
<1>4. ASSUME NEW u \in Uploads PROVE CopyTrue(u)
  BY DEF UploadsInit, Waiting, CopyTrue
<1> QED BY <1>3, <1>4 DEF UploadInv

\* The next piece lands right behind the ones before.
LEMMA NextPiece ==
  ASSUME NEW u \in Uploads, NEW w \in Nat, w < Chunks
  PROVE  Put(Copied(u, w), w + 1, u) = Copied(u, w + 1)
BY UploadBounds, UploadNames DEF Put, Copied

\* While an upload and the content of its file stay as they are, and no other
\* upload changes a name it shares, what is true of it stays true.
LEMMA CopyStays ==
  ASSUME UploadInv, NEW u \in Uploads, up'[u] = up[u],
         \A v \in Uploads : up'[v].name = up[v].name,
         up[u].pc \in {"copy", "saved"} =>
           /\ up[u].name \in DOMAIN files'
           /\ SameName(u) = {} => files'[up[u].name] = files[up[u].name]
  PROVE  CopyTrue(u)'
<1>1. SameName(u)' = SameName(u) BY DEF SameName
<1> QED BY <1>1 DEF UploadInv, CopyTrue

\* A step that moves u's pc only, to a place where less is known of it.
LEMMA BecomeKeeps ==
  ASSUME UploadInv, NEW u \in Uploads, NEW pc \in {"received", "refused", "saved"},
         Become(u, pc), UNCHANGED <<clock, files>>,
         pc = "received" => up[u].pc = "waiting",
         pc = "saved" => up[u].pc = "copy" /\ up[u].written = Chunks
  PROVE  UploadInv'
<1>1. up \in [Uploads -> UpRow] /\ clock \in Times BY DEF UploadInv
<1>2. /\ up'[u] = [up[u] EXCEPT !.pc = pc]
      /\ \A v \in Uploads : v # u => up'[v] = up[v]
  BY <1>1 DEF Become
<1>3. /\ up'[u].pc = pc /\ up'[u].name = up[u].name /\ up'[u].written = up[u].written
      /\ up'[u] \in UpRow
  BY <1>1, <1>2 DEF UpRow
<1>4. up' \in [Uploads -> UpRow] BY <1>1, <1>3 DEF Become
<1>5. \A v \in Uploads : up'[v].name = up[v].name BY <1>2, <1>3
<1>6. SameName(u)' = SameName(u) BY <1>5 DEF SameName
<1>7. CopyTrue(u)' BY <1>3, <1>6 DEF UploadInv, CopyTrue
<1>8. ASSUME NEW v \in Uploads, v # u PROVE CopyTrue(v)'
  BY <1>2, <1>5, <1>8, CopyStays DEF UploadInv, CopyTrue
<1> QED BY <1>1, <1>4, <1>7, <1>8 DEF UploadInv

\* One step of one upload.
LEMMA ReadClockKeeps ==
  ASSUME UploadInv, NEW u \in Uploads,
         up[u].pc = "received", UNCHANGED <<clock, files>>,
         up' = [up EXCEPT ![u].pc = "create", ![u].at = clock]
  PROVE  UploadInv'
<1>0. up \in [Uploads -> UpRow] /\ clock \in Times /\ up[u] \in UpRow BY DEF UploadInv
<1>1. up'[u] = [[up[u] EXCEPT !.pc = "create"] EXCEPT !.at = clock]
      /\ \A v \in Uploads : v # u => up'[v] = up[v]
  BY <1>0
<1>2. /\ up'[u].pc = "create" /\ up'[u].name = up[u].name
      /\ up'[u].written = up[u].written /\ up'[u] \in UpRow
  BY <1>0, <1>1 DEF UpRow
<1>3. up' \in [Uploads -> UpRow] BY <1>0, <1>2
<1>4. CopyTrue(u)' BY <1>2 DEF UploadInv, CopyTrue
<1>5. \A v \in Uploads : up'[v].name = up[v].name BY <1>1, <1>2
<1>6. ASSUME NEW v \in Uploads, v # u PROVE CopyTrue(v)'
  BY <1>1, <1>5, <1>6, CopyStays DEF UploadInv, CopyTrue
<1> QED BY <1>0, <1>3, <1>4, <1>6 DEF UploadInv

\* A new file is empty; whoever has a file of that name shares it from now on.
LEMMA CreateKeeps ==
  ASSUME UploadInv, NEW u \in Uploads, NEW n \in Names,
         up[u].pc = "create", UNCHANGED clock,
         up' = [up EXCEPT ![u].pc = "copy", ![u].name = n],
         files' = [m \in DOMAIN files \cup {n} |-> IF m = n THEN Empty ELSE files[m]]
  PROVE  UploadInv'
<1>0. up \in [Uploads -> UpRow] /\ clock \in Times /\ up[u] \in UpRow BY DEF UploadInv
<1>1. up'[u] = [[up[u] EXCEPT !.pc = "copy"] EXCEPT !.name = n]
      /\ \A v \in Uploads : v # u => up'[v] = up[v]
  BY <1>0
<1>2. /\ up'[u].pc = "copy" /\ up'[u].name = n
      /\ up'[u].written = up[u].written /\ up'[u] \in UpRow
  BY <1>0, <1>1 DEF UpRow
<1>3. up' \in [Uploads -> UpRow] BY <1>0, <1>2
<1>4. up[u].written = 0 /\ up[u].name = <<>> BY DEF UploadInv, CopyTrue
<1>5. files'[n] = Empty /\ n \in DOMAIN files' OBVIOUS
<1>6. Empty = Copied(u, 0) BY UploadBounds DEF Empty, Copied
<1>7. CopyTrue(u)' BY <1>2, <1>4, <1>5, <1>6 DEF CopyTrue
<1>8. ASSUME NEW v \in Uploads, v # u PROVE CopyTrue(v)'
  <2>1. CopyTrue(v) /\ up'[v] = up[v] BY <1>1, <1>8 DEF UploadInv
  <2>2. CASE up[v].pc \notin {"copy", "saved"} BY <2>1, <2>2 DEF CopyTrue
  <2>3. CASE up[v].pc \in {"copy", "saved"}
    <3>1. /\ up[v].name \in Names /\ up[v].name \in DOMAIN files'
          /\ SameName(v) = {} => files[up[v].name] = Copied(v, up[v].written)
          /\ up[v].pc = "saved" => up[v].written = Chunks
      BY <2>1, <2>3 DEF CopyTrue
    <3>2. SameName(v)' = {} => SameName(v) = {} /\ up[v].name # n
      <4>1. ASSUME SameName(v)' = {} PROVE up[v].name # n
        BY <1>2, <1>8, <2>1, <4>1 DEF SameName
      <4>2. ASSUME SameName(v)' = {}, NEW x \in SameName(v) PROVE FALSE
        <5>1. x \in Uploads /\ x # v /\ up[x].name = up[v].name BY <4>2 DEF SameName
        <5>2. x # u BY <1>4, <3>1, <5>1, NoName
        <5>3. x \in SameName(v)' BY <1>1, <2>1, <5>1, <5>2 DEF SameName
        <5> QED BY <4>2, <5>3
      <4> QED BY <4>1, <4>2
    <3>3. SameName(v)' = {} => files'[up[v].name] = Copied(v, up[v].written)
      BY <3>1, <3>2
    <3> QED BY <2>1, <2>3, <3>1, <3>3 DEF CopyTrue
  <2> QED BY <2>2, <2>3
<1> QED BY <1>0, <1>3, <1>7, <1>8 DEF UploadInv

\* A piece is copied; the file is another's too only if they share the name.
LEMMA PieceKeeps ==
  ASSUME UploadInv, NEW u \in Uploads, up[u].pc = "copy", UNCHANGED clock,
         up[u].written < Chunks,
         files' = [files EXCEPT ![up[u].name] = Put(@, up[u].written + 1, u)],
         up' = [up EXCEPT ![u].written = @ + 1]
  PROVE  UploadInv'
<1> DEFINE n == up[u].name  w == up[u].written
<1>0. /\ up \in [Uploads -> UpRow] /\ clock \in Times /\ up[u] \in UpRow
      /\ w \in Nat /\ w < Chunks /\ Chunks \in Nat /\ CopyTrue(u)
  BY UploadBounds DEF UploadInv, UpRow
<1>1. up'[u] = [up[u] EXCEPT !.written = w + 1]
      /\ \A v \in Uploads : v # u => up'[v] = up[v]
  BY <1>0
<1>2. /\ up'[u].pc = "copy" /\ up'[u].name = n /\ up'[u].written = w + 1
      /\ up'[u] \in UpRow
  BY <1>0, <1>1 DEF UpRow
<1>3. up' \in [Uploads -> UpRow] BY <1>0, <1>2
<1>4. \A v \in Uploads : up'[v].name = up[v].name BY <1>1, <1>2
<1>5. n \in Names /\ n \in DOMAIN files BY <1>0 DEF CopyTrue
<1>6. /\ DOMAIN files' = DOMAIN files /\ files'[n] = Put(files[n], w + 1, u)
      /\ \A m \in DOMAIN files : m # n => files'[m] = files[m]
  BY <1>5
<1>7. SameName(u)' = SameName(u) BY <1>4 DEF SameName
<1>8. SameName(u) = {} => files'[n] = Copied(u, w + 1)
  BY <1>0, <1>6, NextPiece DEF CopyTrue
<1>9. CopyTrue(u)' BY <1>2, <1>5, <1>6, <1>7, <1>8 DEF CopyTrue
<1>10. ASSUME NEW v \in Uploads, v # u PROVE CopyTrue(v)'
  <2>1. CopyTrue(v) /\ up'[v] = up[v] BY <1>1, <1>10 DEF UploadInv
  <2>2. up[v].name = n => u \in SameName(v) BY <1>10 DEF SameName
  <2>3. up[v].pc \in {"copy", "saved"} =>
          /\ up[v].name \in DOMAIN files'
          /\ SameName(v) = {} => files'[up[v].name] = files[up[v].name]
    BY <1>6, <2>1, <2>2 DEF CopyTrue
  <2> QED BY <1>4, <2>1, <2>3, CopyStays
<1> QED BY <1>0, <1>3, <1>9, <1>10 DEF UploadInv

LEMMA UploadStepKeeps ==
  ASSUME UploadInv, NEW u \in Uploads, UploadStep(u)
  PROVE  UploadInv'
<1>0. up \in [Uploads -> UpRow] /\ clock \in Times /\ up[u] \in UpRow BY DEF UploadInv
<1>1. CASE SaveUpload(u) BY <1>1, BecomeKeeps, ReadClockKeeps DEF SaveUpload
<1>2. CASE CreateFile(u)
  <2>1. <<up[u].at, Letters(clock)>> \in Names BY <1>0 DEF Names, UpRow
  <2> QED BY <1>2, <2>1, BecomeKeeps, CreateKeeps DEF CreateFile
<1>3. CASE CopyFile(u) BY <1>3, BecomeKeeps, PieceKeeps DEF CopyFile
<1> QED BY <1>1, <1>2, <1>3 DEF UploadStep

\* The process dies: what was under way is lost, what is saved stays.
LEMMA DieKeeps ==
  ASSUME UploadInv, UploadsDie
  PROVE  UploadInv'
<1>0. up \in [Uploads -> UpRow] /\ clock \in Times BY DEF UploadInv
<1>1. ASSUME NEW u \in Uploads
      PROVE  /\ up'[u] \in UpRow /\ up'[u].name = up[u].name
             /\ up'[u] = up[u] \/ up'[u].pc = "lost"
  <2>1. up'[u] \in {up[u], [up[u] EXCEPT !.pc = "lost"]} BY DEF UploadsDie
  <2> QED BY <1>0, <2>1 DEF UpRow
<1>2. up' \in [Uploads -> UpRow] BY <1>1 DEF UploadsDie
<1>3. ASSUME NEW u \in Uploads PROVE CopyTrue(u)'
  <2>1. CASE up'[u] = up[u] BY <1>1, <2>1, CopyStays DEF UploadsDie, UploadInv, CopyTrue
  <2>2. CASE up'[u].pc = "lost" BY <2>2 DEF CopyTrue
  <2> QED BY <1>1, <2>1, <2>2
<1> QED BY <1>0, <1>2, <1>3 DEF UploadInv, UploadsDie

\* The uploads move as Uploads says, whatever the tabs and the server do.
LEMMA UploadMoves ==
  ASSUME [Next]_vars
  PROVE  \/ UNCHANGED uploadVars
         \/ Tick \/ UploadsDie \/ \E u \in Uploads : UploadStep(u)
         \/ \E u \in Uploads : /\ up[u].pc = "waiting"
                              /\ UNCHANGED <<clock, files>>
                              /\ \/ Become(u, "received")
                                 \/ Become(u, "refused")
<1>1. CASE UNCHANGED vars BY <1>1 DEF vars, uploadVars
<1>2. ASSUME NEW t \in Tabs, NEW u \in Uploads, DoUpload(t, u)
      PROVE  /\ up[u].pc = "waiting" /\ UNCHANGED <<clock, files>>
             /\ (Become(u, "received") \/ Become(u, "refused"))
  BY <1>2 DEF DoUpload, Receive
<1>3. CASE PhotoServed BY <1>3 DEF PhotoServed
<1>4. ASSUME NEW c, Answered(c) \/ Timeout(c) PROVE UNCHANGED uploadVars
  BY <1>4, Zenon DEF Answered, Timeout, Hear
<1>5. ASSUME \/ \E t \in Tabs : UserActs(t)
             \/ \E u \in Uploads : Uploaded(u)
             \/ Serve \/ Expire
      PROVE  UNCHANGED uploadVars
  BY <1>5, Zenon DEF UserActs, Uploaded, Serve, Expire
<1> QED BY <1>1, <1>2, <1>3, <1>4, <1>5 DEF Next

LEMMA UploadNext ==
  ASSUME UploadInv, [Next]_vars
  PROVE  UploadInv'
<1>1. CASE UNCHANGED uploadVars
  BY <1>1 DEF uploadVars, UploadInv, CopyTrue, SameName
<1>2. CASE Tick
  <2>1. clock' \in Times BY <1>2, UploadBounds DEF Tick, Times, UploadInv
  <2> QED BY <1>2, <2>1 DEF Tick, UploadInv, CopyTrue, SameName
<1> QED BY <1>1, <1>2, UploadMoves, UploadStepKeeps, DieKeeps, BecomeKeeps

\* A saved photo stays saved.
LEMMA SavedStays ==
  ASSUME UploadInv, [Next]_vars, NEW u \in Uploads, up[u].pc = "saved"
  PROVE  up'[u].pc = "saved"
<1>0. up \in [Uploads -> UpRow] BY DEF UploadInv
<1>1. ASSUME NEW v \in Uploads, up[v].pc # "saved",
             \A x \in Uploads : x # v => up'[x] = up[x]
      PROVE  up'[u].pc = "saved"
  BY <1>1
<1>2. ASSUME NEW v \in Uploads, NEW pc, up[v].pc # "saved", Become(v, pc)
      PROVE  up'[u].pc = "saved"
  BY <1>0, <1>1, <1>2 DEF Become
<1>3. ASSUME NEW v \in Uploads, UploadStep(v) PROVE up'[u].pc = "saved"
  <2>1. up[v].pc # "saved" BY <1>3 DEF UploadStep, SaveUpload, CreateFile, CopyFile
  <2>2. \A x \in Uploads : x # v => up'[x] = up[x]
    BY <1>0, <1>3 DEF UploadStep, SaveUpload, CreateFile, CopyFile, Become
  <2> QED BY <1>1, <2>1, <2>2
<1>4. CASE UNCHANGED uploadVars \/ Tick BY <1>4 DEF uploadVars, Tick
<1>5. CASE UploadsDie BY <1>5 DEF UploadsDie
<1> QED BY <1>2, <1>3, <1>4, <1>5, UploadMoves

-----------------------------------------------------------------------------
(***************************************************************************)
(* Tabs and calls.                                                         *)
(***************************************************************************)
Pages == {"home", "login", "form", "guarded", "note", "published"}
Kinds == {"login", "note", "like", "unlike", "publish"}

TabRow == [page : Pages, token : Token \cup {None}, user : Users \cup {None},
           loaded : BOOLEAN, liked : BOOLEAN, count : Nat, busy : BOOLEAN,
           image : Uploads \cup {None}, uploading : BOOLEAN]

CallRow == [n : Nat, tab : Tabs \cup {None}, here : BOOLEAN, kind : Kinds,
            token : Token \cup {None}, arg : Users \cup Uploads \cup {None},
            status : Nat, got : Token \cup Nat \cup {None}]

\* A token that a served login gave out, or none: no login on its way will
\* give it out.
Settled(k) ==
  /\ k \in Token \cup {None}
  /\ k # None =>
       /\ k.n <= sent
       /\ \A c \in wire : c.status = 0 => c.n # k.n

\* A photo that is saved, or none.
Pictured(u) ==
  /\ u \in Uploads \cup {None}
  /\ u # None => up[u].pc = "saved"

TabTrue(s) == s \in TabRow /\ Settled(s.token) /\ Pictured(s.image)

\* A 401 to anything but a login means that its token is not good any more.
CallTrue(c) ==
  /\ c \in CallRow /\ c.n <= sent /\ Settled(c.token)
  /\ c.kind = "login" => c.arg \in Users
  /\ c.kind = "login" /\ Worked(c) => c.got \in Token /\ Settled(c.got)
  /\ c.kind = "note" /\ Worked(c) => c.got \in Nat
  /\ c.kind = "publish" => Pictured(c.arg)
  /\ c.kind # "login" /\ c.status = 401 => c.token \notin accepted

OneCallEach(calls) == \A c, d \in calls : c.n = d.n => c = d

BrowserInv ==
  /\ UploadInv /\ scene \in Scenes
  /\ sent \in Nat /\ accepted \subseteq Token /\ IsFiniteSet(likes)
  /\ photo \in [Uploads -> [tab : Tabs, here : BOOLEAN] \cup {None}]
  /\ Settled(local)
  /\ tab \in [Tabs -> TabRow]
  /\ \A t \in Tabs : TabTrue(tab[t])
  /\ \A c \in wire : CallTrue(c)
  /\ OneCallEach(wire)
  /\ \A u \in published : Pictured(u)
  /\ GoodTokenIsSent

LEMMA ClosedTab ==
  /\ Closed \in TabRow
  /\ Closed.token = None /\ Closed.user = None /\ Closed.image = None
<1>1. Closed \in TabRow BY DEF Closed, TabRow, Pages
<1> QED BY <1>1 DEF Closed

LEMMA BrowserStart == Init => BrowserInv
<1> SUFFICES ASSUME Init PROVE BrowserInv OBVIOUS
<1>1. UploadInv BY UploadStart DEF Init
<1>2. IsFiniteSet(likes) BY FS_EmptySet DEF Init
<1>3. Settled(None) /\ Pictured(None) BY DEF Settled, Pictured
<1>4. Closed \in TabRow /\ Closed.token = None /\ Closed.user = None /\ Closed.image = None
  BY ClosedTab
<1>5. TabTrue(Closed) BY <1>3, <1>4 DEF TabTrue
<1>6. GoodTokenIsSent BY <1>4 DEF Init, GoodTokenIsSent
<1> QED BY <1>1, <1>2, <1>3, <1>4, <1>5, <1>6 DEF Init, BrowserInv, OneCallEach

(***************************************************************************)
(* How the calls on their way change.                                      *)
(***************************************************************************)
\* d is c, whoever listens to it by now.
Same(c, d) ==
  /\ d \in CallRow
  /\ d.n = c.n /\ d.kind = c.kind /\ d.token = c.token /\ d.arg = c.arg
  /\ d.status = c.status /\ d.got = c.got

\* Calls is a part of the calls on their way, listened to by others perhaps.
Rest(calls) ==
  /\ \A d \in calls : \E c \in wire : Same(c, d)
  /\ OneCallEach(calls)

LEMMA RestAll ==
  ASSUME BrowserInv
  PROVE  Rest(wire)
BY DEF BrowserInv, CallTrue, Rest, Same

\* Calls whose component is gone.
LEMMA RestOrphans ==
  ASSUME NEW calls, Rest(calls), NEW t
  PROVE  Rest(Orphans(calls, t))
<1>1. ASSUME NEW c \in calls, NEW b \in BOOLEAN
      PROVE  Same(c, [c EXCEPT !.here = b])
  <2>1. c \in CallRow BY DEF Rest, Same
  <2> QED BY <2>1 DEF Same, CallRow
<1>2. ASSUME NEW d \in Orphans(calls, t)
      PROVE  \E c \in calls : Same(c, d) /\ d = [c EXCEPT !.here = @ /\ c.tab # t]
  <2>1. PICK c \in calls : d = [c EXCEPT !.here = @ /\ c.tab # t] BY DEF Orphans
  <2>2. c \in CallRow BY DEF Rest, Same
  <2>3. (c.here /\ c.tab # t) \in BOOLEAN OBVIOUS
  <2> QED BY <1>1, <2>1, <2>3
<1>3. \A d \in Orphans(calls, t) : \E c \in wire : Same(c, d)
  BY <1>2 DEF Rest, Same
<1>4. ASSUME NEW d \in Orphans(calls, t), NEW e \in Orphans(calls, t), d.n = e.n
      PROVE  d = e
  <2>1. PICK c \in calls : Same(c, d) /\ d = [c EXCEPT !.here = @ /\ c.tab # t] BY <1>2
  <2>2. PICK b \in calls : Same(b, e) /\ e = [b EXCEPT !.here = @ /\ b.tab # t] BY <1>2
  <2>3. c.n = b.n BY <1>4, <2>1, <2>2 DEF Same
  <2>4. c = b BY <2>3 DEF Rest, OneCallEach
  <2> QED BY <2>1, <2>2, <2>4
<1> QED BY <1>3, <1>4 DEF Rest, OneCallEach

\* Some are left out, and of the rest some are not listened to any more.
LEMMA RestUnheard ==
  ASSUME BrowserInv, NEW kept, NEW quiet, kept \subseteq wire, quiet \subseteq wire,
         kept \cap quiet = {}
  PROVE  Rest(kept \cup {Unheard(c) : c \in quiet})
<1> DEFINE calls == kept \cup {Unheard(c) : c \in quiet}
<1>1. ASSUME NEW c \in wire PROVE Same(c, c) /\ Same(c, Unheard(c))
  <2>1. c \in CallRow BY DEF BrowserInv, CallTrue
  <2> QED BY <2>1 DEF Same, CallRow, Unheard
<1>2. ASSUME NEW d \in calls
      PROVE  \E c \in wire : Same(c, d) /\ ((c \in kept /\ d = c) \/ (c \in quiet /\ d = Unheard(c)))
  BY <1>1
<1>3. ASSUME NEW d \in calls, NEW e \in calls, d.n = e.n PROVE d = e
  <2> HIDE DEF calls
  <2>1. PICK c \in wire : Same(c, d) /\ ((c \in kept /\ d = c) \/ (c \in quiet /\ d = Unheard(c)))
    BY <1>2
  <2>2. PICK b \in wire : Same(b, e) /\ ((b \in kept /\ e = b) \/ (b \in quiet /\ e = Unheard(b)))
    BY <1>2
  <2>3. c = b BY <1>3, <2>1, <2>2 DEF Same, BrowserInv, OneCallEach
  <2> QED BY <2>1, <2>2, <2>3
<1> HIDE DEF calls
<1>4. Rest(calls) BY <1>2, <1>3 DEF Rest, OneCallEach
<1> QED BY <1>4 DEF calls

(***************************************************************************)
(* What stays true while calls are sent, served and heard of.              *)
(***************************************************************************)
\* A call that waits for the server now did so before, or is new; and so is a
\* token that was not good before.
WireMoves ==
  /\ sent' \in Nat /\ sent <= sent'
  /\ \A d \in wire' : d.status = 0 =>
       d.n > sent \/ \E c \in wire : c.status = 0 /\ c.n = d.n

GoodMoves ==
  /\ accepted' \subseteq Token
  /\ \A k \in accepted' : k \in accepted \/ \E c \in wire : c.status = 0 /\ c.n = k.n

LEMMA SettledStays ==
  ASSUME sent \in Nat, WireMoves, NEW k, Settled(k)
  PROVE  Settled(k)'
<1>1. k \in Token \cup {None} BY DEF Settled
<1>2. CASE k = None BY <1>2 DEF Settled
<1>3. CASE k # None
  <2>1. k.n \in Nat /\ k.n <= sent BY <1>1, <1>3 DEF Settled, Token
  <2>2. ASSUME NEW d \in wire', d.status = 0 PROVE d.n # k.n
    BY <1>3, <2>1, <2>2 DEF WireMoves, Settled
  <2> QED BY <1>1, <2>1, <2>2 DEF WireMoves, Settled
<1> QED BY <1>2, <1>3

\* A token that was given out and is good no more stays so.
LEMMA GoodBefore ==
  ASSUME GoodMoves, NEW k, Settled(k), k # None, k \in accepted'
  PROVE  k \in accepted
BY DEF GoodMoves, Settled

LEMMA PicturedStays ==
  ASSUME UploadInv, [Next]_vars, NEW u, Pictured(u)
  PROVE  Pictured(u)'
BY SavedStays DEF Pictured

LEMMA TabStays ==
  ASSUME BrowserInv, [Next]_vars, WireMoves, NEW s, TabTrue(s)
  PROVE  TabTrue(s)'
<1>1. Settled(s.token)' BY SettledStays DEF BrowserInv, TabTrue
<1>2. Pictured(s.image)' BY PicturedStays DEF BrowserInv, TabTrue
<1> QED BY <1>1, <1>2 DEF TabTrue

LEMMA CallStays ==
  ASSUME BrowserInv, [Next]_vars, WireMoves, GoodMoves,
         NEW c, NEW d, CallTrue(c), Same(c, d)
  PROVE  CallTrue(d)'
<1>0. /\ sent \in Nat /\ UploadInv /\ d \in CallRow
      /\ d.n = c.n /\ d.kind = c.kind /\ d.token = c.token /\ d.arg = c.arg
      /\ d.status = c.status /\ d.got = c.got
      /\ c.n <= sent /\ c.n \in Nat
  BY DEF BrowserInv, Same, CallTrue, CallRow
<1>1. Settled(d.token)' BY <1>0, SettledStays DEF CallTrue
<1>2. d.kind = "login" => d.arg \in Users BY <1>0 DEF CallTrue
<1>3. Worked(d)' <=> Worked(c) BY <1>0 DEF Worked
<1>4. d.kind = "login" /\ Worked(d)' => d.got \in Token /\ Settled(d.got)'
  BY <1>0, <1>3, SettledStays DEF CallTrue
<1>5. d.kind = "note" /\ Worked(d)' => d.got \in Nat BY <1>0, <1>3 DEF CallTrue
<1>6. d.kind = "publish" => Pictured(d.arg)' BY <1>0, PicturedStays DEF CallTrue
<1>7. d.n <= sent' BY <1>0 DEF WireMoves
<1>8. d.kind # "login" /\ d.status = 401 => d.token \notin accepted'
  <2> SUFFICES ASSUME d.kind # "login", d.status = 401, d.token \in accepted'
               PROVE  FALSE
    OBVIOUS
  <2>1. d.token # None BY BrowserNone DEF GoodMoves
  <2>2. Settled(d.token) BY <1>0 DEF CallTrue
  <2>3. d.token \in accepted BY <2>1, <2>2, GoodBefore
  <2> QED BY <1>0, <2>3 DEF CallTrue
<1> QED BY <1>0, <1>1, <1>2, <1>4, <1>5, <1>6, <1>7, <1>8 DEF CallTrue

\* A tab that did not change is as right about its token as before, while
\* localStorage does not change.
TokenIsSent(t) ==
  /\ tab[t].token \in accepted \cup {None} => local = tab[t].token
  /\ tab[t].user # None /\ local # None => local.of = tab[t].user

LEMMA TokenStays ==
  ASSUME BrowserInv, GoodMoves, NEW t \in Tabs, TokenIsSent(t), local' = local,
         tab'[t].token = tab[t].token, tab'[t].user = tab[t].user
  PROVE  TokenIsSent(t)'
<1>1. Settled(tab[t].token) BY DEF BrowserInv, TabTrue
<1>2. tab'[t].token \in accepted' \cup {None} => tab[t].token \in accepted \cup {None}
  BY <1>1, GoodBefore
<1> QED BY <1>2 DEF TokenIsSent

LEMMA AllTokensSent == GoodTokenIsSent <=> \A t \in Tabs \ apart : TokenIsSent(t)
BY DEF GoodTokenIsSent, TokenIsSent

\* The calls of a step that sends none.
LEMMA RestMoves ==
  ASSUME BrowserInv, [Next]_vars, Rest(wire'), sent' = sent, GoodMoves
  PROVE  WireMoves /\ (\A d \in wire' : CallTrue(d)') /\ OneCallEach(wire')
<1>1. WireMoves BY DEF BrowserInv, WireMoves, Rest, Same
<1>2. ASSUME NEW d \in wire' PROVE CallTrue(d)'
  <2>1. PICK c \in wire : Same(c, d) BY <1>2 DEF Rest
  <2> QED BY <1>1, <2>1, CallStays DEF BrowserInv
<1> QED BY <1>1, <1>2 DEF Rest

\* And of one that sends a call with what localStorage holds.
LEMMA SendMoves ==
  ASSUME BrowserInv, [Next]_vars, NEW t \in Tabs, NEW kind \in Kinds,
         NEW arg \in Users \cup Uploads \cup {None},
         NEW calls, Rest(calls), Send(calls, Call(t, kind, arg)), GoodMoves,
         kind = "login" => arg \in Users,
         kind = "publish" => Pictured(arg)
  PROVE  WireMoves /\ (\A d \in wire' : CallTrue(d)') /\ OneCallEach(wire')
<1>0. sent \in Nat /\ Settled(local) /\ UploadInv BY DEF BrowserInv
<1>7. PICK new : new = Call(t, kind, arg) OBVIOUS
<1>1. /\ new \in CallRow /\ new.n = sent + 1 /\ new.kind = kind /\ new.arg = arg
      /\ new.token = local /\ new.status = 0
  BY <1>0, <1>7 DEF Call, CallRow, Settled
<1>2. wire' = calls \cup {new} /\ sent' = sent + 1 BY <1>7 DEF Send
<1>3. WireMoves BY <1>0, <1>1, <1>2 DEF WireMoves, Rest, Same
<1>4. CallTrue(new)'
  <2>1. Settled(local) /\ Settled(new.token)' BY <1>0, <1>1, <1>3, SettledStays
  <2>2. kind = "publish" => Pictured(new.arg)' BY <1>0, <1>1, PicturedStays
  <2>3. ~Worked(new)' BY <1>1 DEF Worked
  <2> QED BY <1>0, <1>1, <1>2, <2>1, <2>2, <2>3 DEF CallTrue
<1>5. ASSUME NEW d \in calls PROVE CallTrue(d)' /\ d.n \in Nat /\ d.n <= sent
  <2>1. PICK c \in wire : Same(c, d) BY <1>5 DEF Rest
  <2>2. CallTrue(d)' BY <1>3, <2>1, CallStays DEF BrowserInv
  <2> QED BY <2>1, <2>2 DEF BrowserInv, CallTrue, CallRow, Same
<1>6. OneCallEach(wire')
  <2>1. \A d \in calls : d.n # new.n BY <1>0, <1>1, <1>5
  <2> QED BY <1>2, <2>1 DEF OneCallEach, Rest
<1> QED BY <1>2, <1>3, <1>4, <1>5, <1>6

-----------------------------------------------------------------------------
(***************************************************************************)
(* The steps.  WireKept is the invariant's part about calls, TabsKept the  *)
(* one about tabs; what the rest of BrowserInv needs is short.             *)
(***************************************************************************)
WireKept == WireMoves /\ GoodMoves /\ (\A d \in wire' : CallTrue(d)') /\ OneCallEach(wire')

TabsKept ==
  /\ tab' \in [Tabs -> TabRow]
  /\ \A q \in Tabs : TabTrue(tab'[q])

LEMMA GoodKept ==
  ASSUME BrowserInv, UNCHANGED accepted
  PROVE  GoodMoves
BY DEF BrowserInv, GoodMoves

\* One tab moves on.
LEMMA TabMoves ==
  ASSUME BrowserInv, NEW t \in Tabs, NEW s, TabTrue(s), tab' = [tab EXCEPT ![t] = s]
  PROVE  /\ TabsKept /\ tab'[t] = s
         /\ \A q \in Tabs : q # t => tab'[q] = tab[q]
BY DEF BrowserInv, TabTrue, TabsKept

LEMMA MountTrue ==
  ASSUME BrowserInv, NEW p \in Pages, NEW s,
         s.token \in Token \cup {None}, s.user \in Users \cup {None}, Settled(s.token)
  PROVE  /\ TabTrue(Mount(s, p))
         /\ Mount(s, p).token = s.token /\ Mount(s, p).user = s.user
<1>1. Closed \in TabRow /\ Closed.image = None BY ClosedTab
<1>2. /\ Mount(s, p) \in TabRow
      /\ Mount(s, p).token = s.token /\ Mount(s, p).user = s.user
      /\ Mount(s, p).image = None
  <2> DEFINE a == [Closed EXCEPT !.page = p]
             b == [a EXCEPT !.token = s.token]
  <2>1. a \in TabRow /\ a.image = None BY <1>1 DEF TabRow
  <2> HIDE DEF a
  <2>2. b \in TabRow /\ b.image = None /\ b.token = s.token BY <2>1 DEF TabRow
  <2> HIDE DEF b
  <2>3. /\ [b EXCEPT !.user = s.user] \in TabRow
        /\ [b EXCEPT !.user = s.user].image = None
        /\ [b EXCEPT !.user = s.user].token = s.token
        /\ [b EXCEPT !.user = s.user].user = s.user
    BY <2>2 DEF TabRow
  <2> QED BY <2>3, Zenon DEF Mount, a, b
<1> QED BY <1>2 DEF TabTrue, Pictured

LEMMA BusyTrue ==
  ASSUME NEW s, TabTrue(s), NEW b \in BOOLEAN
  PROVE  /\ TabTrue([s EXCEPT !.busy = b])
         /\ [s EXCEPT !.busy = b].token = s.token /\ [s EXCEPT !.busy = b].user = s.user
<1>1. /\ [s EXCEPT !.busy = b] \in TabRow
      /\ [s EXCEPT !.busy = b].token = s.token /\ [s EXCEPT !.busy = b].user = s.user
      /\ [s EXCEPT !.busy = b].image = s.image
  BY DEF TabTrue, TabRow
<1> QED BY <1>1 DEF TabTrue

LEMMA PageTrue ==
  ASSUME NEW s, TabTrue(s), NEW p \in Pages
  PROVE  /\ TabTrue([s EXCEPT !.page = p])
         /\ [s EXCEPT !.page = p].token = s.token /\ [s EXCEPT !.page = p].user = s.user
<1>1. /\ [s EXCEPT !.page = p] \in TabRow
      /\ [s EXCEPT !.page = p].token = s.token /\ [s EXCEPT !.page = p].user = s.user
      /\ [s EXCEPT !.page = p].image = s.image
  BY DEF TabTrue, TabRow
<1> QED BY <1>1 DEF TabTrue

LEMMA PhotosKept ==
  ASSUME BrowserInv, NEW t
  PROVE  OrphanPhotos(t) \in [Uploads -> [tab : Tabs, here : BOOLEAN] \cup {None}]
BY DEF BrowserInv, OrphanPhotos

\* Nobody logs in or out: what each tab and localStorage hold stays.
LEMMA NobodyMoves ==
  ASSUME BrowserInv, GoodMoves, local' = local, apart \subseteq apart',
         \A q \in Tabs : tab'[q].token = tab[q].token /\ tab'[q].user = tab[q].user
  PROVE  GoodTokenIsSent'
<1>1. ASSUME NEW q \in Tabs, q \notin apart PROVE TokenIsSent(q)'
  BY <1>1, TokenStays, AllTokensSent DEF BrowserInv
<1> QED BY <1>1 DEF GoodTokenIsSent, TokenIsSent

\* A tab's store takes token k, for user u, from localStorage or puts it there.
LEMMA TokenTaken ==
  ASSUME BrowserInv, GoodMoves, NEW t \in Tabs, NEW k, local' = k,
         tab'[t].token = k,
         k # None /\ tab'[t].user # None => k.of = tab'[t].user,
         \A q \in Tabs : q # t => tab'[q] = tab[q],
         apart' = (IF k = local THEN apart ELSE Tabs) \ {t}
  PROVE  GoodTokenIsSent'
<1>1. TokenIsSent(t)' BY DEF TokenIsSent
<1>2. ASSUME NEW q \in Tabs \ apart', q # t PROVE TokenIsSent(q)'
  <2>1. q \notin apart /\ local' = local BY <1>2
  <2> QED BY <1>2, <2>1, TokenStays, AllTokensSent DEF BrowserInv
<1> QED BY <1>1, <1>2 DEF GoodTokenIsSent, TokenIsSent

LEMMA UserKeeps ==
  ASSUME BrowserInv, [Next]_vars, NEW t \in Tabs, UserActs(t)
  PROVE  /\ WireKept /\ TabsKept /\ GoodTokenIsSent'
         /\ photo' \in [Uploads -> [tab : Tabs, here : BOOLEAN] \cup {None}]
         /\ local' \in {local, None}
<1> DEFINE Goal == /\ WireKept /\ TabsKept /\ GoodTokenIsSent'
                   /\ photo' \in [Uploads -> [tab : Tabs, here : BOOLEAN] \cup {None}]
                   /\ local' \in {local, None}
<1>0. /\ TabTrue(tab[t]) /\ tab[t] \in TabRow /\ Rest(wire)
      /\ tab[t].token \in Token \cup {None} /\ tab[t].user \in Users \cup {None}
      /\ Settled(tab[t].token) /\ Pictured(tab[t].image) /\ tab[t].image \in Uploads \cup {None}
      /\ photo \in [Uploads -> [tab : Tabs, here : BOOLEAN] \cup {None}]
  BY RestAll DEF BrowserInv, TabTrue, TabRow
<1>1. GoodMoves BY GoodKept DEF UserActs, serverVars
<1>2. Rest(Orphans(wire, t)) BY <1>0, RestOrphans
\* What a step does to the calls.
<1>3. ASSUME Rest(wire'), sent' = sent PROVE WireKept
  BY <1>1, <1>3, RestMoves DEF WireKept
<1>4. ASSUME NEW kind \in Kinds, NEW arg \in Users \cup Uploads \cup {None},
             NEW calls, Rest(calls), Send(calls, Call(t, kind, arg)),
             kind = "login" => arg \in Users,
             kind = "publish" => Pictured(arg)
      PROVE  WireKept
  BY <1>1, <1>4, SendMoves DEF WireKept
\* What a step does to the tab.
<1>5. ASSUME NEW p \in Pages, Goes(t, Mount(tab[t], p)), UNCHANGED <<local, apart>>
      PROVE  TabsKept /\ GoodTokenIsSent'
             /\ photo' \in [Uploads -> [tab : Tabs, here : BOOLEAN] \cup {None}]
  <2> DEFINE s == Mount(tab[t], p)
  <2>1. TabTrue(s) /\ s.token = tab[t].token /\ s.user = tab[t].user BY <1>0, MountTrue
  <2>2. tab' = [tab EXCEPT ![t] = s] /\ photo' = OrphanPhotos(t) BY <1>5 DEF Goes
  <2> HIDE DEF s
  <2>3. /\ TabsKept /\ tab'[t] = s
        /\ \A q \in Tabs : q # t => tab'[q] = tab[q]
    BY <2>1, <2>2, TabMoves
  <2> QED BY <1>1, <1>5, <2>1, <2>2, <2>3, NobodyMoves, PhotosKept
<1>5a. ASSUME NEW s, TabTrue(s), s.token = tab[t].token, s.user = tab[t].user,
              Stays(t, s), UNCHANGED <<local, apart>>
       PROVE  TabsKept /\ GoodTokenIsSent'
              /\ photo' \in [Uploads -> [tab : Tabs, here : BOOLEAN] \cup {None}]
  <2>1. tab' = [tab EXCEPT ![t] = s] /\ photo' = photo BY <1>5a DEF Stays
  <2>2. /\ TabsKept /\ tab'[t] = s
        /\ \A q \in Tabs : q # t => tab'[q] = tab[q]
    BY <1>5a, <2>1, TabMoves
  <2> QED BY <1>0, <1>1, <1>5a, <2>1, <2>2, NobodyMoves
<1>6. ASSUME Stays(t, [tab[t] EXCEPT !.busy = TRUE]), UNCHANGED <<local, apart>>
      PROVE  TabsKept /\ GoodTokenIsSent'
             /\ photo' \in [Uploads -> [tab : Tabs, here : BOOLEAN] \cup {None}]
  <2>1. PICK s : s = [tab[t] EXCEPT !.busy = TRUE] OBVIOUS
  <2>2. TabTrue(s) /\ s.token = tab[t].token /\ s.user = tab[t].user BY <1>0, <2>1, BusyTrue
  <2> QED BY <1>6, <1>5a, <2>1, <2>2
<1>7. ASSUME NEW p \in {"login", "form", "guarded"}, Open(t, p) PROVE Goal
  <2>1. CASE Goes(t, Mount(tab[t], p)) /\ wire' = Orphans(wire, t)
    BY <1>2, <1>3, <1>5, <1>7, <2>1 DEF Open, Pages
  <2>2. CASE Stays(t, [tab[t] EXCEPT !.page = p]) /\ UNCHANGED wire
    <3>1. PICK s : s = [tab[t] EXCEPT !.page = p] OBVIOUS
    <3>2. TabTrue(s) /\ s.token = tab[t].token /\ s.user = tab[t].user
      BY <1>0, <3>1, PageTrue DEF Pages
    <3> QED BY <1>0, <1>3, <1>7, <1>5a, <2>2, <3>1, <3>2 DEF Open
  <2> QED BY <1>7, <2>1, <2>2 DEF Open
<1>8. ASSUME NEW u \in scene.users, SubmitLogin(t, u) PROVE Goal
  <2>1. u \in Users BY <1>8, BrowserScenes DEF BrowserInv
  <2> QED BY <1>0, <1>4, <1>6, <1>8, <2>1 DEF SubmitLogin, Kinds
<1>9. CASE OpenNote(t)
  BY <1>2, <1>4, <1>5, <1>9 DEF OpenNote, Pages, Kinds
<1>10. CASE ToggleLike(t)
  <2>1. (IF tab[t].liked THEN "unlike" ELSE "like") \in {"like", "unlike"} OBVIOUS
  <2>2. CASE Goes(t, Mount(tab[t], "login")) /\ wire' = Orphans(wire, t) /\ UNCHANGED sent
    BY <1>2, <1>3, <1>5, <1>10, <2>2 DEF ToggleLike, Pages
  <2>3. CASE /\ Stays(t, [tab[t] EXCEPT !.busy = TRUE])
             /\ Send(wire, Call(t, IF tab[t].liked THEN "unlike" ELSE "like", None))
    <3> PICK kind \in {"like", "unlike"} : Send(wire, Call(t, kind, None)) BY <2>1, <2>3
    <3> QED BY <1>0, <1>4, <1>6, <1>10, <2>3 DEF ToggleLike, Kinds
  <2> QED BY <1>10, <2>2, <2>3 DEF ToggleLike
<1>11. CASE Submit(t)
  BY <1>0, <1>4, <1>6, <1>11 DEF Submit, Kinds
<1>12. CASE Logout(t)
  <2>1. TabTrue(Closed) /\ Closed.token = None /\ Closed.user = None
    BY ClosedTab DEF TabTrue, Settled, Pictured
  <2>2. /\ tab' = [tab EXCEPT ![t] = Closed] /\ photo' = OrphanPhotos(t) /\ local' = None
        /\ apart' = (IF None = local THEN apart ELSE Tabs) \ {t}
    BY <1>12 DEF Logout, Goes, Store
  <2>3. /\ TabsKept /\ tab'[t] = Closed
        /\ \A q \in Tabs : q # t => tab'[q] = tab[q]
    BY <2>1, <2>2, TabMoves
  <2>4. GoodTokenIsSent' BY <1>1, <2>1, <2>2, <2>3, TokenTaken
  <2> QED BY <1>2, <1>3, <1>12, <2>2, <2>3, <2>4, PhotosKept DEF Logout
<1>13. CASE Reload(t)
  <2> DEFINE s == [Closed EXCEPT !.token = local]
  <2>0. Settled(local) /\ local \in Token \cup {None} BY DEF BrowserInv, Settled
  <2>1. TabTrue(s) /\ s.token = local /\ s.user = None
    <3>1. s \in TabRow /\ s.token = local /\ s.user = None /\ s.image = None
      BY <2>0, ClosedTab DEF TabRow
    <3> QED BY <2>0, <3>1 DEF TabTrue, Pictured
  <2>2. /\ tab' = [tab EXCEPT ![t] = s] /\ local' = local /\ apart' = apart \ {t}
        /\ sent' = sent
    BY <1>13 DEF Reload
  <2> HIDE DEF s
  <2>3. /\ TabsKept /\ tab'[t] = s
        /\ \A q \in Tabs : q # t => tab'[q] = tab[q]
    BY <2>1, <2>2, TabMoves
  <2>4. GoodTokenIsSent' BY <1>1, <2>1, <2>2, <2>3, TokenTaken
  <2>5. Rest(wire')
    <3> DEFINE kept == {c \in wire : c.tab # t}
               quiet == {d \in wire : d.tab = t /\ d.status = 0}
    <3>1. kept \subseteq wire /\ quiet \subseteq wire /\ kept \cap quiet = {} OBVIOUS
    <3>2. wire' = kept \cup {Unheard(c) : c \in quiet} BY <1>13 DEF Reload
    <3> HIDE DEF kept, quiet
    <3> QED BY <3>1, <3>2, RestUnheard
  <2>6. photo' \in [Uploads -> [tab : Tabs, here : BOOLEAN] \cup {None}]
    BY <1>0, <1>13 DEF Reload
  <2> QED BY <1>3, <2>2, <2>3, <2>4, <2>5, <2>6
<1> QED BY <1>7, <1>8, <1>9, <1>10, <1>11, <1>12, <1>13 DEF UserActs

LEMMA UploadKeeps ==
  ASSUME BrowserInv, [Next]_vars, NEW u \in Uploads,
         Uploaded(u) \/ \E t \in Tabs : DoUpload(t, u)
  PROVE  /\ WireKept /\ TabsKept /\ GoodTokenIsSent'
         /\ photo' \in [Uploads -> [tab : Tabs, here : BOOLEAN] \cup {None}]
<1>0. /\ photo \in [Uploads -> [tab : Tabs, here : BOOLEAN] \cup {None}]
      /\ tab \in [Tabs -> TabRow] /\ \A t \in Tabs : TabTrue(tab[t])
      /\ UploadInv
  BY DEF BrowserInv
<1>1. /\ wire' = wire /\ sent' = sent /\ local' = local /\ apart' = apart /\ accepted' = accepted
  BY DEF Uploaded, DoUpload, serverVars
<1>2. GoodMoves BY <1>1, GoodKept
<1>3. WireKept BY <1>1, <1>2, RestAll, RestMoves DEF WireKept
<1>4. photo' \in [Uploads -> [tab : Tabs, here : BOOLEAN] \cup {None}]
  <2>1. ASSUME NEW w \in [tab : Tabs, here : BOOLEAN] \cup {None}, photo' = [photo EXCEPT ![u] = w]
        PROVE  photo' \in [Uploads -> [tab : Tabs, here : BOOLEAN] \cup {None}]
    BY <1>0, <2>1
  <2>2. CASE Uploaded(u) BY <2>1, <2>2 DEF Uploaded
  <2>3. ASSUME NEW t \in Tabs, DoUpload(t, u)
        PROVE  photo' \in [Uploads -> [tab : Tabs, here : BOOLEAN] \cup {None}]
    BY <2>1, <2>3 DEF DoUpload
  <2> QED BY <2>2, <2>3
<1>5. ASSUME NEW t \in Tabs, NEW b \in BOOLEAN, NEW i \in Uploads \cup {None}, Pictured(i),
             tab' = [tab EXCEPT ![t] = [[tab[t] EXCEPT !.uploading = b] EXCEPT !.image = i]]
      PROVE  TabsKept /\ \A q \in Tabs : tab'[q].token = tab[q].token /\ tab'[q].user = tab[q].user
  <2>0. PICK r : r = [tab[t] EXCEPT !.uploading = b] OBVIOUS
  <2>1. PICK s : s = [r EXCEPT !.image = i] OBVIOUS
  <2>4. r \in TabRow /\ r.token = tab[t].token /\ r.user = tab[t].user
    BY <1>0, <2>0 DEF TabRow
  <2>2. s \in TabRow /\ s.token = tab[t].token /\ s.user = tab[t].user /\ s.image = i
    BY <2>1, <2>4 DEF TabRow
  <2>3. TabTrue(s) BY <1>0, <1>5, <2>2 DEF TabTrue
  <2>5. tab' = [tab EXCEPT ![t] = s] BY <1>5, <2>0, <2>1, Zenon
  <2>6. TabsKept /\ tab'[t] = s /\ \A q \in Tabs : q # t => tab'[q] = tab[q]
    BY <2>3, <2>5, TabMoves
  <2> QED BY <2>2, <2>6
<1>6. TabsKept /\ \A q \in Tabs : tab'[q].token = tab[q].token /\ tab'[q].user = tab[q].user
  <2>1. ASSUME NEW t \in Tabs, DoUpload(t, u)
        PROVE  TabsKept /\ \A q \in Tabs : tab'[q].token = tab[q].token /\ tab'[q].user = tab[q].user
    <3>1. Pictured(tab[t].image) /\ tab[t].image \in Uploads \cup {None}
      BY <1>0 DEF TabTrue, Pictured
    <3>2. tab' = [tab EXCEPT ![t] = [[tab[t] EXCEPT !.uploading = TRUE] EXCEPT !.image = tab[t].image]]
      <4>1. tab[t] \in TabRow BY <1>0
      <4>2. [tab[t] EXCEPT !.uploading = TRUE]
              = [[tab[t] EXCEPT !.uploading = TRUE] EXCEPT !.image = tab[t].image]
        BY <4>1 DEF TabRow
      <4> QED BY <2>1, <4>2 DEF DoUpload
    <3> QED BY <1>5, <3>1, <3>2
  <2>2. CASE Uploaded(u)
    <3>1. CASE ~photo[u].here
      BY <1>0, <2>2, <3>1 DEF Uploaded, TabsKept
    <3>2. CASE photo[u].here
      <4>1. PICK t \in Tabs : t = photo[u].tab BY <1>0, <2>2 DEF Uploaded
      <4>2. PICK i : i = IF up[u].pc = "saved" THEN u ELSE tab[t].image OBVIOUS
      <4>3. Pictured(i) /\ i \in Uploads \cup {None} BY <1>0, <4>2 DEF TabTrue, Pictured
      <4>4. tab' = [tab EXCEPT ![t] = [[tab[t] EXCEPT !.uploading = FALSE] EXCEPT !.image = i]]
        BY <1>0, <2>2, <3>2, <4>1, <4>2 DEF Uploaded, TabRow
      <4> QED BY <1>5, <4>3, <4>4
    <3> QED BY <3>1, <3>2
  <2> QED BY <2>1, <2>2
<1> QED BY <1>1, <1>2, <1>3, <1>4, <1>6, NobodyMoves

(***************************************************************************)
(* The server.                                                             *)
(***************************************************************************)
LEMMA ServedMoves ==
  ASSUME BrowserInv, [Next]_vars, GoodMoves, sent' = sent,
         NEW c \in wire, c.status = 0,
         NEW status \in Nat \ {0}, NEW got \in Token \cup Nat \cup {None},
         Served(c, status, got),
         c.kind = "login" /\ status \in {200, 201} => got \in Token /\ got.n = c.n,
         c.kind = "note" /\ status \in {200, 201} => got \in Nat,
         c.kind # "login" /\ status = 401 => c.token \notin accepted'
  PROVE  WireKept
<1>0. /\ sent \in Nat /\ UploadInv /\ CallTrue(c) /\ c \in CallRow /\ c.n \in Nat /\ c.n <= sent
      /\ OneCallEach(wire)
  BY DEF BrowserInv, CallTrue, CallRow
<1>1. PICK new : new = [c EXCEPT !.status = status, !.got = got] OBVIOUS
<1>2. /\ new \in CallRow /\ new.n = c.n /\ new.kind = c.kind /\ new.token = c.token
      /\ new.arg = c.arg /\ new.status = status /\ new.got = got
  BY <1>0, <1>1 DEF CallRow
<1>3. wire' \subseteq (wire \ {c}) \cup {new} BY <1>1 DEF Served
<1>4. WireMoves BY <1>0, <1>2, <1>3 DEF WireMoves
<1>5. OneCallEach(wire') BY <1>0, <1>2, <1>3 DEF OneCallEach
<1>6. ASSUME NEW d \in wire \ {c} PROVE CallTrue(d)'
  <2>1. CallTrue(d) /\ Same(d, d) BY DEF BrowserInv, CallTrue, Same
  <2> QED BY <1>4, <2>1, CallStays
<1>7. CallTrue(new)'
  <2>1. Settled(new.token)' BY <1>0, <1>2, <1>4, SettledStays DEF CallTrue
  <2>2. c.kind = "publish" => Pictured(new.arg)' BY <1>0, <1>2, PicturedStays DEF CallTrue
  <2>3. c.kind = "login" /\ status \in {200, 201} => got \in Token /\ Settled(got)'
    <3> SUFFICES ASSUME c.kind = "login", status \in {200, 201}
                 PROVE  got \in Token /\ Settled(got)'
      OBVIOUS
    <3>1. got \in Token /\ got.n = c.n OBVIOUS
    <3>2. \A d \in wire' : d.status = 0 => d.n # c.n
      BY <1>0, <1>2, <1>3 DEF OneCallEach
    <3> QED BY <1>0, <3>1, <3>2 DEF Settled
  <2>4. Worked(new)' <=> status \in {200, 201} BY <1>2 DEF Worked
  <2>5. c.kind = "login" => c.arg \in Users BY <1>0 DEF CallTrue
  <2> QED BY <1>0, <1>2, <2>1, <2>2, <2>3, <2>4, <2>5 DEF CallTrue
<1> QED BY <1>3, <1>4, <1>5, <1>6, <1>7 DEF WireKept

LEMMA ServeKeeps ==
  ASSUME BrowserInv, [Next]_vars, Serve
  PROVE  /\ WireKept /\ TabsKept /\ GoodTokenIsSent' /\ IsFiniteSet(likes')
         /\ \A u \in published' : Pictured(u)'
<1> DEFINE Goal == WireKept /\ IsFiniteSet(likes') /\ \A u \in published' : Pictured(u)'
<1>0. /\ sent \in Nat /\ accepted \subseteq Token /\ IsFiniteSet(likes) /\ UploadInv
      /\ \A u \in published : Pictured(u)
      /\ UNCHANGED <<local, tab, sent, photo, apart>>
  BY DEF BrowserInv, Serve
<1>1. PICK c \in wire :
        /\ c.status = 0
        /\ \/ ServeLogin(c) \/ ServeNote(c) \/ ServeLike(c) \/ ServePublish(c)
           \/ ServeRefused(c) \/ ServeFails(c)
  BY DEF Serve
<1>2. CallTrue(c) /\ c \in CallRow /\ c.n \in Nat /\ c.n <= sent BY DEF BrowserInv, CallTrue, CallRow
<1>3. published' = published => \A u \in published' : Pictured(u)'
  BY <1>0, PicturedStays
<1>4. accepted' = accepted => GoodMoves BY GoodKept
<1>5. ASSUME ServeLogin(c) PROVE Goal /\ GoodMoves
  <2>0. c.arg \in Users /\ c.kind = "login" BY <1>2, <1>5 DEF CallTrue, ServeLogin
  <2>1. CASE Served(c, 401, None) /\ UNCHANGED accepted
    <3>1. WireKept BY <1>0, <1>1, <1>4, <2>0, <2>1, ServedMoves
    <3> QED BY <1>0, <1>3, <1>4, <1>5, <2>1, <3>1 DEF ServeLogin
  <2>2. CASE LET k == [n |-> c.n, of |-> c.arg] IN
               Served(c, 200, k) /\ accepted' = accepted \cup {k}
    <3>1. PICK k : k = [n |-> c.n, of |-> c.arg] OBVIOUS
    <3>2. k \in Token /\ k.n = c.n BY <1>2, <2>0, <3>1 DEF Token
    <3>3. Served(c, 200, k) /\ accepted' = accepted \cup {k} BY <2>2, <3>1
    <3>4. GoodMoves BY <1>0, <1>1, <3>2, <3>3 DEF GoodMoves
    <3>5. WireKept BY <1>0, <1>1, <2>0, <3>2, <3>3, <3>4, ServedMoves
    <3> QED BY <1>0, <1>3, <1>5, <3>4, <3>5 DEF ServeLogin
  <2> QED BY <1>5, <2>1, <2>2 DEF ServeLogin
<1>6. ASSUME ServeNote(c) PROVE Goal /\ GoodMoves
  <2>1. Cardinality(likes) \in Nat BY <1>0, FS_CardinalityType
  <2>2. GoodMoves BY <1>4, <1>6 DEF ServeNote, serverVars
  <2>3. PICK n \in Nat : Served(c, 200, n) BY <1>6, <2>1 DEF ServeNote
  <2>4. WireKept BY <1>0, <1>1, <1>6, <2>2, <2>3, ServedMoves DEF ServeNote
  <2> QED BY <1>0, <1>3, <1>6, <2>2, <2>4 DEF ServeNote, serverVars
<1>7. ASSUME ServeLike(c) PROVE Goal /\ GoodMoves
  <2>1. GoodMoves BY <1>4, <1>7 DEF ServeLike
  <2>2. PICK status \in {201, 409, 200, 404, 500} : Served(c, status, None)
    BY <1>7 DEF ServeLike, Liking, Told
  <2>3. c.kind \in {"like", "unlike"} BY <1>7 DEF ServeLike
  <2>4. WireKept BY <1>0, <1>1, <2>1, <2>2, <2>3, ServedMoves
  <2>5. \/ likes' = likes \/ likes' = likes \cup {c.token.of} \/ likes' = likes \ {c.token.of}
    BY <1>7 DEF ServeLike, Liking
  <2>6. IsFiniteSet(likes') BY <1>0, <2>5, FS_AddElement, FS_RemoveElement
  <2> QED BY <1>3, <1>7, <2>1, <2>4, <2>6 DEF ServeLike
<1>8. ASSUME ServePublish(c) PROVE Goal /\ GoodMoves
  <2>1. GoodMoves BY <1>4, <1>8 DEF ServePublish
  <2>2. Pictured(c.arg) BY <1>2, <1>8 DEF CallTrue, ServePublish
  <2>2a. PICK status \in {201, 500} : Served(c, status, None) BY <1>8 DEF ServePublish, Told
  <2>3. WireKept BY <1>0, <1>1, <1>8, <2>1, <2>2a, ServedMoves DEF ServePublish
  <2>4. \A u \in published' : Pictured(u) BY <1>0, <1>8, <2>2 DEF ServePublish
  <2> QED BY <1>0, <1>8, <2>1, <2>3, <2>4, PicturedStays DEF ServePublish
<1>9. ASSUME ServeRefused(c) PROVE Goal /\ GoodMoves
  <2>1. GoodMoves BY <1>4, <1>9 DEF ServeRefused, serverVars
  <2>2. c.token \notin accepted' BY <1>9 DEF ServeRefused, serverVars
  <2> QED BY <1>0, <1>1, <1>3, <1>9, <2>1, <2>2, ServedMoves DEF ServeRefused, serverVars
<1>9a. ASSUME ServeFails(c) PROVE Goal /\ GoodMoves
  <2>1. GoodMoves BY <1>4, <1>9a DEF ServeFails, serverVars
  <2>2. WireKept BY <1>0, <1>1, <1>9a, <2>1, ServedMoves DEF ServeFails
  <2> QED BY <1>0, <1>3, <1>9a, <2>1, <2>2 DEF ServeFails, serverVars
<1>10. Goal /\ GoodMoves BY <1>1, <1>5, <1>6, <1>7, <1>8, <1>9, <1>9a
<1>11. TabsKept BY <1>0 DEF TabsKept, BrowserInv
<1>12. GoodTokenIsSent' BY <1>0, <1>10, NobodyMoves
<1> QED BY <1>10, <1>11, <1>12

(***************************************************************************)
(* The answers.                                                            *)
(***************************************************************************)
LEMMA ComponentTrue ==
  ASSUME BrowserInv, NEW c, CallTrue(c), NEW s, TabTrue(s)
  PROVE  /\ TabTrue(Component(s, c))
         /\ Component(s, c).token = s.token /\ Component(s, c).user = s.user
<1> DEFINE Good(z) == TabTrue(z) /\ z.token = s.token /\ z.user = s.user
<1>1. PICK idle : idle = [s EXCEPT !.busy = FALSE] OBVIOUS
<1>2. Good(s) /\ Good(idle) BY <1>1, BusyTrue
<1>3. ASSUME NEW z, Good(z), NEW k \in Nat
      PROVE  /\ Good([z EXCEPT !.loaded = TRUE, !.count = k])
             /\ \A b \in BOOLEAN : Good([z EXCEPT !.liked = b, !.count = k])
  <2>0. z \in TabRow BY <1>3 DEF TabTrue
  <2>1. PICK y : y = [z EXCEPT !.loaded = TRUE, !.count = k] OBVIOUS
  <2>2. y \in TabRow /\ y.token = z.token /\ y.user = z.user /\ y.image = z.image
    BY <2>0, <2>1 DEF TabRow
  <2>3. ASSUME NEW b \in BOOLEAN PROVE Good([z EXCEPT !.liked = b, !.count = k])
    <3>1. PICK x : x = [z EXCEPT !.liked = b, !.count = k] OBVIOUS
    <3>2. x \in TabRow /\ x.token = z.token /\ x.user = z.user /\ x.image = z.image
      BY <2>0, <3>1 DEF TabRow
    <3> QED BY <1>3, <3>1, <3>2 DEF TabTrue
  <2> QED BY <1>3, <2>1, <2>2, <2>3 DEF TabTrue
<1>4. idle.count \in Nat /\ idle.count + 1 \in Nat
      /\ (IF idle.count = 0 THEN 0 ELSE idle.count - 1) \in Nat
  BY <1>2 DEF TabTrue, TabRow
<1>5. c.kind = "note" /\ Worked(c) => c.got \in Nat BY DEF CallTrue
<1>6. \/ Component(s, c) \in {s, idle}
      \/ c.kind = "note" /\ Worked(c) /\ Component(s, c) = [s EXCEPT !.loaded = TRUE, !.count = c.got]
      \/ Component(s, c) = [idle EXCEPT !.liked = TRUE, !.count = idle.count + 1]
      \/ Component(s, c)
           = [idle EXCEPT !.liked = FALSE, !.count = IF idle.count = 0 THEN 0 ELSE idle.count - 1]
  BY <1>1 DEF Component
<1> HIDE DEF Good
<1>7. Good(Component(s, c))
  <2>1. CASE Component(s, c) \in {s, idle} BY <1>2, <2>1
  <2>2. CASE c.kind = "note" /\ Worked(c) /\ Component(s, c) = [s EXCEPT !.loaded = TRUE, !.count = c.got]
    <3>1. Good([s EXCEPT !.loaded = TRUE, !.count = c.got]) BY <1>2, <1>3, <1>5, <2>2
    <3> QED BY <2>2, <3>1
  <2>3. CASE Component(s, c) = [idle EXCEPT !.liked = TRUE, !.count = idle.count + 1]
    <3>1. Good([idle EXCEPT !.liked = TRUE, !.count = idle.count + 1]) BY <1>2, <1>3, <1>4
    <3> QED BY <2>3, <3>1
  <2>4. CASE Component(s, c)
               = [idle EXCEPT !.liked = FALSE, !.count = IF idle.count = 0 THEN 0 ELSE idle.count - 1]
    <3>1. PICK k \in Nat : k = IF idle.count = 0 THEN 0 ELSE idle.count - 1 BY <1>4
    <3>2. Good([idle EXCEPT !.liked = FALSE, !.count = k]) BY <1>2, <1>3
    <3> QED BY <2>4, <3>1, <3>2
  <2> QED BY <1>6, <2>1, <2>2, <2>3, <2>4
<1> QED BY <1>7 DEF Good

LEMMA HearKeeps ==
  ASSUME BrowserInv, [Next]_vars, NEW c, CallTrue(c), c.tab \in Tabs,
         NEW others, Rest(others), Hear(c, others)
  PROVE  /\ WireKept /\ TabsKept /\ GoodTokenIsSent'
         /\ photo' \in [Uploads -> [tab : Tabs, here : BOOLEAN] \cup {None}]
         /\ Settled(local)'
<1> DEFINE Typed == photo' \in [Uploads -> [tab : Tabs, here : BOOLEAN] \cup {None}]
<1>1. PICK t \in Tabs : t = c.tab OBVIOUS
<1>2. PICK s : s = tab[t] OBVIOUS
<1>3. /\ TabTrue(s) /\ s \in TabRow /\ s.token \in Token \cup {None}
      /\ s.user \in Users \cup {None} /\ Settled(s.token) /\ Settled(local) /\ sent \in Nat
      /\ photo \in [Uploads -> [tab : Tabs, here : BOOLEAN] \cup {None}]
  BY <1>2 DEF BrowserInv, TabTrue, TabRow
<1>4. sent' = sent /\ accepted' = accepted BY DEF Hear, serverVars
<1>5. GoodMoves BY <1>4, GoodKept
<1>6. Rest(Orphans(others, t)) BY RestOrphans
<1>7. wire' = others \/ wire' = Orphans(others, t) BY <1>1 DEF Hear
<1>8. WireKept BY <1>4, <1>5, <1>6, <1>7, RestMoves DEF WireKept
<1>9. ASSUME c.kind = "login", Worked(c)
      PROVE  TabsKept /\ GoodTokenIsSent' /\ Typed /\ Settled(local)'
  <2>1. PICK p \in Pages : p = IF s.page = "guarded" THEN "form" ELSE "home" BY DEF Pages
  <2>2. PICK k : k = c.got OBVIOUS
  <2>3. PICK h : h = [token |-> k, user |-> k.of] OBVIOUS
  <2>4. PICK m : m = Mount(h, p) OBVIOUS
  <2>5. k \in Token /\ Settled(k) /\ k.of \in Users BY <1>9, <2>2 DEF CallTrue, Token
  <2>6. TabTrue(m) /\ m.token = k /\ m.user = k.of BY <2>3, <2>4, <2>5, MountTrue
  <2>7. Goes(t, m) /\ Store(k, t)
    BY <1>1, <1>2, <1>9, <2>1, <2>2, <2>3, <2>4 DEF Hear
  <2>8. /\ TabsKept /\ tab'[t] = m
        /\ \A q \in Tabs : q # t => tab'[q] = tab[q]
    BY <2>6, <2>7, TabMoves DEF Goes
  <2>9. GoodTokenIsSent' BY <1>5, <2>6, <2>7, <2>8, TokenTaken DEF Store
  <2>10. Settled(local)' BY <1>3, <1>8, <2>5, <2>7, SettledStays DEF Store, WireKept
  <2> QED BY <2>7, <2>8, <2>9, <2>10, PhotosKept DEF Goes
<1>10. ASSUME ~(c.kind = "login" /\ Worked(c))
       PROVE  /\ local' = IF Clears(c) THEN None ELSE local
              /\ apart' = IF Clears(c) /\ Unearned(c) THEN Tabs ELSE apart
  BY <1>10, Zenon DEF Hear
<1>11. ASSUME ~(c.kind = "login" /\ Worked(c))
       PROVE  /\ TabsKept /\ Typed
              /\ \A q \in Tabs : tab'[q].token = tab[q].token /\ tab'[q].user = tab[q].user
  <2>1. CASE c.kind = "publish" /\ Worked(c)
    <3>1. PICK m : m = Mount(s, "published") OBVIOUS
    <3>2. TabTrue(m) /\ m.token = s.token /\ m.user = s.user BY <1>3, <3>1, MountTrue DEF Pages
    <3>3. Goes(t, m) BY <1>1, <1>2, <1>11, <2>1, <3>1 DEF Hear
    <3>4. /\ TabsKept /\ tab'[t] = m
          /\ \A q \in Tabs : q # t => tab'[q] = tab[q]
      BY <3>2, <3>3, TabMoves DEF Goes
    <3> QED BY <1>2, <3>2, <3>3, <3>4, PhotosKept DEF Goes
  <2>2. CASE ~(c.kind = "publish" /\ Worked(c))
    <3>1. PICK m : m = IF c.here THEN Component(s, c) ELSE s OBVIOUS
    <3>2. TabTrue(m) /\ m.token = s.token /\ m.user = s.user BY <1>3, <3>1, ComponentTrue
    <3>3. tab' = [tab EXCEPT ![t] = m] /\ photo' = photo
      BY <1>1, <1>2, <1>11, <2>2, <3>1 DEF Hear
    <3>4. /\ TabsKept /\ tab'[t] = m
          /\ \A q \in Tabs : q # t => tab'[q] = tab[q]
      BY <3>2, <3>3, TabMoves
    <3> QED BY <1>2, <1>3, <3>2, <3>3, <3>4
  <2> QED BY <2>1, <2>2
<1>12. ASSUME ~(c.kind = "login" /\ Worked(c)) PROVE GoodTokenIsSent'
  <2>1. CASE ~Clears(c) BY <1>5, <1>10, <1>11, <1>12, <2>1, NobodyMoves
  <2>2. CASE Clears(c) /\ Unearned(c) BY <1>10, <1>12, <2>2 DEF GoodTokenIsSent
  \* The 401 is earned: the token it throws away is not good.
  <2>3. CASE Clears(c) /\ ~Unearned(c)
    <3>1. local' = None /\ apart' = apart BY <1>10, <1>12, <2>3
    <3>2. c.token = local /\ c.token \notin accepted BY <2>3 DEF Clears, Unearned, CallTrue
    <3>3. ASSUME NEW q \in Tabs, q \notin apart, tab'[q].token \in accepted' \cup {None}
          PROVE  tab'[q].token = None
      <4>1. tab[q].token \in accepted \cup {None} BY <1>4, <1>11, <1>12, <3>3
      <4>2. tab[q].token \in accepted => local = tab[q].token
        BY <3>3 DEF BrowserInv, GoodTokenIsSent
      <4> QED BY <1>11, <1>12, <3>2, <4>1, <4>2
    <3> QED BY <3>1, <3>3 DEF GoodTokenIsSent
  <2> QED BY <2>1, <2>2, <2>3
<1>13. ASSUME ~(c.kind = "login" /\ Worked(c)) PROVE Settled(local)'
  <2>1. local' \in {local, None} BY <1>10, <1>13
  <2>2. Settled(None)' BY DEF Settled
  <2> QED BY <1>3, <1>8, <2>1, <2>2, SettledStays DEF WireKept
<1> QED BY <1>8, <1>9, <1>11, <1>12, <1>13

LEMMA AnswerKeeps ==
  ASSUME BrowserInv, [Next]_vars, NEW c \in wire, Answered(c) \/ Timeout(c)
  PROVE  /\ WireKept /\ TabsKept /\ GoodTokenIsSent'
         /\ photo' \in [Uploads -> [tab : Tabs, here : BOOLEAN] \cup {None}]
         /\ Settled(local)'
<1>1. CallTrue(c) /\ c \in CallRow BY DEF BrowserInv, CallTrue
<1>2. c.tab \in Tabs BY <1>1 DEF CallRow, Answered, Timeout
<1>3. CASE Answered(c)
  <2>1. Rest(wire \ {c}) BY DEF BrowserInv, CallTrue, Rest, Same, OneCallEach
  <2> QED BY <1>1, <1>2, <1>3, <2>1, HearKeeps DEF Answered
<1>4. CASE Timeout(c)
  <2>1. PICK d : d = [c EXCEPT !.status = TimedOut] OBVIOUS
  <2>2. CallTrue(d) /\ d.tab \in Tabs
    <3>1. /\ d \in CallRow /\ d.n = c.n /\ d.tab = c.tab /\ d.kind = c.kind /\ d.token = c.token
          /\ d.arg = c.arg /\ d.status = 408
      BY <1>1, <2>1 DEF CallRow, TimedOut
    <3>2. ~Worked(d) BY <3>1 DEF Worked
    <3> QED BY <1>1, <1>2, <3>1, <3>2 DEF CallTrue
  <2>3. PICK quiet : quiet = IF c.status = 0 THEN {c} ELSE {} OBVIOUS
  <2>4. PICK others : others = (wire \ {c}) \cup {Unheard(e) : e \in quiet} OBVIOUS
  <2>5. Rest(others)
    <3>1. PICK kept : kept = wire \ {c} OBVIOUS
    <3>2. kept \subseteq wire /\ quiet \subseteq wire /\ kept \cap quiet = {} BY <2>3, <3>1
    <3> QED BY <2>4, <3>1, <3>2, RestUnheard
  <2>6. Hear(d, others)
    <3>1. others = (wire \ {c}) \cup (IF c.status = 0 THEN {Unheard(c)} ELSE {}) BY <2>3, <2>4
    <3> QED BY <1>4, <2>1, <3>1 DEF Timeout
  <2> QED BY <2>2, <2>5, <2>6, HearKeeps
<1> QED BY <1>3, <1>4

-----------------------------------------------------------------------------
LEMMA BrowserNext ==
  ASSUME BrowserInv, [Next]_vars
  PROVE  BrowserInv'
<1> DEFINE Typed == photo' \in [Uploads -> [tab : Tabs, here : BOOLEAN] \cup {None}]
           Local == Settled(local)'
           Finite == IsFiniteSet(likes')
           Photos == \A u \in published' : Pictured(u)'
<1>0. /\ UploadInv /\ sent \in Nat /\ scene \in Scenes /\ IsFiniteSet(likes) /\ Settled(local)
      /\ photo \in [Uploads -> [tab : Tabs, here : BOOLEAN] \cup {None}]
      /\ \A u \in published : Pictured(u)
  BY DEF BrowserInv
<1>1. UploadInv' BY <1>0, UploadNext
<1>2. scene' = scene BY DEF Next, vars
<1>3. published' = published => Photos BY <1>0, PicturedStays
<1>4. WireKept /\ local' \in {local, None} => Local
  <2> SUFFICES ASSUME WireKept, local' \in {local, None} PROVE Local OBVIOUS
  <2>1. Settled(None)' BY DEF Settled
  <2> QED BY <1>0, <2>1, SettledStays DEF WireKept
<1>5. ASSUME NEW t \in Tabs, UserActs(t)
      PROVE  WireKept /\ TabsKept /\ GoodTokenIsSent' /\ Typed /\ Local /\ Finite /\ Photos
  <2>1. likes' = likes /\ published' = published BY <1>5 DEF UserActs, serverVars
  <2> QED BY <1>0, <1>3, <1>4, <1>5, <2>1, UserKeeps
<1>6. ASSUME NEW u \in Uploads, Uploaded(u) \/ \E t \in Tabs : DoUpload(t, u)
      PROVE  WireKept /\ TabsKept /\ GoodTokenIsSent' /\ Typed /\ Local /\ Finite /\ Photos
  <2>1. likes' = likes /\ published' = published /\ local' = local
    BY <1>6 DEF Uploaded, DoUpload, serverVars
  <2> QED BY <1>0, <1>3, <1>4, <1>6, <2>1, UploadKeeps
<1>7. ASSUME NEW c \in wire, Answered(c) \/ Timeout(c)
      PROVE  WireKept /\ TabsKept /\ GoodTokenIsSent' /\ Typed /\ Local /\ Finite /\ Photos
  <2>1. likes' = likes /\ published' = published
    BY <1>7, Zenon DEF Answered, Timeout, Hear, serverVars
  <2> QED BY <1>0, <1>3, <1>7, <2>1, AnswerKeeps
<1>8. ASSUME Serve
      PROVE  WireKept /\ TabsKept /\ GoodTokenIsSent' /\ Typed /\ Local /\ Finite /\ Photos
  <2>1. local' = local /\ photo' = photo BY <1>8 DEF Serve
  <2> QED BY <1>0, <1>4, <1>8, <2>1, ServeKeeps
\* A token expires, a photo is served, or nothing happens.
<1>9. ASSUME Expire \/ PhotoServed \/ UNCHANGED vars
      PROVE  WireKept /\ TabsKept /\ GoodTokenIsSent' /\ Typed /\ Local /\ Finite /\ Photos
  <2>1. /\ UNCHANGED <<local, tab, wire, sent, likes, published, photo, apart>>
        /\ accepted' \subseteq accepted
    BY <1>9 DEF Expire, PhotoServed, serverVars, vars
  <2>2. GoodMoves BY <2>1 DEF GoodMoves, BrowserInv
  <2>3. WireKept BY <2>1, <2>2, RestAll, RestMoves DEF WireKept
  <2>4. TabsKept BY <2>1 DEF TabsKept, BrowserInv
  <2>5. GoodTokenIsSent' BY <2>1, <2>2, NobodyMoves
  <2> QED BY <1>0, <1>3, <1>4, <2>1, <2>3, <2>4, <2>5
<1>10. WireKept /\ TabsKept /\ GoodTokenIsSent' /\ Typed /\ Local /\ Finite /\ Photos
  BY <1>5, <1>6, <1>7, <1>8, <1>9 DEF Next
<1>11. \A q \in Tabs : TabTrue(tab[q])'
  <2> SUFFICES ASSUME NEW q \in Tabs PROVE TabTrue(tab[q])' OBVIOUS
  <2>1. PICK s : s = tab'[q] OBVIOUS
  <2>2. TabTrue(s) BY <1>10, <2>1 DEF TabsKept
  <2>3. TabTrue(s)' BY <1>10, <2>2, TabStays DEF WireKept
  <2> QED BY <2>1, <2>3 DEF TabTrue
<1> QED
  BY <1>0, <1>1, <1>2, <1>10, <1>11 DEF BrowserInv, WireKept, TabsKept, WireMoves, GoodMoves

LEMMA BrowserAlways == Spec => []BrowserInv
BY BrowserStart, BrowserNext, PTL DEF Spec

\* Whatever tabs, users and calls there are, and in whatever order the calls
\* are served and answered: a good token in a tab's store is the one its calls
\* go out with (request.ts, useUserStore.ts), unless another tab or a 401 that
\* speaks of something else changed localStorage behind its back.
THEOREM GoodTokenIsSentAlways == Spec => []GoodTokenIsSent
<1>1. BrowserInv => GoodTokenIsSent BY DEF BrowserInv
<1> QED BY <1>1, BrowserAlways, PTL

\* However many photos are uploaded at once, and wherever the process dies:
\* a published photo has been copied to the last piece (file.go SaveUpload,
\* ImageUploader.vue), and is its author's unless a name was given out twice.
THEOREM PublishedPhotoIsWholeAlways == Spec => []PublishedPhotoIsWhole
<1>1. BrowserInv => PublishedPhotoIsWhole
  <2> SUFFICES ASSUME BrowserInv, NEW u \in published \ {None}
               PROVE  up[u].pc = "saved" /\ (files[up[u].name] = WholeOf(u) \/ SameName(u) # {})
    BY DEF PublishedPhotoIsWhole
  <2>1. u \in Uploads /\ up[u].pc = "saved" /\ CopyTrue(u)
    BY DEF BrowserInv, Pictured, UploadInv
  <2>2. Copied(u, Chunks) = WholeOf(u) BY UploadBounds DEF Copied, WholeOf
  <2> QED BY <2>1, <2>2 DEF CopyTrue
<1> QED BY <1>1, BrowserAlways, PTL
-----------------------------------------------------------------------------
(***************************************************************************)
(* The count beside the like button.  A page waits for one call at a time, *)
(* so the answer on its way is all that its count can lag behind the       *)
(* server, as long as nobody else changes the likes.                       *)
(***************************************************************************)
\* Those of the calls that the component on t's page waits for.
Awaited(calls, t) == {c \in calls : c.tab = t /\ c.here}

\* The note page waits for its note until it is loaded, and any page for what
\* its spinning button sent.
PageFits(s, calls) ==
  /\ \A c, d \in calls : c = d
  /\ \A c \in calls :
       \/ c.kind = "note" /\ s.page = "note" /\ ~s.loaded
       \/ /\ c.kind # "note" /\ s.busy
          /\ s.page = "note" => s.loaded

\* What the answer to a call will add to the count.
Adds(c) == IF ~Worked(c) THEN 0
           ELSE IF c.kind = "like" THEN 1 ELSE IF c.kind = "unlike" THEN 0 - 1 ELSE 0

\* The page counts the n likes there are, less what it will yet hear of.
CountFits(s, calls, n) ==
  /\ \A c \in calls : c.kind = "note" => Worked(c) /\ c.got = n
  /\ s.page = "note" /\ s.loaded =>
       /\ calls = {} => s.count = n
       /\ \A c \in calls : s.count + Adds(c) = n

TabFits(t) ==
  /\ PageFits(tab[t], Awaited(wire, t))
  /\ t \in alone => CountFits(tab[t], Awaited(wire, t), Cardinality(likes))

AloneInv ==
  /\ BrowserInv
  /\ alone \subseteq Tabs
  /\ \A c \in wire : c.here => c.tab \in Tabs
  /\ \A t \in Tabs : TabFits(t)

LEMMA AloneStart == Init => AloneInv
<1> SUFFICES ASSUME Init PROVE AloneInv OBVIOUS
<1>1. \A t \in Tabs : TabFits(t)
  BY DEF Init, Closed, TabFits, PageFits, CountFits, Awaited
<1> QED BY <1>1, BrowserStart DEF Init, AloneInv

\* Nothing that concerns t's page and its count happens.
LEMMA FitsStay ==
  ASSUME NEW t \in Tabs, TabFits(t),
         tab'[t].page = tab[t].page, tab'[t].loaded = tab[t].loaded,
         tab'[t].busy = tab[t].busy, tab'[t].count = tab[t].count,
         Awaited(wire', t) = Awaited(wire, t),
         t \in alone' => t \in alone /\ Cardinality(likes') = Cardinality(likes)
  PROVE  TabFits(t)'
<1>1. PICK A : A = Awaited(wire, t) /\ A = Awaited(wire', t) OBVIOUS
<1>2. PageFits(tab'[t], A) BY <1>1 DEF TabFits, PageFits
<1>3. t \in alone' => CountFits(tab'[t], A, Cardinality(likes'))
  BY <1>1 DEF TabFits, CountFits, Adds, Worked
<1> QED BY <1>1, <1>2, <1>3 DEF TabFits

\* A new page, which waits for nothing and has not loaded.
LEMMA FitsNew ==
  ASSUME NEW t \in Tabs, Awaited(wire', t) = {}, ~tab'[t].loaded
  PROVE  TabFits(t)'
<1>1. PageFits(tab'[t], {}) /\ CountFits(tab'[t], {}, Cardinality(likes'))
  BY DEF PageFits, CountFits
<1> QED BY <1>1 DEF TabFits

\* A page that is left waits for nothing, and no other page notices.
LEMMA AwaitedOrphans ==
  ASSUME NEW calls, Rest(calls), NEW t \in Tabs, NEW q \in Tabs
  PROVE  Awaited(Orphans(calls, t), q) = IF q = t THEN {} ELSE Awaited(calls, q)
<1>1. ASSUME NEW c \in calls
      PROVE  LET d == [c EXCEPT !.here = @ /\ c.tab # t] IN
               /\ d.tab = c.tab /\ (d.here <=> c.here /\ c.tab # t)
               /\ c.tab # t => d = c
  <2>1. c \in CallRow BY DEF Rest, Same
  <2> QED BY <2>1 DEF CallRow
<1>2. ASSUME q = t PROVE Awaited(Orphans(calls, t), q) = {}
  <2> SUFFICES ASSUME NEW d \in Awaited(Orphans(calls, t), q) PROVE FALSE OBVIOUS
  <2>1. PICK c \in calls : d = [c EXCEPT !.here = @ /\ c.tab # t] BY DEF Awaited, Orphans
  <2> QED BY <1>1, <1>2, <2>1 DEF Awaited
<1>3. ASSUME q # t PROVE Awaited(Orphans(calls, t), q) = Awaited(calls, q)
  <2>1. ASSUME NEW d \in Awaited(Orphans(calls, t), q) PROVE d \in Awaited(calls, q)
    <3>1. PICK c \in calls : d = [c EXCEPT !.here = @ /\ c.tab # t]
      BY <2>1 DEF Awaited, Orphans
    <3> QED BY <1>1, <1>3, <2>1, <3>1 DEF Awaited
  <2>2. ASSUME NEW c \in Awaited(calls, q) PROVE c \in Awaited(Orphans(calls, t), q)
    <3>1. c \in calls /\ c.tab = q /\ c.here BY <2>2 DEF Awaited
    <3>2. c = [c EXCEPT !.here = @ /\ c.tab # t] BY <1>1, <1>3, <3>1
    <3>3. c \in Orphans(calls, t) BY <3>1, <3>2 DEF Orphans
    <3> QED BY <3>1, <3>3 DEF Awaited
  <2> QED BY <2>1, <2>2
<1> QED BY <1>2, <1>3

LEMMA OrphansHere ==
  ASSUME NEW calls, Rest(calls), \A c \in calls : c.here => c.tab \in Tabs, NEW t,
         NEW d \in Orphans(calls, t), d.here
  PROVE  d.tab \in Tabs
<1>1. PICK c \in calls : d = [c EXCEPT !.here = @ /\ c.tab # t] BY DEF Orphans
<1>2. c \in CallRow BY DEF Rest, Same
<1> QED BY <1>1, <1>2 DEF CallRow

\* What a step keeps of it.
AloneKept ==
  /\ alone' \subseteq Tabs
  /\ \A c \in wire' : c.here => c.tab \in Tabs
  /\ \A t \in Tabs : TabFits(t)'

\* Tab t goes to another page that has not loaded.
LEMMA GoesKeeps ==
  ASSUME AloneInv, NEW t \in Tabs, NEW s, ~s.loaded, Goes(t, s), likes' = likes,
         NEW calls, Rest(calls), \A c \in calls : c.here => c.tab \in Tabs,
         \A q \in Tabs : q # t => Awaited(calls, q) = Awaited(wire, q),
         wire' = Orphans(calls, t)
  PROVE  AloneKept
<1>1. tab'[t] = s /\ \A q \in Tabs : q # t => tab'[q] = tab[q]
  BY DEF Goes, AloneInv, BrowserInv
<1>2. alone' = alone \ {t} BY DEF Goes
<1>3. TabFits(t)'
  <2>1. Awaited(wire', t) = {} BY AwaitedOrphans
  <2> QED BY <1>1, <2>1, FitsNew
<1>4. ASSUME NEW q \in Tabs, q # t PROVE TabFits(q)'
  <2>1. Awaited(wire', q) = Awaited(wire, q) BY <1>4, AwaitedOrphans
  <2>2. TabFits(q) BY DEF AloneInv
  <2> QED BY <1>1, <1>2, <1>4, <2>1, <2>2, FitsStay
<1>5. \A c \in wire' : c.here => c.tab \in Tabs BY OrphansHere
<1> QED BY <1>2, <1>3, <1>4, <1>5 DEF AloneKept, AloneInv

\* Tab t sends a call, and its button spins.
LEMMA SpinKeeps ==
  ASSUME AloneInv, NEW t \in Tabs, ~tab[t].busy, tab[t].page = "note" => tab[t].loaded,
         Stays(t, [tab[t] EXCEPT !.busy = TRUE]), likes' = likes,
         NEW kind, kind # "note", NEW arg, Send(wire, Call(t, kind, arg))
  PROVE  AloneKept
<1>1. tab[t] \in TabRow BY DEF AloneInv, BrowserInv
<1>2. PICK s : s = [tab[t] EXCEPT !.busy = TRUE] OBVIOUS
<1>3. s.busy /\ s.page = tab[t].page /\ s.loaded = tab[t].loaded /\ s.count = tab[t].count
      /\ s.count \in Nat
  BY <1>1, <1>2 DEF TabRow
<1>4. tab'[t] = s /\ \A q \in Tabs : q # t => tab'[q] = tab[q]
  BY <1>2 DEF Stays, AloneInv, BrowserInv
<1>5. alone' = alone BY DEF Stays
<1>6. PICK new : new = Call(t, kind, arg) OBVIOUS
<1>7. new.tab = t /\ new.here /\ new.kind = kind /\ new.status = 0 BY <1>6 DEF Call
<1>8. wire' = wire \cup {new} BY <1>6 DEF Send
<1>9. Awaited(wire, t) = {} BY DEF AloneInv, TabFits, PageFits
<1>10. TabFits(t)'
  <2>1. Awaited(wire', t) = {new} BY <1>7, <1>8, <1>9 DEF Awaited
  <2>2. PageFits(s, {new}) BY <1>3, <1>7 DEF PageFits
  <2>3. ~Worked(new) /\ Adds(new) = 0 BY <1>7 DEF Adds, Worked
  <2>4. ASSUME t \in alone PROVE CountFits(s, {new}, Cardinality(likes))
    <3>1. tab[t].page = "note" /\ tab[t].loaded => tab[t].count = Cardinality(likes)
      BY <1>9, <2>4 DEF AloneInv, TabFits, CountFits
    <3> QED BY <1>3, <1>7, <2>3, <3>1 DEF CountFits
  <2> QED BY <1>4, <1>5, <2>1, <2>2, <2>4 DEF TabFits
<1>11. ASSUME NEW q \in Tabs, q # t PROVE TabFits(q)'
  <2>1. Awaited(wire', q) = Awaited(wire, q) BY <1>7, <1>8, <1>11 DEF Awaited
  <2>2. TabFits(q) BY DEF AloneInv
  <2> QED BY <1>4, <1>5, <1>11, <2>1, <2>2, FitsStay
<1>12. \A c \in wire' : c.here => c.tab \in Tabs BY <1>7, <1>8 DEF AloneInv
<1> QED BY <1>5, <1>10, <1>11, <1>12 DEF AloneKept, AloneInv

LEMMA AloneUserKeeps ==
  ASSUME AloneInv, NEW t \in Tabs, UserActs(t)
  PROVE  AloneKept
<1>0. /\ likes' = likes /\ Rest(wire) /\ \A c \in wire : c.here => c.tab \in Tabs
  BY RestAll DEF AloneInv, UserActs, serverVars
\* It goes to another page.
<1>1. ASSUME NEW s, ~s.loaded, Goes(t, s), wire' = Orphans(wire, t) PROVE AloneKept
  BY <1>0, <1>1, GoesKeeps
<1>2. ASSUME NEW s, NEW p PROVE ~Mount(s, p).loaded BY DEF Mount, Closed
<1>3. ASSUME NEW p \in {"login", "form", "guarded"}, Open(t, p) PROVE AloneKept
  <2>1. CASE Goes(t, Mount(tab[t], p)) /\ wire' = Orphans(wire, t) BY <1>1, <1>2, <2>1
  \* The login page has no count, under either of its addresses.
  <2>2. CASE /\ {p, tab[t].page} = {"login", "guarded"}
             /\ Stays(t, [tab[t] EXCEPT !.page = p]) /\ UNCHANGED wire
    <3>1. PICK s : s = [tab[t] EXCEPT !.page = p] OBVIOUS
    <3>2. tab[t].page # "note" /\ p # "note" BY <2>2
    <3>3. /\ s.page = p /\ s.loaded = tab[t].loaded /\ s.busy = tab[t].busy
          /\ tab'[t] = s /\ \A q \in Tabs : q # t => tab'[q] = tab[q]
      BY <2>2, <3>1 DEF Stays, AloneInv, BrowserInv, TabRow
    <3>4. alone' = alone /\ wire' = wire BY <2>2 DEF Stays
    <3>5. PICK A : A = Awaited(wire, t) /\ A = Awaited(wire', t) BY <3>4
    <3>6. TabFits(t) BY DEF AloneInv
    <3>7. PageFits(s, A) BY <3>2, <3>3, <3>5, <3>6 DEF TabFits, PageFits
    <3>8. t \in alone => CountFits(s, A, Cardinality(likes))
      BY <3>2, <3>3, <3>5, <3>6 DEF TabFits, CountFits
    <3>9. TabFits(t)' BY <1>0, <3>3, <3>4, <3>5, <3>7, <3>8 DEF TabFits
    <3>10. ASSUME NEW q \in Tabs, q # t PROVE TabFits(q)'
      <4>1. TabFits(q) BY DEF AloneInv
      <4> QED BY <1>0, <3>3, <3>4, <3>10, <4>1, FitsStay
    <3> QED BY <1>0, <3>4, <3>9, <3>10 DEF AloneKept, AloneInv
  <2> QED BY <1>3, <2>1, <2>2 DEF Open
<1>4. CASE Logout(t) BY <1>1, <1>4 DEF Logout, Closed
\* It stays on its page.
<1>5. ASSUME NEW u \in scene.users, SubmitLogin(t, u) PROVE AloneKept
  BY <1>0, <1>5, SpinKeeps DEF SubmitLogin
<1>6. CASE Submit(t) BY <1>0, <1>6, SpinKeeps DEF Submit
<1>7. CASE ToggleLike(t)
  <2>1. CASE Goes(t, Mount(tab[t], "login")) /\ wire' = Orphans(wire, t)
    BY <1>1, <1>2, <2>1
  <2>2. CASE /\ Stays(t, [tab[t] EXCEPT !.busy = TRUE])
             /\ Send(wire, Call(t, IF tab[t].liked THEN "unlike" ELSE "like", None))
    <3> PICK kind \in {"like", "unlike"} : Send(wire, Call(t, kind, None)) BY <2>2
    <3> QED BY <1>0, <1>7, <2>2, SpinKeeps DEF ToggleLike
  <2> QED BY <1>7, <2>1, <2>2 DEF ToggleLike
\* The new note page waits for its note.
<1>8. CASE OpenNote(t)
  <2>1. PICK s : s = Mount(tab[t], "note") OBVIOUS
  <2>2. PICK new : new = Call(t, "note", None) OBVIOUS
  <2>3. s.page = "note" /\ ~s.loaded BY <2>1 DEF Mount, Closed
  <2>4. new.tab = t /\ new.here /\ new.kind = "note" BY <2>2 DEF Call
  <2>5. Goes(t, s) /\ wire' = Orphans(wire, t) \cup {new}
    BY <1>8, <2>1, <2>2 DEF OpenNote, Send
  <2>6. tab'[t] = s /\ \A q \in Tabs : q # t => tab'[q] = tab[q]
    BY <2>5 DEF Goes, AloneInv, BrowserInv
  <2>7. alone' = alone \ {t} BY <2>5 DEF Goes
  <2>8. TabFits(t)'
    <3>1. Awaited(Orphans(wire, t), t) = {} BY <1>0, AwaitedOrphans
    <3>2. Awaited(wire', t) = {new} BY <2>4, <2>5, <3>1 DEF Awaited
    <3>3. PageFits(s, {new}) BY <2>3, <2>4 DEF PageFits
    <3> QED BY <2>6, <2>7, <3>2, <3>3 DEF TabFits
  <2>9. ASSUME NEW q \in Tabs, q # t PROVE TabFits(q)'
    <3>1. Awaited(Orphans(wire, t), q) = Awaited(wire, q) BY <1>0, <2>9, AwaitedOrphans
    <3>2. Awaited(wire', q) = Awaited(wire, q) BY <2>4, <2>5, <2>9, <3>1 DEF Awaited
    <3>3. TabFits(q) BY DEF AloneInv
    <3> QED BY <1>0, <2>6, <2>7, <2>9, <3>2, <3>3, FitsStay
  <2>10. \A c \in wire' : c.here => c.tab \in Tabs BY <1>0, <2>4, <2>5, OrphansHere
  <2> QED BY <2>7, <2>8, <2>9, <2>10 DEF AloneKept, AloneInv
\* The tab's calls are dropped, or served unheard.
<1>9. CASE Reload(t)
  <2>1. PICK s : s = [Closed EXCEPT !.token = local] OBVIOUS
  <2>2. ~s.loaded BY <2>1 DEF Closed
  <2>3. tab'[t] = s /\ (\A q \in Tabs : q # t => tab'[q] = tab[q]) /\ alone' = alone \ {t}
    BY <1>9, <2>1 DEF Reload, AloneInv, BrowserInv
  <2>4. PICK mute : mute = {Unheard(c) : c \in {d \in wire : d.tab = t /\ d.status = 0}} OBVIOUS
  <2>5. wire' = {c \in wire : c.tab # t} \cup mute BY <1>9, <2>4 DEF Reload
  <2>6. \A d \in mute : ~d.here
    <3> SUFFICES ASSUME NEW d \in mute PROVE ~d.here OBVIOUS
    <3>1. PICK c \in wire : d = Unheard(c) BY <2>4
    <3>2. c \in CallRow BY DEF AloneInv, BrowserInv, CallTrue
    <3> QED BY <3>1, <3>2 DEF Unheard, CallRow
  <2>7. \A q \in Tabs : Awaited(wire', q) = IF q = t THEN {} ELSE Awaited(wire, q)
    BY <2>5, <2>6 DEF Awaited
  <2>8. TabFits(t)' BY <2>2, <2>3, <2>7, FitsNew
  <2>9. ASSUME NEW q \in Tabs, q # t PROVE TabFits(q)'
    <3>1. TabFits(q) BY DEF AloneInv
    <3> QED BY <1>0, <2>3, <2>7, <2>9, <3>1, FitsStay
  <2>10. \A c \in wire' : c.here => c.tab \in Tabs BY <1>0, <2>5, <2>6
  <2> QED BY <2>3, <2>8, <2>9, <2>10 DEF AloneKept, AloneInv
<1> QED BY <1>3, <1>4, <1>5, <1>6, <1>7, <1>8, <1>9 DEF UserActs

\* Neither its photo nor what happens elsewhere concerns a page's count.
LEMMA AloneQuiet ==
  ASSUME AloneInv, UNCHANGED <<wire, likes, alone>>,
         \A q \in Tabs : /\ tab'[q].page = tab[q].page /\ tab'[q].loaded = tab[q].loaded
                         /\ tab'[q].busy = tab[q].busy /\ tab'[q].count = tab[q].count
  PROVE  AloneKept
<1>1. ASSUME NEW q \in Tabs PROVE TabFits(q)'
  BY FitsStay DEF AloneInv
<1> QED BY <1>1 DEF AloneKept, AloneInv

LEMMA AloneUploadKeeps ==
  ASSUME AloneInv, NEW u \in Uploads, Uploaded(u) \/ \E t \in Tabs : DoUpload(t, u)
  PROVE  AloneKept
<1>0. /\ tab \in [Tabs -> TabRow] /\ UNCHANGED <<wire, likes, alone>>
      /\ photo \in [Uploads -> [tab : Tabs, here : BOOLEAN] \cup {None}]
  BY DEF AloneInv, BrowserInv, Uploaded, DoUpload, serverVars
<1>1. ASSUME NEW t \in Tabs, NEW s, tab' = [tab EXCEPT ![t] = s],
             s.page = tab[t].page, s.loaded = tab[t].loaded,
             s.busy = tab[t].busy, s.count = tab[t].count
      PROVE  AloneKept
  <2>1. tab'[t] = s /\ \A q \in Tabs : q # t => tab'[q] = tab[q] BY <1>0, <1>1
  <2> QED BY <1>0, <1>1, <2>1, AloneQuiet
<1>2. ASSUME NEW t \in Tabs, DoUpload(t, u) PROVE AloneKept
  <2>1. PICK s : s = [tab[t] EXCEPT !.uploading = TRUE] OBVIOUS
  <2>2. /\ s.page = tab[t].page /\ s.loaded = tab[t].loaded
        /\ s.busy = tab[t].busy /\ s.count = tab[t].count
    BY <1>0, <2>1 DEF TabRow
  <2>3. tab' = [tab EXCEPT ![t] = s] BY <1>2, <2>1 DEF DoUpload
  <2> QED BY <1>1, <2>2, <2>3
<1>3. CASE Uploaded(u)
  <2>1. CASE ~photo[u].here BY <1>0, <1>3, <2>1, AloneQuiet DEF Uploaded
  <2>2. CASE photo[u].here
    <3>1. PICK t \in Tabs : t = photo[u].tab BY <1>0, <1>3 DEF Uploaded
    <3>2. PICK i : i = IF up[u].pc = "saved" THEN u ELSE tab[t].image OBVIOUS
    <3>3. PICK r : r = [tab[t] EXCEPT !.uploading = FALSE] OBVIOUS
    <3>4. PICK s : s = [r EXCEPT !.image = i] OBVIOUS
    <3>5. /\ r.page = tab[t].page /\ r.loaded = tab[t].loaded
          /\ r.busy = tab[t].busy /\ r.count = tab[t].count /\ r.image = tab[t].image
          /\ s.page = r.page /\ s.loaded = r.loaded /\ s.busy = r.busy /\ s.count = r.count
      BY <1>0, <3>3, <3>4 DEF TabRow
    <3>6. tab' = [tab EXCEPT ![t] = s]
      BY <1>0, <1>3, <2>2, <3>1, <3>2, <3>3, <3>4, <3>5 DEF Uploaded
    <3> QED BY <1>1, <3>5, <3>6
  <2> QED BY <2>1, <2>2
<1> QED BY <1>2, <1>3

Answer(c, status, got) == [c EXCEPT !.status = status, !.got = got]

\* A page counts on that is given the count, or whose answer says how the likes
\* change; one that does not wait for call c, only if they stay.
CountsOn(c, d) ==
  /\ alone' \subseteq Tabs
  /\ \A t \in alone' :
       IF c.here /\ c.tab = t
       THEN /\ \/ t \in alone
               \/ c.kind = "note" /\ Worked(d) /\ d.got = Cardinality(likes')
            /\ Cardinality(likes') = Cardinality(likes) + Adds(d)
       ELSE t \in alone /\ Cardinality(likes') = Cardinality(likes)

\* The server answers call c.
LEMMA AloneServed ==
  ASSUME AloneInv, UNCHANGED tab, NEW c \in wire, c.status = 0,
         NEW status, NEW got, Served(c, status, got),
         CountsOn(c, Answer(c, status, got))
  PROVE  AloneKept
<1> PICK new : new = Answer(c, status, got) OBVIOUS
<1>0. c \in CallRow /\ \A d \in wire : d.here => d.tab \in Tabs
  BY DEF AloneInv, BrowserInv, CallTrue
<1>1. /\ new.tab = c.tab /\ new.here = c.here /\ new.kind = c.kind
      /\ new.status = status /\ new.got = got
  BY <1>0 DEF CallRow, Answer
<1>2. wire' = (wire \ {c}) \cup (IF c.tab = None THEN {} ELSE {new}) BY DEF Served, Answer
<1>3. ~Worked(c) /\ Adds(c) = 0 BY DEF Worked, Adds
<1>3a. CountsOn(c, new) OBVIOUS
<1>4. IsFiniteSet(likes) /\ Cardinality(likes) \in Nat BY FS_CardinalityType DEF AloneInv, BrowserInv
<1>5. ASSUME NEW t \in Tabs, c.here, c.tab = t PROVE TabFits(t)'
  <2>1. TabFits(t) /\ c \in Awaited(wire, t) BY <1>5 DEF AloneInv, Awaited
  <2>2. Awaited(wire, t) = {c} BY <2>1 DEF TabFits, PageFits
  <2>3. t # None BY BrowserNone
  <2>4. Awaited(wire', t) = {new} BY <1>1, <1>2, <1>5, <2>2, <2>3 DEF Awaited
  <2>5. PageFits(tab[t], {new})
    BY <1>1, <2>1, <2>2 DEF TabFits, PageFits
  \* Until its note has come, no count is known of the page.
  <2>6. ASSUME t \in alone', c.kind = "note" PROVE CountFits(tab[t], {new}, Cardinality(likes'))
    <3>1. ~(tab[t].page = "note" /\ tab[t].loaded)
      BY <2>1, <2>2, <2>6 DEF TabFits, PageFits
    <3>2. t \notin alone BY <1>3, <2>1, <2>2, <2>6 DEF TabFits, CountFits
    <3>3. Worked(new) /\ new.got = Cardinality(likes') BY <1>5, <1>3a, <2>6, <3>2 DEF CountsOn
    <3> QED BY <3>1, <3>3 DEF CountFits
  <2>7. ASSUME t \in alone', c.kind # "note" PROVE CountFits(tab[t], {new}, Cardinality(likes'))
    <3>1. t \in alone /\ Cardinality(likes') = Cardinality(likes) + Adds(new)
      BY <1>5, <1>3a, <2>7 DEF CountsOn
    <3>2. tab[t].page = "note" /\ tab[t].loaded => tab[t].count + 0 = Cardinality(likes)
      BY <1>3, <2>1, <2>2, <3>1 DEF TabFits, CountFits
    <3>3. tab[t].count \in Nat BY DEF AloneInv, BrowserInv, TabRow
    <3>4. tab[t].page = "note" /\ tab[t].loaded => tab[t].count + Adds(new) = Cardinality(likes')
      BY <3>1, <3>2, <3>3, <1>4
    <3> QED BY <1>1, <2>7, <3>4 DEF CountFits
  <2> QED BY <2>4, <2>5, <2>6, <2>7 DEF TabFits
<1>6. ASSUME NEW t \in Tabs, ~(c.here /\ c.tab = t) PROVE TabFits(t)'
  <2>1. Awaited(wire', t) = Awaited(wire, t) BY <1>1, <1>2, <1>6 DEF Awaited
  <2>2. TabFits(t) BY DEF AloneInv
  <2> QED BY <1>6, <1>3a, <2>1, <2>2, FitsStay DEF CountsOn
<1>7. \A d \in wire' : d.here => d.tab \in Tabs BY <1>0, <1>1, <1>2
<1> QED BY <1>5, <1>6, <1>7, <1>3a DEF AloneKept, CountsOn

LEMMA AloneServeKeeps ==
  ASSUME AloneInv, Serve
  PROVE  AloneKept
<1>0. /\ UNCHANGED tab /\ IsFiniteSet(likes) /\ Cardinality(likes) \in Nat /\ alone \subseteq Tabs
  BY FS_CardinalityType DEF Serve, AloneInv, BrowserInv
<1>1. PICK c \in wire :
        /\ c.status = 0
        /\ \/ ServeLogin(c) \/ ServeNote(c) \/ ServeLike(c) \/ ServePublish(c)
           \/ ServeRefused(c) \/ ServeFails(c)
  BY DEF Serve
<1>2. c \in CallRow /\ (c.here => c.tab \in Tabs) BY DEF AloneInv, BrowserInv, CallTrue
\* The likes stay.
<1>3. ASSUME NEW status, NEW got, Served(c, status, got), likes' = likes, alone' = alone,
             c.kind \in {"like", "unlike"} => status \notin {200, 201}
      PROVE  AloneKept
  <2>1. PICK new : new = Answer(c, status, got) OBVIOUS
  <2>2. new.status = status /\ new.kind = c.kind BY <1>2, <2>1 DEF CallRow, Answer
  <2>3. Adds(new) = 0 BY <1>3, <2>2 DEF Adds, Worked
  <2>4. CountsOn(c, new) BY <1>0, <1>3, <2>3 DEF CountsOn
  <2> QED BY <1>0, <1>1, <1>3, <2>1, <2>4, AloneServed
\* One more, or one less: only the page that asked for it, and hears of it,
\* counts on.
<1>4. ASSUME NEW status \in {200, 201, 500}, NEW whom, Liking(c, whom, status),
             \/ c.kind = "like" /\ Cardinality(whom) = Cardinality(likes) + 1
             \/ c.kind = "unlike" /\ Cardinality(whom) = Cardinality(likes) - 1
      PROVE  AloneKept
  <2>1. PICK new : new = Answer(c, status, None) OBVIOUS
  <2>2. new.status = status /\ new.kind = c.kind BY <1>2, <2>1 DEF CallRow, Answer
  <2>3. /\ Served(c, status, None) /\ likes' = whom
        /\ alone' = {t \in alone : t = c.tab /\ c.here /\ status # 500}
    BY <1>4 DEF Liking
  <2>4. CountsOn(c, new)
    <3>1. CASE status = 500 BY <1>0, <2>3, <3>1 DEF CountsOn
    <3>2. CASE status # 500
      <4>1. Adds(new) = IF c.kind = "like" THEN 1 ELSE 0 - 1 BY <1>4, <2>2, <3>2 DEF Adds, Worked
      <4>2. Cardinality(likes') = Cardinality(likes) + Adds(new) BY <1>0, <1>4, <2>3, <4>1
      <4> QED BY <1>0, <2>3, <4>2 DEF CountsOn
    <3> QED BY <3>1, <3>2
  <2> QED BY <1>0, <1>1, <2>1, <2>3, <2>4, AloneServed
<1>5. CASE ServeLogin(c)
  <2>1. PICK status, got : Served(c, status, got) BY <1>5 DEF ServeLogin
  <2> QED BY <1>3, <1>5, <2>1 DEF ServeLogin
<1>6. CASE ServeNote(c)
  <2>1. CASE /\ Served(c, 200, Cardinality(likes))
             /\ alone' = IF c.here THEN alone \cup {c.tab} ELSE alone
    <3>1. PICK got : got = Cardinality(likes) OBVIOUS
    <3>2. PICK new : new = Answer(c, 200, got) OBVIOUS
    <3>3. new.kind = "note" /\ new.status = 200 /\ new.got = got
      BY <1>2, <1>6, <3>2 DEF CallRow, ServeNote, Answer
    <3>4. Adds(new) = 0 /\ Worked(new) BY <3>3 DEF Adds, Worked
    <3>5. Served(c, 200, got) /\ likes' = likes BY <1>6, <2>1, <3>1 DEF ServeNote, serverVars
    <3>6. alone' \subseteq Tabs BY <1>0, <1>2, <2>1
    <3>7. CountsOn(c, new)
      BY <1>0, <1>6, <2>1, <3>1, <3>3, <3>4, <3>5, <3>6 DEF CountsOn, ServeNote
    <3> QED BY <1>0, <1>1, <3>2, <3>5, <3>7, AloneServed
  <2>2. CASE Served(c, 200, 0) /\ UNCHANGED alone
    BY <1>3, <1>6, <2>2 DEF ServeNote, serverVars
  <2> QED BY <1>6, <2>1, <2>2 DEF ServeNote
<1>7. CASE ServeLike(c)
  <2>1. PICK u : u = c.token.of OBVIOUS
  <2>2. CASE c.kind = "like" /\ u \notin likes
             /\ \E status \in Told(201) : Liking(c, likes \cup {u}, status)
    <3>1. Cardinality(likes \cup {u}) = Cardinality(likes) + 1 BY <1>0, <2>2, FS_AddElement
    <3> QED BY <1>4, <2>2, <3>1 DEF Told
  <2>3. CASE c.kind = "unlike" /\ u \in likes
             /\ \E status \in Told(200) : Liking(c, likes \ {u}, status)
    <3>1. Cardinality(likes \ {u}) = Cardinality(likes) - 1 BY <1>0, <2>3, FS_RemoveElement
    <3> QED BY <1>4, <2>3, <3>1 DEF Told
  <2>4. CASE \E status \in {404, 409} : Served(c, status, None) /\ UNCHANGED <<likes, alone>>
    BY <1>3, <2>4
  <2> QED BY <1>7, <2>1, <2>2, <2>3, <2>4 DEF ServeLike
<1>8. CASE ServePublish(c) BY <1>3, <1>8 DEF ServePublish
<1>9. CASE ServeRefused(c) BY <1>3, <1>9 DEF ServeRefused, serverVars
<1>10. CASE ServeFails(c) BY <1>3, <1>10 DEF ServeFails, serverVars
<1> QED BY <1>1, <1>5, <1>6, <1>7, <1>8, <1>9, <1>10

\* What the page's component makes of the answer it waited for.
LEMMA CountHeard ==
  ASSUME NEW s, s \in TabRow, NEW c, PageFits(s, {c}), NEW n \in Nat,
         CountFits(s, {c}, n)
  PROVE  CountFits(Component(s, c), {}, n)
<1>0. s.count \in Nat BY DEF TabRow
<1>1. PICK idle : idle = [s EXCEPT !.busy = FALSE] OBVIOUS
<1>2. idle \in TabRow /\ idle.page = s.page /\ idle.loaded = s.loaded /\ idle.count = s.count
  BY <1>1 DEF TabRow
<1>3. s.page = "note" /\ s.loaded => s.count + Adds(c) = n BY DEF CountFits
<1>4. CASE c.kind = "note" /\ Worked(c)
  <2>1. Component(s, c) = [s EXCEPT !.loaded = TRUE, !.count = c.got] BY <1>4 DEF Component
  <2>2. c.got = n BY <1>4 DEF CountFits
  <2>3. Component(s, c).count = n BY <2>1, <2>2 DEF TabRow
  <2> QED BY <2>3 DEF CountFits
<1>5. CASE c.kind = "note" /\ ~Worked(c)
  <2>1. Component(s, c) = s BY <1>5 DEF Component
  <2>2. ~s.loaded BY <1>5 DEF PageFits
  <2> QED BY <2>1, <2>2 DEF CountFits
<1>6. CASE c.kind = "like" /\ Worked(c)
  <2>1. PICK r : r = [idle EXCEPT !.liked = TRUE, !.count = idle.count + 1] OBVIOUS
  <2>2. r = Component(s, c) BY <1>1, <1>6, <2>1 DEF Component
  <2>3. r.page = s.page /\ r.loaded = s.loaded /\ r.count = s.count + 1
    BY <1>2, <2>1 DEF TabRow
  <2>4. Adds(c) = 1 BY <1>6 DEF Adds
  <2> QED BY <1>3, <2>2, <2>3, <2>4 DEF CountFits
<1>7. CASE c.kind = "unlike" /\ Worked(c)
  <2>1. PICK r : r = [idle EXCEPT !.liked = FALSE,
                                  !.count = IF idle.count = 0 THEN 0 ELSE idle.count - 1]
    OBVIOUS
  <2>2. r = Component(s, c) BY <1>1, <1>7, <2>1 DEF Component
  <2>3. /\ r.page = s.page /\ r.loaded = s.loaded
        /\ r.count = IF s.count = 0 THEN 0 ELSE s.count - 1
    BY <1>2, <2>1 DEF TabRow
  <2>4. Adds(c) = 0 - 1 BY <1>7 DEF Adds
  \* It was counted, so there was one to take away.
  <2>5. s.page = "note" /\ s.loaded => r.count = n BY <1>0, <1>3, <2>3, <2>4
  <2> QED BY <2>2, <2>3, <2>5 DEF CountFits
<1>8. CASE c.kind # "note" /\ ~(c.kind \in {"like", "unlike"} /\ Worked(c))
  <2>1. Component(s, c) = idle BY <1>1, <1>8 DEF Component
  <2>2. Adds(c) = 0 BY <1>8 DEF Adds
  <2> QED BY <1>0, <1>2, <1>3, <2>1, <2>2 DEF CountFits
<1> QED BY <1>4, <1>5, <1>6, <1>7, <1>8

\* A tab hears of call old: c is its answer, or that it took too long.
LEMMA AloneHearKeeps ==
  ASSUME AloneInv, NEW old \in wire, NEW t \in Tabs, old.tab = t,
         NEW c, c.tab = t, c.here = old.here, c.kind = old.kind,
         c.status # TimedOut => c = old,
         NEW others, Rest(others), \A d \in others : d.here => d.tab \in Tabs,
         \A q \in Tabs : Awaited(others, q) = Awaited(wire, q) \ {old},
         Hear(c, others)
  PROVE  AloneKept
<1>0. likes' = likes BY Zenon DEF Hear, serverVars
<1>1. PICK s : s = tab[t] OBVIOUS
<1>2. s \in TabRow /\ TabFits(t) /\ alone \subseteq Tabs BY <1>1 DEF AloneInv, BrowserInv
<1>3. \A q \in Tabs : q # t => Awaited(others, q) = Awaited(wire, q) BY DEF Awaited
<1>4. ASSUME NEW m, ~m.loaded, Goes(t, m), wire' = Orphans(others, t) PROVE AloneKept
  BY <1>0, <1>3, <1>4, GoesKeeps
<1>5. ASSUME NEW r, NEW p PROVE ~Mount(r, p).loaded BY DEF Mount, Closed
<1>6. CASE c.kind \in {"login", "publish"} /\ Worked(c)
  <2>1. PICK m : Goes(t, m) /\ ~m.loaded BY <1>5, <1>6 DEF Hear
  <2>2. wire' = Orphans(others, t) BY <1>6 DEF Hear
  <2> QED BY <1>4, <2>1, <2>2
<1>7. CASE ~(c.kind \in {"login", "publish"} /\ Worked(c))
  <2>1. PICK m : m = IF c.here THEN Component(s, c) ELSE s OBVIOUS
  <2>2. /\ tab' = [tab EXCEPT ![t] = m] /\ wire' = others
        /\ alone' = IF c.status = TimedOut THEN alone \ {t} ELSE alone
    BY <1>1, <1>7, <2>1 DEF Hear
  <2>3. tab'[t] = m /\ \A q \in Tabs : q # t => tab'[q] = tab[q]
    BY <2>2 DEF AloneInv, BrowserInv
  <2>4. TabFits(t)'
    <3>1. CASE c.here
      <4>1. old \in Awaited(wire, t) BY <3>1 DEF Awaited
      <4>2. Awaited(wire, t) = {old} BY <1>2, <4>1 DEF TabFits, PageFits
      <4>3. Awaited(wire', t) = {} BY <2>2, <4>2
      <4>4. PageFits(m, {}) BY DEF PageFits
      <4>5. ASSUME t \in alone' PROVE CountFits(m, {}, Cardinality(likes))
        <5>1. t \in alone /\ c = old BY <2>2, <4>5
        <5>2. Cardinality(likes) \in Nat BY FS_CardinalityType DEF AloneInv, BrowserInv
        <5>3. PageFits(s, {c}) /\ CountFits(s, {c}, Cardinality(likes))
          BY <1>1, <1>2, <4>2, <5>1 DEF TabFits
        <5>4. m = Component(s, c) BY <2>1, <3>1
        <5> QED BY <1>2, <5>2, <5>3, <5>4, CountHeard
      <4> QED BY <1>0, <2>3, <4>3, <4>4, <4>5 DEF TabFits
    <3>2. CASE ~c.here
      <4>1. Awaited(wire', t) = Awaited(wire, t) BY <2>2, <3>2 DEF Awaited
      <4>2. tab'[t] = tab[t] BY <1>1, <2>1, <2>3, <3>2
      <4> QED BY <1>0, <1>2, <2>2, <4>1, <4>2, FitsStay
    <3> QED BY <3>1, <3>2
  <2>5. ASSUME NEW q \in Tabs, q # t PROVE TabFits(q)'
    <3>1. Awaited(wire', q) = Awaited(wire, q) /\ TabFits(q)
      BY <1>3, <2>2, <2>5 DEF AloneInv
    <3> QED BY <1>0, <2>2, <2>3, <2>5, <3>1, FitsStay
  <2> QED BY <1>2, <2>2, <2>4, <2>5 DEF AloneKept
<1> QED BY <1>6, <1>7

LEMMA AloneAnswerKeeps ==
  ASSUME AloneInv, NEW c \in wire, Answered(c) \/ Timeout(c)
  PROVE  AloneKept
<1>1. BrowserInv /\ c \in CallRow BY DEF AloneInv, BrowserInv, CallTrue
<1>2. c.tab \in Tabs BY <1>1 DEF CallRow, Answered, Timeout
<1>3. \A d \in wire : d.here => d.tab \in Tabs BY DEF AloneInv
<1>4. CASE Answered(c)
  <2>1. Rest(wire \ {c}) BY <1>1 DEF BrowserInv, CallTrue, Rest, Same, OneCallEach
  <2>2. \A q \in Tabs : Awaited(wire \ {c}, q) = Awaited(wire, q) \ {c} BY DEF Awaited
  <2> QED BY <1>2, <1>3, <1>4, <2>1, <2>2, AloneHearKeeps DEF Answered
<1>5. CASE Timeout(c)
  <2>1. PICK d : d = [c EXCEPT !.status = TimedOut] OBVIOUS
  <2>2. d.tab = c.tab /\ d.here = c.here /\ d.kind = c.kind /\ d.status = TimedOut
    BY <1>1, <2>1 DEF CallRow
  <2>3. PICK quiet : quiet = IF c.status = 0 THEN {c} ELSE {} OBVIOUS
  <2>4. PICK mute : mute = {Unheard(e) : e \in quiet} OBVIOUS
  <2>5. PICK others : others = (wire \ {c}) \cup mute OBVIOUS
  <2>6. Rest(others)
    <3>1. PICK kept : kept = wire \ {c} OBVIOUS
    <3>2. kept \subseteq wire /\ quiet \subseteq wire /\ kept \cap quiet = {} BY <2>3, <3>1
    <3> QED BY <1>1, <2>4, <2>5, <3>1, <3>2, RestUnheard
  <2>7. \A e \in mute : ~e.here BY <1>1, <2>3, <2>4 DEF Unheard, CallRow
  <2>8. \A q \in Tabs : Awaited(others, q) = Awaited(wire, q) \ {c}
    BY <2>5, <2>7 DEF Awaited
  <2>9. \A e \in others : e.here => e.tab \in Tabs BY <1>3, <2>5, <2>7
  <2>10. Hear(d, others)
    <3>1. others = (wire \ {c}) \cup (IF c.status = 0 THEN {Unheard(c)} ELSE {})
      BY <2>3, <2>4, <2>5
    <3> QED BY <1>5, <2>1, <3>1 DEF Timeout
  <2> QED BY <1>2, <2>2, <2>6, <2>8, <2>9, <2>10, AloneHearKeeps
<1> QED BY <1>4, <1>5

LEMMA AloneNext ==
  ASSUME AloneInv, [Next]_vars
  PROVE  AloneInv'
<1>1. BrowserInv' BY BrowserNext DEF AloneInv
<1>2. CASE Expire \/ PhotoServed \/ UNCHANGED vars
  <2>1. UNCHANGED <<tab, wire, likes, alone>>
    BY <1>2 DEF Expire, PhotoServed, serverVars, vars
  <2>2. AloneKept BY <2>1, AloneQuiet
  <2> QED BY <1>1, <2>2 DEF AloneKept, AloneInv
<1>3. CASE ~(Expire \/ PhotoServed \/ UNCHANGED vars)
  <2>1. AloneKept
    BY <1>3, AloneUserKeeps, AloneUploadKeeps, AloneServeKeeps, AloneAnswerKeeps DEF Next
  <2> QED BY <1>1, <2>1 DEF AloneKept, AloneInv
<1> QED BY <1>2, <1>3

\* Whatever was liked before the visit, whichever calls are refused or fail, and
\* in whatever order they are served and heard of: once its button rests, a page
\* that was given the count shows as many likes as the server holds
\* (NoteDetail.vue toggleLike), unless somebody else has changed them since, or
\* a call of its own did its work and the page was told of an error or nothing.
THEOREM AloneTheCountIsRightAlways == Spec => []AloneTheCountIsRight
<1>1. AloneInv => AloneTheCountIsRight
  <2> SUFFICES ASSUME AloneInv, NEW t \in alone,
                      tab[t].page = "note", tab[t].loaded, ~tab[t].busy
               PROVE  tab[t].count = Cardinality(likes)
    BY DEF AloneTheCountIsRight
  <2>1. TabFits(t) BY DEF AloneInv
  <2>2. Awaited(wire, t) = {} BY <2>1 DEF TabFits, PageFits
  <2> QED BY <2>1, <2>2 DEF TabFits, CountFits
<1> QED BY <1>1, AloneStart, AloneNext, PTL DEF Spec
=============================================================================
