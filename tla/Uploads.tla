------------------------------- MODULE Uploads -------------------------------
(***************************************************************************)
(* The server's side of POST /uploads: handler/upload_handler.go over      *)
(* util/file.go SaveUpload, behind AuthRequired, one action per file       *)
(* system call or clock reading.  Uploads run at the same time and share   *)
(* nothing but the directory, in which a name is made of two readings of   *)
(* the clock and nothing else.                                             *)
(***************************************************************************)
EXTENDS Naturals, FiniteSets

CONSTANTS
  Uploads,      \* uploads of a behaviour
  Chunks,       \* pieces io.Copy writes a photo in
  MaxTime,      \* bound of the clock
  Letters(_)    \* randomName: what eight letters tell of a clock reading

ASSUME UploadBounds == Chunks \in Nat \ {0} /\ MaxTime \in Nat
ASSUME UploadNames == "end" \notin Uploads

VARIABLES
  clock,    \* time.Now().UnixNano()
  up,       \* what each upload is doing
  files     \* the upload directory: the content of every file ever created

uploadVars == <<clock, up, files>>

Times == 0..MaxTime
Names == Times \X {Letters(t) : t \in Times}

\* What stands in each piece of a file: whose photo, a hole, or nothing.
Contents == [1..Chunks -> Uploads \cup {"hole", "end"}]
Empty    == [k \in 1..Chunks |-> "end"]
WholeOf(u) == [k \in 1..Chunks |-> u]

\* at: the first clock reading.  name: the file.  written: pieces copied.
Waiting == [pc |-> "waiting", at |-> 0, name |-> <<>>, written |-> 0]

UploadsInit ==
  /\ clock = 0
  /\ up = [u \in Uploads |-> Waiting]
  /\ files = [n \in {} |-> Empty]

\* Time passes where an upload is about to read the clock: nobody else does.
Tick ==
  /\ clock < MaxTime
  /\ \E u \in Uploads : up[u].pc \in {"received", "create"}
  /\ clock' = clock + 1
  /\ UNCHANGED <<up, files>>

Become(u, pc) == up' = [up EXCEPT ![u].pc = pc]

\* AuthRequired, then FormFile: the body is in memory before the handler runs.
Receive(u, allowed) == Become(u, IF allowed THEN "received" ELSE "refused")

\* The checks of the extension and the size, and the first clock reading.
SaveUpload(u) ==
  /\ up[u].pc = "received"
  /\ \/ Become(u, "refused")
     \/ up' = [up EXCEPT ![u].pc = "create", ![u].at = clock]
  /\ UNCHANGED <<clock, files>>

\* randomName reads the clock again; os.Create empties a file that is there.
CreateFile(u) ==
  /\ up[u].pc = "create"
  /\ LET n == <<up[u].at, Letters(clock)>> IN
       \/ /\ up' = [up EXCEPT ![u].pc = "copy", ![u].name = n]
          /\ files' = [m \in DOMAIN files \cup {n} |-> IF m = n THEN Empty ELSE files[m]]
       \/ Become(u, "refused") /\ UNCHANGED files
  /\ UNCHANGED clock

\* A piece lands at this upload's own offset, whatever happened to the file.
Put(content, k, u) ==
  [j \in 1..Chunks |-> IF j = k THEN u
                       ELSE IF j < k /\ content[j] = "end" THEN "hole"
                       ELSE content[j]]

\* Mutant: the copy stops at the first piece and is answered as done.
MutCopyFile(u) ==
  /\ up[u].pc = "copy"
  /\ files' = [files EXCEPT ![up[u].name] = Put(@, up[u].written + 1, u)]
  /\ up' = [up EXCEPT ![u].pc = "saved", ![u].written = @ + 1]
  /\ UNCHANGED clock

\* io.Copy: the next piece, or an error, which leaves what is written.
CopyFile(u) ==
  /\ up[u].pc = "copy"
  /\ \/ /\ up[u].written < Chunks
        /\ files' = [files EXCEPT ![up[u].name] = Put(@, up[u].written + 1, u)]
        /\ up' = [up EXCEPT ![u].written = @ + 1]
     \/ up[u].written < Chunks /\ Become(u, "refused") /\ UNCHANGED files
     \/ up[u].written = Chunks /\ Become(u, "saved") /\ UNCHANGED files
  /\ UNCHANGED clock

\* The process dies: no upload under way goes on, the directory stays.
UploadsDie ==
  /\ \E u \in Uploads : up[u].pc \in {"received", "create", "copy"}
  /\ up' = [u \in Uploads |->
              IF up[u].pc \in {"received", "create", "copy"}
              THEN [up[u] EXCEPT !.pc = "lost"] ELSE up[u]]
  /\ UNCHANGED <<clock, files>>

UploadStep(u) == SaveUpload(u) \/ CreateFile(u) \/ CopyFile(u)
=============================================================================
