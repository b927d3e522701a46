----------------------------- MODULE BeanService -----------------------------
(***************************************************************************)
(* The bean library: handler/bean_handler.go over service/bean_service.go  *)
(* over repository/coffee_bean_repository.go, one action per statement.    *)
(* Every route here has passed RequireRole("admin").                       *)
(***************************************************************************)
EXTENDS DirectoryState

\* The unique index: a bean other than b has the name.
NameTaken(n, b) == \E k \in BeanIds \ {b} : beans[k] # Absent /\ beans[k].name = n

NewBean(b) == [name |-> b.name, process |-> b.process,
               tags |-> IF b.tags = "" THEN "[]" ELSE b.tags]

\* Binding requires a process, so it is always checked and patched.
PatchedBean(row, b) ==
  [row EXCEPT !.name    = IF b.name = "" THEN @ ELSE b.name,
              !.process = b.process,
              !.tags    = IF b.tags = "" THEN @ ELSE b.tags]

(***************************************************************************)
(* POST /beans                                                             *)
(***************************************************************************)
\* Mutant: any process method goes.
MutCreateBean(r, c, t) ==
  /\ c.op = "CreateBean"
  /\ beanSeq + Cardinality(Inserting("CreateBean")) < MaxBeans
  /\ \/ ~c.ok /\ Reject(r, c, t, 400)
     \/ c.ok /\ Enter(r, c, t, "insert", NewBean(c.body))

CreateBean(r, c, t) ==
  /\ c.op = "CreateBean"
  /\ beanSeq + Cardinality(Inserting("CreateBean")) < MaxBeans
  /\ \/ ~c.ok /\ Reject(r, c, t, 400)
     \/ c.ok /\ c.body.process \notin Processes /\ Reject(r, c, t, 422)
     \/ /\ c.ok
        /\ c.body.process \in Processes
        /\ Enter(r, c, t, "insert", NewBean(c.body))

\* Mutant: the library numbers its beans itself, by what it holds.
MutInsertBean(r) ==
  /\ At(r, "CreateBean", "insert")
  /\ beanSeq < MaxBeans
  /\ LET row == req[r].row
         b   == 1 + Cardinality({k \in BeanIds : beans[k] # Absent}) IN
       /\ IsJson(row.tags)
       /\ ~NameTaken(row.name, b)
       /\ beans' = [beans EXCEPT ![b] = row]
       /\ beanSeq' = beanSeq + 1
       /\ Written(r, 201)
  /\ UNCHANGED fresh

InsertBean(r) ==
  /\ At(r, "CreateBean", "insert")
  /\ beanSeq < MaxBeans
  /\ LET row == req[r].row IN
       \/ ~IsJson(row.tags) /\ Answer(r, 500) /\ UNCHANGED beanVars
       \/ /\ IsJson(row.tags)
          /\ NameTaken(row.name, beanSeq + 1)
          /\ Answer(r, 409)
          /\ beanSeq' = beanSeq + 1
          /\ UNCHANGED beans
       \/ /\ IsJson(row.tags)
          /\ ~NameTaken(row.name, beanSeq + 1)
          /\ beans' = [beans EXCEPT ![beanSeq + 1] = row]
          /\ beanSeq' = beanSeq + 1
          /\ Written(r, 201)
  /\ UNCHANGED fresh

(***************************************************************************)
(* PUT /beans/:id: read the row, patch it in memory, write all of it back. *)
(***************************************************************************)
UpdateBean(r, c, t) ==
  /\ c.op = "UpdateBean"
  /\ \/ ~c.ok /\ Reject(r, c, t, 400)
     \/ c.ok /\ Enter(r, c, t, "find", Absent)

BeanToUpdate(r) ==
  /\ At(r, "UpdateBean", "find")
  /\ LET c == req[r].call  row == beans[c.id] IN
       \/ row = Absent /\ Answer(r, 500) /\ UNCHANGED fresh
       \/ /\ row # Absent
          /\ c.body.process \notin Processes
          /\ Answer(r, 422)
          /\ UNCHANGED fresh
       \/ /\ row # Absent
          /\ c.body.process \in Processes
          /\ Hold(r, "save", PatchedBean(row, c.body))
          /\ fresh' = fresh \cup {r}
  /\ UNCHANGED beanVars

\* Mutant: an update that matches no row is tried again until it does.
MutSaveBean(r) ==
  /\ At(r, "UpdateBean", "save")
  /\ beans[req[r].call.id] # Absent
  /\ ~NameTaken(req[r].row.name, req[r].call.id)
  /\ beans' = [beans EXCEPT ![req[r].call.id] = req[r].row]
  /\ fresh' = fresh \ Overtaken("UpdateBean", req[r].call.id)
  /\ Written(r, 200)
  /\ UNCHANGED beanSeq

\* gorm's Save, first statement: UPDATE every column WHERE id.  A name taken
\* meanwhile is no conflict to the service, which wraps every error: 500.
SaveBean(r) ==
  /\ At(r, "UpdateBean", "save")
  /\ LET b == req[r].call.id  row == req[r].row IN
       \/ /\ beans[b] = Absent
          /\ IsJson(row.tags)
          /\ Goto(r, "upsert")
          /\ UNCHANGED <<beans, fresh>>
       \/ /\ ~IsJson(row.tags) \/ (beans[b] # Absent /\ NameTaken(row.name, b))
          /\ Answer(r, 500)
          /\ fresh' = fresh \ {r}
          /\ UNCHANGED beans
       \/ /\ IsJson(row.tags)
          /\ beans[b] # Absent
          /\ ~NameTaken(row.name, b)
          /\ beans' = [beans EXCEPT ![b] = row]
          /\ fresh' = fresh \ Overtaken("UpdateBean", b)
          /\ Written(r, 200)
  /\ UNCHANGED beanSeq

\* gorm's Save, second statement: INSERT under the old id, ON CONFLICT (id)
\* DO UPDATE every column.  The index on the name is not the one it minds.
SaveBeanInsert(r) ==
  /\ At(r, "UpdateBean", "upsert")
  /\ LET b == req[r].call.id  row == req[r].row IN
       \/ /\ NameTaken(row.name, b)
          /\ Answer(r, 500)
          /\ fresh' = fresh \ {r}
          /\ UNCHANGED beans
       \/ /\ ~NameTaken(row.name, b)
          /\ beans' = [beans EXCEPT ![b] = row]
          /\ fresh' = fresh \ Overtaken("UpdateBean", b)
          /\ Written(r, 200)
  /\ UNCHANGED beanSeq

(***************************************************************************)
(* DELETE /beans/:id: one statement.                                       *)
(***************************************************************************)
DeleteBean(r, c, t) ==
  /\ c.op = "DeleteBean"
  /\ \/ ~c.ok /\ Reject(r, c, t, 400)
     \/ c.ok /\ Enter(r, c, t, "delete", Absent)

DeleteBeanRow(r) ==
  /\ At(r, "DeleteBean", "delete")
  /\ LET b == req[r].call.id IN
       \/ beans[b] = Absent /\ Answer(r, 500) /\ UNCHANGED <<beans, fresh>>
       \/ /\ beans[b] # Absent
          /\ beans' = [beans EXCEPT ![b] = Absent]
          /\ fresh' = fresh \ Overtaken("UpdateBean", b)
          /\ Written(r, 200)
  /\ UNCHANGED beanSeq

BeanArrival(r, c, t) == CreateBean(r, c, t) \/ UpdateBean(r, c, t) \/ DeleteBean(r, c, t)

BeanProgress(r) ==
  \/ InsertBean(r) \/ BeanToUpdate(r) \/ SaveBean(r) \/ SaveBeanInsert(r)
  \/ DeleteBeanRow(r)
=============================================================================
