---------------------------- MODULE RecipeService ----------------------------
(***************************************************************************)
(* Brew recipes: handler/recipe_handler.go over service/recipe_service.go  *)
(* over repository/brew_recipe_repository.go.  A recipe is never changed.  *)
(***************************************************************************)
EXTENDS DirectoryState

NewRecipe(t, b) == [user |-> t.id, era |-> t.era,
                    steps |-> IF b.tags = "" THEN "[]" ELSE b.tags]

CreateRecipe(r, c, t) ==
  /\ c.op = "CreateRecipe"
  /\ recipeSeq + Cardinality(Inserting("CreateRecipe")) < MaxRecipes
  /\ \/ ~c.ok /\ Reject(r, c, t, 400)
     \/ c.ok /\ Enter(r, c, t, "insert", NewRecipe(t, c.body))

\* Mutant: the author is never looked up.
MutAuthorExists(row) == TRUE

\* fk_recipe_user, where there is one.
AuthorExists(row) == userFK => users[row.user] # Absent

\* steps is a JSON column: a text that is not JSON is refused before an id is
\* taken, a row without its author after.
InsertRecipe(r) ==
  /\ At(r, "CreateRecipe", "insert")
  /\ recipeSeq < MaxRecipes
  /\ LET row == req[r].row IN
       \/ ~IsJson(row.steps) /\ Answer(r, 500) /\ UNCHANGED recipeVars
       \/ /\ IsJson(row.steps)
          /\ ~AuthorExists(row)
          /\ Answer(r, 500)
          /\ recipeSeq' = recipeSeq + 1
          /\ UNCHANGED recipes
       \/ /\ IsJson(row.steps)
          /\ AuthorExists(row)
          /\ recipes' = [recipes EXCEPT ![recipeSeq + 1] = row]
          /\ recipeSeq' = recipeSeq + 1
          /\ Written(r, 201)

GetRecipe(r, c, t) ==
  /\ c.op = "GetRecipe"
  /\ \/ ~c.ok /\ Reject(r, c, t, 400)
     \/ c.ok /\ Enter(r, c, t, "find", Absent)

RecipeFind(r) ==
  /\ At(r, "GetRecipe", "find")
  /\ Answer(r, IF recipes[req[r].call.id] = Absent THEN 404 ELSE 200)
  /\ UNCHANGED recipeVars

RecipeArrival(r, c, t) == CreateRecipe(r, c, t) \/ GetRecipe(r, c, t)
RecipeProgress(r)      == InsertRecipe(r) \/ RecipeFind(r)
=============================================================================
