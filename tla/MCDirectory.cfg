SPECIFICATION Spec
CONSTANTS
  r1 = r1
  r2 = r2
  Reqs <- TwoReqs
  Workloads <- AllWorkloads
  MaxUsers = 3
  MaxBeans = 3
  MaxRecipes = 1
  Absent = Absent
  NoCall = NoCall
  Nobody = Nobody
INVARIANTS DirectoryTypeOK NamesUnique TokensSpeakTrue
  DirectoryAnswers AuthorsExist NoneStuck
PROPERTIES IdentityPinned AloneItDoesWhatItSays ProfileOfItsOwn BeansByAdmins
  BeanGoneForGood ImplementsRegistry
SYMMETRY Symmetry
