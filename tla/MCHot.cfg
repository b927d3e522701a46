SPECIFICATION Spec
CONSTANTS
  RowIds <- Rows3
  Scores <- TwoScores
  Width = 5
  MaxSize = 2
  DefaultSize <- Sizes
  Texts <- ClientTexts
  LikeCount <- SecondLiked
  Absent = Absent
INVARIANT HotByLikesOrRecency
