SPECIFICATION MCSpec
CHECK_DEADLOCK FALSE
INVARIANT PagesAndMentionsAgree
INVARIANT EditsAreLocal
INVARIANT PageIsTrue
 
PROPERTY LinesStayWhereTheyWere
