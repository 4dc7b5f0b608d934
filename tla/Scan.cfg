\* Two scans of two ISBNs, sources and caches in every state.
SPECIFICATION Spec
CONSTANTS
  None = None
  x = x
  y = y
  q1 = q1
  q2 = q2
  t1 = t1
  ann = ann
  ben = ben
  m1 = m1
  m2 = m2
  Requests = {r1, r2}
  Isbns = {x, y}
  Queries = {q1, q2}
  Authors = {ann, ben}
  Titles = {t1}
  TitleOf <- MCTitleOf
  QueryOf <- MCQueryOf
  Notices <- MCNotices
  Infos <- MCInfos
  Lists <- MCLists
  MalLists <- MCMalLists
  CoverLists <- MCCoverLists
SYMMETRY Symmetry
INVARIANTS GoogleOnlyIfUncatalogued HomonymsNeedTheAuthor NoticeLostOnlyToMal WorkBeatsVariant
CHECK_DEADLOCK FALSE
