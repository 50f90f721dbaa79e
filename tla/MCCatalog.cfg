SPECIFICATION Spec
CONSTANTS
  Procs = {p1, p2}
  Catalogs <- MCCatalogs
  Content <- MCContent
  Signatures <- MCSignatures
  Signed <- MCSigned
  SigKey <- MCSigKey
  Binaries = {1, 2}
  Embedded <- MCEmbedded
  Commands = 3
  Drafts <- MCDrafts
  Selectors <- MCSelectors
  Number <- MCNumber
INVARIANTS AcceptedResolves PointerIsComplete UpdatesGoThrough
PROPERTIES ResetRecovers ImplementsContract
SYMMETRY MCSymmetry
