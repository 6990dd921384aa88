SPECIFICATION FairSpec
CONSTANTS
  Titles = {t1, t2}
  Formats <- TwoFormats
  Docs = {d1, d2}
  Broken = Broken
  Nothing = Nothing
  MaxEdits = 3
INVARIANTS TypeOK SignatureVouches
PROPERTY Settles
