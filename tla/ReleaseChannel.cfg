\* A stable job and its re-run, two reads of the tags, and any two kinds of interference; and the
\* jobs of both channels at once. Two provisioners and one user of the trusted npm.
CONSTANTS
  Channel = {"preview", "stable"}
  None = None
  Attempts = 2
  Bounds <- MCBounds
  Provisioner = {p1, p2}
  User = {u1}
  Audited = 1
  MaxChunks = 2
  Missing = None
SPECIFICATION AuthoritySpec
INVARIANTS PublishedAsApproved JobsEndTruly NpmIsAudited
PROPERTIES AuthorityKeepsOff AuthoritiesEnd
