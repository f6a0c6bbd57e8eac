SPECIFICATION Spec
CONSTANTS
  katana = katana
  login = login
  detect = detect
  probe = probe
  deep = deep
  crawler = crawler
  seed_auth = seed_auth
  nuclei = nuclei
  dalfox = dalfox
  xss = xss
  ssrf = ssrf
  idor = idor
  c1 = c1
  c2 = c2
  Recon = {katana}
  Fanout = {login, detect, probe}
  Behind = {detect}
  Escalation <- MCEscalation
  Signal <- MCSignal
  Pruned = {}
  ToolOf <- MCToolOf
  Needs <- MCNeeds
  Writers = {seed_auth}
  Issues = {xss, idor}
  Finds <- MCFinds
  Private = {xss}
  Concurrency = 1
  MaxEscalation = 1
  MaxScans = 2
  MaxChanges = 1
  Commands = {c1}
  Dismissed = {}
  Agent = {idor}
  Decisions = {"verified", "closed"}
  MaxBundles = 1
INVARIANTS WriterBeforeReader ResultsSurvive FixedIsEarned
PROPERTIES LifecycleHolds
