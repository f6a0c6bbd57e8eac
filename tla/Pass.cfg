SPECIFICATION Spec
CONSTANTS
  r1 = r1
  r2 = r2
  w = w
  github = github
  okta = okta
  osint = osint
  cloud = cloud
  devices = devices
  i1 = i1
  i2 = i2
  i3 = i3
  iw = iw
  igithub = igithub
  iokta = iokta
  iosint = iosint
  icloud = icloud
  idev = idev
  semgrep = semgrep
  nuclei = nuclei
  operate = operate
  sspm = sspm
  osintTool = osintTool
  clouddrift = clouddrift
  deviceposture = deviceposture
  cloudcdr = cloudcdr
  Assets = {r1, r2}
  Surfaces = {devices}
  Order <- MCOrder
  Issues = {i1, i3, idev}
  Where <- MCWhere
  Producers = {semgrep, nuclei, operate, sspm, osintTool, clouddrift, deviceposture, cloudcdr}
  ProducerOf <- MCProducerOf
  EventProducers = {cloudcdr}
  Tools <- MCTools
  Gated = {nuclei}
  TypeProducers <- MCTypeProducers
  SurfaceProducer <- MCSurfaceProducer
  Unfolded = {}
  Lenient = {}
  OneShot = {}
  Stamping = {}
  ResolveAfterAbsent = 1
  Faults = {"conn", "scan", "tool", "fetch", "put", "store"}
  MaxIssues = 2
PROPERTIES ClearedIsReal AbsenceIsReal
