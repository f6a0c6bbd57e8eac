SPECIFICATION Spec
CONSTANTS
  r1 = r1
  r2 = r2
  w = w
  github = github
  okta = okta
  osint = osint
  cloud = cloud
  devices = devices
  i1 = i1
  i2 = i2
  i3 = i3
  iw = iw
  igithub = igithub
  iokta = iokta
  iosint = iosint
  icloud = icloud
  idev = idev
  semgrep = semgrep
  nuclei = nuclei
  operate = operate
  sspm = sspm
  osintTool = osintTool
  clouddrift = clouddrift
  deviceposture = deviceposture
  cloudcdr = cloudcdr
  Assets = {r1}
  Surfaces = {devices}
  Order <- MCOrder
  Issues = {idev}
  Where <- MCWhere
  Producers = {semgrep, nuclei, operate, sspm, osintTool, clouddrift, deviceposture, cloudcdr}
  ProducerOf <- MCProducerOf
  EventProducers = {cloudcdr}
  Tools <- MCTools
  Gated = {}
  TypeProducers <- MCTypeProducers
  SurfaceProducer <- MCSurfaceProducer
  Unfolded = {}
  Lenient = {}
  OneShot = {}
  Stamping = {devices}
  ResolveAfterAbsent = 2
  Faults = {"fetch"}
  MaxIssues = 1
PROPERTIES ClearedWasLookedFor
