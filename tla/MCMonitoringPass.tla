-------------------------- MODULE MCMonitoringPass --------------------------
(* Estates for TLC: repositories r1 and r2 scanned by the engine, a        *)
(* workspace w assessed by operate, and surfaces.  Each configuration      *)
(* picks the issues that live there.                                       *)
EXTENDS MonitoringPass

CONSTANTS r1, r2, w, github, okta, osint, cloud, devices,
          i1, i2, i3, iw, igithub, iokta, iosint, icloud, idev,
          semgrep, nuclei, operate, sspm, osintTool, clouddrift, deviceposture, cloudcdr

MCWhere ==
  [i \in Issues |-> CASE i \in {i1, i3} -> r1 [] i = i2 -> r2 [] i = iw -> w
                      [] i = igithub -> github [] i = iokta -> okta
                      [] i = iosint -> osint [] i = icloud -> cloud
                      [] i = idev -> devices]

MCProducerOf ==
  [i \in Issues |-> CASE i \in {i1, i2} -> semgrep [] i = i3 -> nuclei [] i = iw -> operate
                      [] i \in {igithub, iokta} -> sspm [] i = iosint -> osintTool
                      [] i = icloud -> clouddrift
                      [] i = idev -> deviceposture]

(* nuclei is planned for r1 only, and only when fingerprinting asks for it.*)
MCTools == [a \in Assets |-> IF a = w THEN {} ELSE IF a = r1 THEN {semgrep, nuclei}
                             ELSE {semgrep}]
MCTypeProducers == [a \in Assets |-> IF a = w THEN {operate} ELSE {}]
MCSurfaceProducer ==
  [s \in Surfaces |-> CASE s \in {github, okta} -> sspm [] s = osint -> osintTool
                        [] s = cloud -> clouddrift [] s = devices -> deviceposture]

MCOrder == LET all == <<r1, r2, w, github, okta, osint, devices, cloud>>
               Here(p) == p \in Assets \cup Surfaces
           IN  SelectSeq(all, Here)
=============================================================================
