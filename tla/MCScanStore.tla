---------------------------- MODULE MCScanStore -----------------------------
(* An authenticated web scan: katana discovers, seed_auth logs in, nuclei  *)
(* and dalfox detect with the session, an escalated nuclei goes deeper,    *)
(* and the web agent looks for what no scanner reports.                    *)
EXTENDS ScanStore

CONSTANTS katana, login, detect, probe, deep, crawler, seed_auth, nuclei, dalfox,
          xss, ssrf, idor, c1, c2

MCEscalation == <<deep>>
MCSignal == [d \in {deep} |-> {xss}]
MCToolOf == [d \in {katana, login, detect, probe, deep} |->
               CASE d = katana -> crawler [] d = login -> seed_auth
                 [] d = probe -> dalfox [] OTHER -> nuclei]
MCNeeds == [t \in Tools |-> IF t \in {nuclei, dalfox} THEN {seed_auth} ELSE {}]
MCFinds == [d \in Dispatches |-> CASE d = detect -> {xss}
                                   [] d = deep -> {ssrf} \cap Issues [] OTHER -> {}]
=============================================================================
