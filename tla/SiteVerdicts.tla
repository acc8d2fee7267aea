------------------------------ MODULE SiteVerdicts -------------------------------
(***************************************************************************)
(* What the scan makes of what a site runs on and of what it leaves open:  *)
(* the infrastructure in front of it, why it refuses, HubSpot behind       *)
(* Cloudflare, files and endpoints that answer, security.txt and its key,  *)
(* the versions it tells, and the hardening of the network in front.       *)
(***************************************************************************)
EXTENDS WebVerdicts

(***************************************************************************)
(* `signs` are the headers, cookies, names and addresses that tell what a  *)
(* site runs on; `files` and `admin` are the paths that answer with what   *)
(* they are taken for.                                                     *)
(***************************************************************************)
GoodSite ==
    [signs |-> {"nginx"}, deny |-> FALSE, wafPage |-> FALSE, hubspot |-> {}, hcms |-> FALSE, files |-> {},
     soft404 |-> FALSE, admin |-> {}, trace |-> FALSE, securityTxt |-> "plain", advisories |-> {}]

SiteFlaws ==
    [signs |-> { {"x-azure-ref"}, {"arraffinity", "cname-azure"}, {"ip-azure", "iis"}, {"cf-ray", "ip-cloudflare"},
                 {"ip-cloudflare"}, {"x-amz-cf-id", "awsalb", "x-served-by"}, {"akamai", "bunnycdn", "ovh"},
                 {"apache", "iis"} },
     deny |-> {TRUE}, wafPage |-> {TRUE},
     hubspot |-> { {"asset"}, {"asset", "cookie", "portal", "forms"}, {"cookie", "banner"}, {"cname"} },
     hcms |-> {TRUE}, files |-> { {"/.env"}, {"/.git/config"}, {"/server-status"} }, soft404 |-> {TRUE},
     admin |-> { {"/admin"} }, trace |-> {TRUE}, securityTxt |-> {"none", "key", "no key", "private", "elsewhere"},
     advisories |-> { {"nginx"} }]

SiteQuestions ==
    { <<"http_deep", "page">>, <<"http_deep", "CNAME">>, <<"http_deep", "A">>, <<"hubspot_cf", "page">>,
      <<"hubspot_cf", "CNAME">>, <<"hubspot_cf", "/_hcms/">>, <<"info", "page">>, <<"exposure", "page">>,
      <<"exposure", "cors">>, <<"exposure", "OPTIONS">>,
      <<"exposure", "baseline">>, <<"exposure", "security.txt">>, <<"exposure", "key">>, <<"exposure", "/admin">> }
    \cup { <<"exposure", f>> : f \in {"/.env", "/.git/config", "/server-status"} }

\* A check asks by HTTPS and then by HTTP.
Reached(w, S, check) == w.address /\ <<check, "page">> \notin S
\* The signs a check gets: those in the page, in the chain of names, the address.
NameSigns == {"cname-azure", "ovh"}
AddressSigns == {"ip-azure", "ip-cloudflare"}
Signs(w, S, check) ==
    (IF EdgePage(S) THEN w.signs \cap (NameSigns \cup AddressSigns \cup {"cf-ray", "bunnycdn"}) ELSE w.signs)
    \ ((IF <<check, "CNAME">> \in S THEN NameSigns ELSE {}) \cup (IF <<check, "A">> \in S THEN AddressSigns ELSE {}))

--------------------------------------------------------------------------------
\* The checks.

_detect_infrastructure(signs) ==
    LET name(sign) ==
            CASE sign = "x-azure-ref" -> "Azure Front Door" [] sign = "arraffinity" -> "Azure App Service"
              [] sign = "cname-azure" -> "Azure (azurewebsites)" [] sign = "x-amz-cf-id" -> "AWS CloudFront"
              [] sign = "awsalb" -> "AWS ALB" [] sign = "x-served-by" -> "Fastly" [] sign = "akamai" -> "Akamai"
              [] sign = "bunnycdn" -> "BunnyCDN" [] sign = "ovh" -> "OVHcloud" [] sign = "cf-ray" -> "Cloudflare"
              [] sign = "nginx" -> "nginx" [] sign = "apache" -> "Apache"
        certain == signs \cap {"x-azure-ref", "arraffinity", "cname-azure", "x-amz-cf-id", "awsalb", "x-served-by", "akamai",
                               "bunnycdn", "ovh", "cf-ray", "nginx"}
        azure == {"x-azure-ref", "arraffinity", "cname-azure"} \cap signs # {}
    IN  {name(s) : s \in certain}
        \cup (IF ~azure /\ "ip-azure" \in signs THEN {"Azure (IP range)"} ELSE {})
        \cup (IF "cf-ray" \notin signs /\ "ip-cloudflare" \in signs THEN {"Cloudflare (IP range)"} ELSE {})
        \cup (IF "iis" \in signs /\ ~azure /\ "ip-azure" \notin signs THEN {"Microsoft IIS"} ELSE {})
        \cup (IF "apache" \in signs /\ "nginx" \notin signs THEN {name("apache")} ELSE {})

\* Why a page was refused; nothing that tells is told as such.
_diagnose_4xx(w, S, status, signs) ==
    LET hint(condition, id) == IF condition THEN <<id>> ELSE <<>>
        told == hint(w.deny /\ ~EdgePage(S), "application")
                \o hint("x-azure-ref" \in signs /\ w.wafPage, "azure waf") \o hint("x-azure-ref" \in signs /\ ~w.wafPage, "azure")
                \o hint("Azure App Service" \in _detect_infrastructure(signs), "app service")
                \o hint("cf-ray" \in signs /\ w.wafPage, "cloudflare waf") \o hint("cf-ray" \in signs /\ ~w.wafPage, "cloudflare")
    IN  CASE status = 401 -> <<"authentication">> [] status = 405 -> <<"method">> [] status = 429 -> <<"rate">>
          [] status = 403 -> (IF told = <<>> THEN <<"nothing told">> ELSE told)
          [] OTHER -> <<>>

check_http_deep(w, S) ==
    LET signs == Signs(w, S, "http_deep")
    IN  IF ~Reached(w, S, "http_deep") THEN NoPage
        ELSE [success |-> TRUE, status |-> Status(w, S), infrastructure |-> _detect_infrastructure(signs),
              diagnostics |-> _diagnose_4xx(w, S, Status(w, S), signs), issues |-> analyze_response_security(w, S).issues]

_detect_cloudflare(w, S) == "cf-ray" \in Signs(w, S, "hubspot_cf")
_detect_hubspot(w, S) ==
    (IF EdgePage(S) THEN {} ELSE w.hubspot \ {"cname"})
    \cup (IF <<"hubspot_cf", "CNAME">> \in S THEN {} ELSE w.hubspot \cap {"cname"})
_build_findings(w, S, hubspot, cloudflare) ==
    LET found == hubspot # {}
        cookies == "cookie" \in hubspot
        answers == found \/ cloudflare
    IN  If(found, << Item(IF cloudflare THEN "hubspot:behind cloudflare" ELSE "hubspot:without cloudflare", "info") >>)
        \o If(cookies /\ "banner" \notin hubspot, << Item("hubspot:no banner", "info") >>)
        \o If(found /\ SentBy(w, S).csp = Absent, << Item("web:csp", "medium") >>)
        \o If(found /\ ~ShowsHsts(w, S, "final"), << Item("web:hsts:missing", "medium") >>)
        \o If("portal" \in hubspot, << Item("hubspot:portal", "info") >>)
        \o If("forms" \in hubspot /\ cloudflare, << Item("hubspot:forms", "info") >>)
        \o If(answers /\ w.hcms /\ <<"hubspot_cf", "/_hcms/">> \notin S, << Item("hubspot:hcms", "info") >>)
        \o If(Status(w, S) \in {401, 403} /\ cloudflare /\ found, << Item("hubspot:denied", "info") >>)
scan_hubspot_cloudflare(w, S) ==
    IF ~Reached(w, S, "hubspot_cf") THEN [success |-> FALSE, findings |-> <<>>]
    ELSE [success |-> TRUE, findings |-> _build_findings(w, S, _detect_hubspot(w, S), _detect_cloudflare(w, S))]

\* A site that answers any path with one page shows nothing by answering one
\* of these; the files are told by what is in them.
Answers(S, question) == <<"exposure", question>> \notin S /\ ~EdgePage(S)
_get_soft_404_baseline(w, S) == IF Answers(S, "baseline") THEN Some(w.soft404) ELSE Absent
_probe_admin(w, S, path, baseline) ==
    /\ Answers(S, path) /\ (path \in w.admin \/ w.soft404)
    /\ baseline = Some(TRUE) => path \in w.admin
_probe_sensitive_files(w, S) == {f \in w.files : Answers(S, f)}
_cors_probe(w, S) ==
    IF ~Answers(S, "cors") THEN "unknown"
    ELSE CASE w.cors = "reflect" /\ w.credentials -> "reflects" [] w.cors = "*" /\ w.credentials -> "wildcard" [] OTHER -> "safe"
_methods_probe(w, S) == Answers(S, "OPTIONS") /\ w.trace
FoundSecurityTxt(w, S) == w.securityTxt # "none" /\ Answers(S, "security.txt")
check_security_txt_key(w, S) ==
    CASE w.securityTxt = "plain" -> [state |-> "not_applicable", key |-> "none"]
      [] w.securityTxt = "elsewhere" -> [state |-> "unmeasured", key |-> "none"]
      [] w.securityTxt \in {"key", "no key", "private"} ->
             [state |-> IF <<"exposure", "key">> \in S THEN "unmeasured" ELSE "measured",
              key |-> IF <<"exposure", "key">> \in S THEN "none" ELSE w.securityTxt]

_ADMIN_PATHS == {"/admin"}
check_web_exposure(w, S) ==
    IF ~Reached(w, S, "exposure") THEN NoPage
    ELSE [success |-> TRUE, cookies |-> SentBy(w, S).cookies, cors |-> _cors_probe(w, S), trace |-> _methods_probe(w, S),
          files |-> _probe_sensitive_files(w, S),
          admin |-> {p \in _ADMIN_PATHS : _probe_admin(w, S, p, _get_soft_404_baseline(w, S))},
          securityTxt |-> FoundSecurityTxt(w, S),
          key |-> IF FoundSecurityTxt(w, S) THEN check_security_txt_key(w, S) ELSE [state |-> "not_applicable", key |-> "none"]]

check_info_disclosure(w, S) ==
    LET page == SentBy(w, S)
    IN  IF ~Reached(w, S, "info") THEN NoPage
        ELSE [success |-> TRUE,
              leaks |-> (IF page.server = "version" THEN {"Server"} ELSE {}) \cup (IF page.powered = "version" THEN {"X-Powered-By"} ELSE {}),
              advisories |-> IF page.server = "version" THEN w.advisories ELSE {}]

--------------------------------------------------------------------------------
\* What is advised.

\* The issues of the page are told here when the headers' check has none.
_http_deep(r) ==
    LET d == r.http_deep
        analysed == "http_headers" \in DOMAIN r /\ r.http_headers.success /\ ~r.http_headers.blocked
    IN  If("http_deep" \in DOMAIN r /\ d.success,
           [i \in DOMAIN d.diagnostics |-> ItemOf("web:refused", d.diagnostics[i], 0, "info")]
           \o If(~analysed, _web_vuln_findings(d.issues)))

_hubspot_cf(r) == If("hubspot_cf" \in DOMAIN r, r.hubspot_cf.findings)

SensitiveSeverity(path) ==
    CASE path = "/.env" -> "high" [] path = "/.git/config" -> "medium" [] path = "/server-status" -> "low"
\* The flags a cookie lacks are in the title; any set of them is a number.
CookieFinding(c) ==
    LET lacks == (IF c.secure THEN 0 ELSE 1) + (IF c.httponly THEN 0 ELSE 2) + (IF c.samesite = "" THEN 4 ELSE 0)
    IN  If(lacks # 0, << ItemOf("exposure:cookie", c.name, lacks, "low") >>)
KeyFindings(key) ==
    If(key.state = "measured",
       CASE key.key = "private" -> << Item("exposure:private key", "critical") >>
         [] key.key = "no key" -> << Item("exposure:no key served", "low") >> [] OTHER -> <<>>)
WebFindings(web) ==
    IF ~web.success THEN <<>>
    ELSE SetToSeq({ItemOf("exposure:file", f, 0, SensitiveSeverity(f)) : f \in web.files})
         \o If(web.cors = "reflects", << Item("exposure:cors", "medium") >>)
         \o If(web.cors = "wildcard", << Item("web:cors:wildcard-credentials", "info") >>)
         \o If(web.trace, << Item("exposure:trace", "info") >>)
         \o FlattenSeq([i \in DOMAIN web.cookies |-> CookieFinding(web.cookies[i])])
         \o SetToSeq({ItemOf("exposure:admin", p, 0, "info") : p \in web.admin})
         \o If(~web.securityTxt, << Item("exposure:no security.txt", "info") >>)
         \o KeyFindings(web.key)
InfoFindings(info) ==
    IF ~info.success THEN <<>>
    ELSE SetToSeq({ItemOf("exposure:version", h, 0, "info") : h \in info.leaks})
         \o SetToSeq({ItemOf("exposure:advisory", a, 0, "high") : a \in info.advisories})

\* The network in front, by what its headers and names say.  Without one it is
\* "generic": no network, but an identity.
detect_cdn(r) ==
    LET names == IF "http_deep" \in DOMAIN r THEN IF r.http_deep.success THEN r.http_deep.infrastructure ELSE {} ELSE {}
        headers == IF "http_headers" \in DOMAIN r THEN IF r.http_headers.success THEN r.http_headers.signs ELSE {} ELSE {}
    IN  IF "BunnyCDN" \in names \/ "bunnycdn" \in headers THEN "bunny"
        ELSE IF {"Cloudflare", "Cloudflare (IP range)"} \cap names # {} \/ "cf-ray" \in headers THEN "cloudflare"
        ELSE IF "OVHcloud" \in names THEN "ovh" ELSE "generic"

\* The network in front of a site is told what it can set; what the NCSC
\* assessment already found is left out.
optimizations_summary(r) ==
    LET hashes == IF Deep(r) THEN r.tls_deep.hashes.insufficient # {} ELSE FALSE
        order == IF Deep(r) THEN r.tls_deep.order.applicable /\ r.tls_deep.order.pass = "no" ELSE FALSE
        headers == "http_headers" \in DOMAIN r /\ r.http_headers.success
        csp == IF headers THEN \/ Csp_ \in r.http_headers.missing
                               \/ ~r.http_headers.blocked /\ r.http_headers.analysis[1].csp.grade \in {"missing", "weak", "fair"}
               ELSE FALSE
        blocked == (IF headers THEN r.http_headers.blocked ELSE FALSE) \/ (IF Deep(r) THEN r.tls_deep.hsts.blocked ELSE FALSE)
    IN  If(hashes, << Item("cdn:signature hash", "high") >>) \o If(order, << Item("cdn:cipher order", "medium") >>)
        \o If(blocked, << Item("cdn:headers unverified", "info") >>) \o If(csp, << Item("web:csp", "medium") >>)
_cdn_hardening(r) ==
    LET ncsc == IF "ncsc_tls" \in DOMAIN r THEN {r.ncsc_tls.findings[i].key : i \in DOMAIN r.ncsc_tls.findings} ELSE {}
        covered(key) == \/ key = "cdn:signature hash" /\ "ncsc:signature hash insufficient" \in ncsc
                        \/ key = "cdn:cipher order" /\ "ncsc:cipher order" \in ncsc
    IN  SelectSeq(optimizations_summary(r), LAMBDA item : ~covered(item.key))
=============================================================================
