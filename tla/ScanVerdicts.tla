------------------------------ MODULE ScanVerdicts -------------------------------
(***************************************************************************)
(* Scans of one unchanged domain: the checks of a scan, the advice on      *)
(* their results, and what the comparison of two scans calls a change; and *)
(* one received message, link or file that is judged more than once.  Any  *)
(* question of a scan may get no answer, and that is all two scans differ  *)
(* in, but for the DKIM selectors a message has shown in between.          *)
(***************************************************************************)
EXTENDS MessageVerdicts, PostureVerdicts

CONSTANTS
    Selections   \* the sets of checks that are asked for

VARIABLES
    site,       \* what is judged: what it is like, and what is changed of that
    selected,   \* the checks that are asked for
    seen,       \* dkim_selectors_seen: the selectors messages showed, by domain
    reports     \* the scans: the questions without an answer, what was known
                \* of selectors, the results, the advice

verdictVars == <<site, selected, seen, reports>>

(***************************************************************************)
(* Sites as they are: one that has everything in order, one that says it *)
(* receives no mail, a name that is not in DNS, a name that points at one  *)
(* that is not; and each but the last two with one fact changed.           *)
(***************************************************************************)
Ordinary ==
    GoodZone @@ GoodTls @@ GoodWeb @@ GoodSite @@ GoodHost @@ [name |-> "exists", registry |-> "not_in_dns"]
NoMail ==
    [Ordinary EXCEPT !.mx = <<".">>, !.spf = << SpfRecord("-all", <<>>) >>, !.tlsa = {}, !.sts = FALSE, !.tlsrpt = "none",
                     !.dkim = [s \in Selectors \cup {Own} |-> "none"]]
NotThere ==
    [NoMail EXCEPT !.dnskey = FALSE, !.ds = FALSE, !.spf = <<>>, !.dmarc = <<>>, !.mx = <<>>, !.caa = <<>>, !.ct = {}, !.ns = {},
                   !.versions = {}, !.redirect = "none", !.address = FALSE, !.aaaa = {}, !.name = "no"]

Changed(good, flaws) == UNION { { f :> v : v \in flaws[f] } : f \in DOMAIN flaws }
ScanQuestions == { <<"exists", "A">>, <<"exists", "NS">>, <<"exists", "again">> }
Groups ==
    << [flaws |-> Changed(GoodZone, ZoneFlaws), asks |-> ZoneQuestions],
       [flaws |-> Changed(GoodTls, TlsFlaws) \cup Changed(GoodWeb, WebFlaws), asks |-> TlsQuestions \cup WebQuestions],
       [flaws |-> Changed(GoodSite, SiteFlaws), asks |-> SiteQuestions \cup { <<"edge", "blocks">> }],
       [flaws |-> Changed(GoodHost, HostFlaws), asks |-> HostQuestions] >>
Questions == ScanQuestions \cup UNION { Groups[g].asks : g \in DOMAIN Groups }

--------------------------------------------------------------------------------
\* The checks of a scan.

run_security_audit(w, S) ==
    [subdomains |-> check_subdomain_takeover(w, S), web |-> check_web_exposure(w, S), dns_mail |-> check_dns_mail_gaps(w, S),
     info |-> check_info_disclosure(w, S)]
audit_findings(audit) ==
    TakeoverFindings(audit.subdomains) \o WebFindings(audit.web) \o DnsMailFindings(audit.dns_mail) \o InfoFindings(audit.info)
check_security(w, S) == [findings |-> audit_findings(run_security_audit(w, S))]
check_js_scan(w, S) == js_scan_scan(w, S)

AllChecks == {"whois", "dnssec", "spf", "dmarc", "dkim", "mta_sts", "tlsrpt", "dns", "ssl", "tls_deep", "http_headers",
              "https_redirect", "http_deep", "ipv6", "blacklist", "ports", "osint", "hubspot_cf", "security", "weak_auth",
              "js_scan", "active_scan", "own_infra"}
_build_check_map(w, S, name) ==
    CASE name = "whois" -> lookup_whois(w, S) [] name = "dnssec" -> check_dnssec(w, S) [] name = "spf" -> check_spf(w, S)
      [] name = "dmarc" -> check_dmarc(w, S) [] name = "dkim" -> check_dkim(w, S) [] name = "mta_sts" -> check_mta_sts(w, S)
      [] name = "tlsrpt" -> check_tlsrpt(w, S) [] name = "dns" -> lookup_dns(w, S) [] name = "ssl" -> check_ssl(w, S)
      [] name = "tls_deep" -> check_tls_deep(w, S) [] name = "http_headers" -> check_http_headers(w, S)
      [] name = "https_redirect" -> check_https_redirect(w, S) [] name = "http_deep" -> check_http_deep(w, S)
      [] name = "ipv6" -> check_ipv6(w, S) [] name = "blacklist" -> check_blacklist(w, S) [] name = "ports" -> check_ports(w, S)
      [] name = "osint" -> collect_osint(w, S) [] name = "hubspot_cf" -> scan_hubspot_cloudflare(w, S)
      [] name = "security" -> check_security(w, S) [] name = "weak_auth" -> check_weak_auth(w, S)
      [] name = "js_scan" -> check_js_scan(w, S) [] name = "active_scan" -> check_active_scan(w, S)
      [] name = "own_infra" -> check_own_infra(w, S)
_run_checks(w, S, names) == [n \in names |-> _build_check_map(w, S, n)]

WithNcsc(results) == ("ncsc_tls" :> _attach_ncsc_tls(results)) @@ ("cdn" :> detect_cdn(results)) @@ results
\* The tests that send something only join a scan of everything where they may.
full_scan(w) ==
    AllChecks \ ((IF w.verified THEN {} ELSE {"weak_auth", "active_scan"}) \cup (IF is_allowed(w) THEN {} ELSE {"own_infra"}))

\* A name is not there when DNS says so twice; without an answer nobody knows.
_name_exists(w, S) ==
    LET answered(q) == <<"exists", q>> \notin S
    IN  CASE ~answered("A") -> "unknown"
          [] answered("A") /\ w.name \in {"exists", "dangling"} -> w.name
          [] answered("A") /\ w.name = "no" -> IF answered("NS") THEN "no" ELSE "unknown"
_not_delegated_results(w, S) ==
    [whois |-> lookup_whois(w, S),
     not_delegated |-> [reason |-> IF <<"whois", "registry">> \in S THEN "not_in_dns" ELSE w.registry, finding |-> Absent]]
_dangling_results(w, S) ==
    LET found == _check_one_takeover(w, S)
    IN  IF found = Absent THEN Absent
        ELSE Some([_not_delegated_results(w, S) EXCEPT !.not_delegated = [reason |-> "dangling_cname",
                                                                          finding |-> Some(TakeoverFindings(found))]])

\* Whether DNS answers at all is asked again before anything is judged; that
\* there is no such name is also an answer.
HealthIsOk(S) == <<"exists", "again">> \notin S
SelectedChecks(w, S, checks) ==
    LET names == checks \cup (IF "ncsc_tls" \in checks THEN {"tls_deep"} ELSE {})
        Finished(results) == IF {"all", "ncsc_tls"} \cap checks # {} THEN WithNcsc(results) ELSE results
    IN  Finished(_run_checks(w, S, IF "all" \in checks THEN full_scan(w) ELSE names \cap AllChecks))
run_selected_checks(w, S, checks) ==
    LET Gated(exists, dangling) ==
            IF exists = "no" THEN Some(_not_delegated_results(w, S))
            ELSE IF exists = "dangling" /\ dangling # Absent THEN dangling
            ELSE IF exists = "unknown" /\ ~HealthIsOk(S) THEN Absent
            ELSE Some(SelectedChecks(w, S, checks))
    IN  Gated(_name_exists(w, S), _dangling_results(w, S))

--------------------------------------------------------------------------------
\* The advice on a scan.

_security_audit(r) == If("security" \in DOMAIN r, r.security.findings)
_not_delegated(r) ==
    IF r.not_delegated.finding # Absent THEN r.not_delegated.finding[1] ELSE << Item("dns:not in dns", "info") >>

\* In the order of _SOURCES.
AdviceLists(r) ==
    << _whois(r), _dnssec(r), _spf(r), _dmarc(r), _non_mailing_domain(r), _dkim(r), _mta_sts(r), _tlsrpt(r), _own_infra(r),
       IF "tls_deep" \in DOMAIN r THEN _tls(r) ELSE <<>>, _ncsc_tls(r), _weak_auth(r), _https_redirect(r), _headers(r),
       _cdn_hardening(r), _ipv6(r), _blacklist(r), _ports(r), _osint(r),
       IF "http_deep" \in DOMAIN r THEN _http_deep(r) ELSE <<>>, _hubspot_cf(r), _rapid7(r), _security_audit(r), _js_scan(r),
       _active_scan(r) >>

\* What makes two pieces of advice one: the first of them stays.
_condition_key(item) == <<item.key, item.of, item.n>>
generate(r) ==
    LET Once(items) ==
            LET first(i) == \A j \in 1..(i - 1) : _condition_key(items[j]) # _condition_key(items[i])
                kept == SelectSeq([i \in DOMAIN items |-> i], first)
            IN  [k \in DOMAIN kept |-> items[kept[k]]]
    IN  IF "not_delegated" \in DOMAIN r THEN _not_delegated(r) ELSE Once(FlattenSeq(AdviceLists(r)))
summarize_counts(recs) ==
    [severity \in ToSet(Severities) |-> Cardinality({i \in DOMAIN recs : recs[i].sev = severity})]

--------------------------------------------------------------------------------
\* The comparison of two scans.

_FIELDS ==
    { <<"spf", "found">>, <<"spf", "all">>, <<"spf", "strict">>, <<"spf", "multiple">>, <<"dmarc", "found">>,
      <<"dmarc", "policy">>, <<"dkim", "found">>, <<"mta_sts", "found">>, <<"tlsrpt", "found">>, <<"dnssec", "signed">>,
      <<"ipv6", "has">>, <<"ipv6", "mail">>, <<"ssl", "until">>, <<"tls_deep", "grade">>, <<"tls_deep", "protocols">>,
      <<"http_headers", "score">>, <<"http_headers", "missing">>, <<"http_headers", "status">>, <<"https_redirect", "pass">>,
      <<"blacklist", "listed">> }
_extract(r, f) ==
    LET payload == r[f[1]]
    IN  CASE f = <<"spf", "all">> -> IF payload.record = Absent THEN Absent ELSE Some(payload.record[1].all)
          [] f = <<"ssl", "until">> -> IF payload.success THEN Some(payload.until) ELSE Absent
          [] f = <<"tls_deep", "grade">> -> IF payload.success THEN payload.grade ELSE Absent
          [] f = <<"tls_deep", "protocols">> -> IF payload.success /\ payload.protocols # {} THEN Some(payload.protocols) ELSE Absent
          [] f = <<"http_headers", "status">> -> IF payload.success THEN Some(payload.status) ELSE Absent
          [] f = <<"blacklist", "listed">> -> payload.listed # {}
          [] OTHER -> payload[f[2]]
\* A mutant of the comparison: what was not answered is compared.
State_Overlooked(payload) == "measured"

\* A result without a state counts as measured.
State(payload) == IF "state" \in DOMAIN payload THEN payload.state ELSE "measured"
compare(before, after) ==
    {f \in _FIELDS : /\ f[1] \in DOMAIN before \cap DOMAIN after
                     /\ State(before[f[1]]) = "measured" /\ State(after[f[1]]) = "measured"
                     /\ _extract(before, f) # _extract(after, f)}

_EMAIL_KEYS == {"spf", "dmarc", "dkim", "mta_sts", "tlsrpt"}
_email_auth_passing(r) ==
    LET measured == {k \in _EMAIL_KEYS \cap DOMAIN r : r[k].state = "measured"}
    IN  IF measured = {} THEN Absent ELSE Some(Cardinality({k \in measured : r[k].pass}))
_DIMENSIONS == {"tls_grade", "header_score", "blacklist", "open_ports", "dnssec", "https_redirect", "security_findings",
                "missing_headers", "email_auth", "reputation", "virustotal", "secrets", "vulnerable_js"}
Dimension(r, d) ==
    LET Of(check, value) == IF check \in DOMAIN r THEN value ELSE Absent
        Page(value) == IF "http_headers" \in DOMAIN r THEN IF r.http_headers.success THEN value ELSE Absent ELSE Absent
        Script(value) == IF "js_scan" \in DOMAIN r THEN IF r.js_scan.success THEN value ELSE Absent ELSE Absent
    IN  CASE d = "tls_grade" -> IF Deep(r) THEN r.tls_deep.grade ELSE Absent
          [] d = "header_score" -> Page(r.http_headers.score)
          [] d = "missing_headers" -> Page(Some(r.http_headers.missing))
          [] d = "blacklist" -> Of("blacklist", Some(Cardinality(r.blacklist.listed)))
          [] d = "open_ports" -> Of("ports", Some(r.ports.open))
          [] d = "dnssec" -> IF Measured(r, "dnssec") THEN Some(r.dnssec.signed) ELSE Absent
          [] d = "https_redirect" -> IF "https_redirect" \notin DOMAIN r THEN Absent
                                     ELSE IF r.https_redirect.pass = "unknown" THEN Absent ELSE Some(r.https_redirect.pass)
          [] d = "security_findings" -> Of("security", Some(Len(r.security.findings)))
          [] d = "email_auth" -> _email_auth_passing(r)
          [] d = "reputation" -> Of("osint", r.osint.hits)
          [] d = "virustotal" -> IF "osint" \notin DOMAIN r THEN Absent
                                 ELSE IF r.osint.virustotal = Absent THEN Absent
                                 ELSE Some(r.osint.virustotal[1][1] + r.osint.virustotal[1][2])
          [] d = "secrets" -> Script(Some(Cardinality(r.js_scan.secrets)))
          [] d = "vulnerable_js" -> Script(Some(r.js_scan.libraries))
compare_dimensions(before, after) ==
    {d \in _DIMENSIONS : LET old == Dimension(before, d)
                             new == Dimension(after, d)
                         IN  old # Absent /\ new # Absent /\ old # new}

\* Information is no finding.
_open_findings(recs) == {_condition_key(recs[i]) : i \in {j \in DOMAIN recs : recs[j].sev # "info"}}
finding_changes(old, new) ==
    [new |-> _open_findings(new) \ _open_findings(old), resolved |-> _open_findings(old) \ _open_findings(new)]
monitor_changes(before, after) ==
    [fields |-> compare(before.results, after.results), dimensions |-> compare_dimensions(before.results, after.results),
     findings |-> finding_changes(before.advice, after.advice)]

--------------------------------------------------------------------------------
Sites == ("ordinary" :> Ordinary) @@ ("no mail" :> NoMail) @@ ("not there" :> NotThere)
Tests ==
    ("message" :> GoodMessage) @@ ("forwarded" :> Forwarded) @@ ("links" :> GoodLinks)
    @@ ("file" :> (GoodLinks @@ GoodFiles))
TestFlaws ==
    [base \in DOMAIN Tests |->
        CASE base \in {"message", "forwarded"} -> Changed(GoodMessage, MessageFlaws)
          [] base = "links" -> Changed(GoodLinks, LinksFlaws)
          [] base = "file" -> Changed(GoodFiles, FileFlaws)]
IsSite == site.base \in DOMAIN Sites

\* What a scan has to go on: the domain, and the selectors seen in its mail.
learned_selectors(domain) == {pair[2] : pair \in {p \in seen : p[1] = domain}}
Tested == site.change @@ Tests[site.base]
World == [learned |-> learned_selectors(Ours)] @@ site.change @@ Sites[site.base]
PointsAtNothing(pointer) == ("name" :> "dangling") @@ ("pointer" :> pointer)
VerdictInit ==
    /\ selected \in Selections
    /\ seen = {}
    /\ reports = <<>>
    /\ \/ site \in [base : DOMAIN Sites, change : { << >> }]
       \/ site \in [base : {"not there"}, change : {PointsAtNothing(p) : p \in HostFlaws.pointer}
                                                 \cup { "registry" :> r : r \in {"registry_status", "not_registered"} }]
       \/ /\ selected = {"all"}
          /\ \/ site \in [base : {"ordinary", "no mail"}, change : UNION { Groups[g].flaws : g \in DOMAIN Groups }]
             \/ \E base \in DOMAIN Tests : site \in [base : {base}, change : { << >> } \cup TestFlaws[base]]

\* The questions that may go without an answer: all of them, or those of the
\* checks that look at what is changed.
Asks ==
    CASE site.base \in {"message", "forwarded"} -> MessageQuestions
      [] site.base = "links" -> LinksQuestions
      [] site.base = "file" -> FileQuestions
      [] IsSite -> IF site.change = << >> \/ site.base = "not there" THEN Questions
                     ELSE UNION { Groups[g].asks : g \in {k \in DOMAIN Groups : site.change \in Groups[k].flaws} }

Judgement(S, results, advice) ==
    [silent |-> S, knew |-> learned_selectors(Ours), results |-> results, advice |-> advice,
     posture |-> rating(summarize_counts(advice))]
Scan(S) ==
    /\ IsSite
    /\ \E ran \in {run_selected_checks(World, S, selected)} :
          /\ ran # Absent
          /\ \E results \in {("rapid7" :> _attach_rapid7_findings(World)) @@ ran[1]} :
                reports' = Append(reports, Judgement(S, results, generate(results)))
    /\ UNCHANGED <<site, selected, seen>>

\* A message is judged and not kept, but for the selectors it shows.
remember(pairs) == seen' = seen \cup pairs
api_mail_test(S) ==
    /\ site.base \in {"message", "forwarded"}
    /\ \E judged \in {analyse_message(Tested, S)} :
          /\ reports' = Append(reports, Judgement(S, << >>, judged.findings))
          /\ remember(judged.learned)
    /\ UNCHANGED <<site, selected>>
\* A message of the domain itself, with its own selector; that only matters to
\* what is found of DKIM.
OwnMessage ==
    [GoodMessage EXCEPT !.from = <<Ours>>, !.signatures = << Signature(Ours, Own, "yes") >>,
                        !.keys[Own] = IF World.dkim[Own] = "active" THEN Key("rsa", 2048) ELSE NoKey]
ReadMail(S) ==
    /\ IsSite /\ site.base # "not there"
    /\ site.change = << >> \/ "dkim" \in DOMAIN site.change
    /\ seen = {} /\ reports # <<>>
    /\ remember(analyse_message(OwnMessage, S).learned)
    /\ UNCHANGED <<site, selected, reports>>
api_link_check(S) ==
    /\ site.base = "links"
    /\ reports' = Append(reports, Judgement(S, << >>, url_check_check(Tested, S)))
    /\ UNCHANGED <<site, selected, seen>>
JudgeFile(S) ==
    /\ site.base = "file"
    /\ reports' = Append(reports, Judgement(S, << >>, analyse_file(Tested, S)))
    /\ UNCHANGED <<site, selected, seen>>

MaxReports == 2
AllAnswered == \A i \in DOMAIN reports : reports[i].silent = {}
Judge(S) == Scan(S) \/ api_mail_test(S) \/ api_link_check(S) \/ JudgeFile(S)
VerdictNext ==
    /\ Len(reports) < MaxReports
    /\ \/ \E S \in { {}, {<<"key", Own>>} } : ReadMail(S)
       \/ \E S \in { {} } \cup (IF AllAnswered THEN { {q} : q \in Asks } ELSE {}) : Judge(S)

VerdictSpec == VerdictInit /\ [][VerdictNext]_verdictVars

--------------------------------------------------------------------------------
\* Advice that says that something could not be seen.
Unverified == {"attachment:not scanned", "cdn:headers unverified", "tls:hsts unverified", "web:headers unverified",
               "web:redirect unverified", "web:refused"}

\* Where silence is still taken for an answer, by the check that asked: the
\* advice, the fields and the dimensions it may cost.
Guessed ==
    [alive |-> {"mail:end-user address"}, back |-> {"mail:reverse dns elsewhere"},
     blacklist |-> {"mail:end-user address", "network:ip reputation"}, cipher |-> {"ncsc:phased out suites"},
     dns |-> {"email:spf missing", "email:spf not strict", "email:dmarc missing", "email:dmarc none", "email:mta-sts",
              "email:tls-rpt"},
     edge |-> {"web:csp", "web:hsts:missing", "framing_unprotected", "exposure:no security.txt"},
     exposure |-> {"exposure:admin", "exposure:no security.txt"}, hsts |-> {"web:hsts:missing"},
     https_redirect |-> {"web:no redirect"}, ipv6 |-> {"network:no ipv6"}, ocsp |-> {"tls:grade"},
     sandbox |-> {"attachment:known malware"}, takeover |-> {"takeover:possible"}, tls |-> {"ncsc:no modern version", "tls:protocol:1.3"},
     weak_auth |-> {"authentication:basic"}]
\* The findings on a site that are not found while their own check gets no answer.
\* finding_changes looks at the lists of findings alone and calls them resolved.
Hidden ==
    [active_scan |-> {"active:finding"}, blacklist |-> {"network:ip threat list", "network:spamhaus drop"},
     cert |-> {"certificate:soon", "ncsc:key insufficient", "ncsc:key phased out", "tls:grade", "tls:ocsp"},
     cipher |-> {"ncsc:phased out suites", "tls:cipher:insufficient", "tls:forward secrecy"},
     dmarc |-> {"email:dmarc missing", "email:dmarc none", "email:dmarc weak, no mail", "email:no dmarc, no mail"},
     dns |-> {"email:dmarc weak, no mail", "email:no dmarc, no mail", "email:no spf, no mail", "email:spf senders, no mail"},
     dnssec |-> {"dns:dnssec"},
     edge |-> {"cookie_no_httponly", "cookie_no_secure", "cookie_samesite_none_insecure", "disclosure_aspnet",
               "disclosure_server_version", "disclosure_x_powered_by", "exposure:cookie", "exposure:file",
               "exposure:no key served", "exposure:private key", "framing_csp_star", "tls:hsts below a year", "tls:hsts off",
               "tls:hsts short", "tls:hsts subdomains", "web:header ignored", "web:header permissive",
               "web:headers missing", "web:hsts:missing", "web:no redirect", "web:permissions policy", "web:redirect temporary"},
     exposure |-> {"exposure:file", "exposure:no key served", "exposure:private key"},
     gaps |-> {"certificates:caa", "dns:axfr", "dns:caa no issue", "dns:no caa", "email:dmarc subdomains"},
     hash |-> {"ncsc:signature hash insufficient", "ncsc:signature hash phased out"},
     http_headers |-> {"web:csp", "web:header ignored", "web:header permissive", "web:headers missing", "web:permissions policy"},
     https_redirect |-> {"web:redirect temporary"}, hygiene |-> {"dns:malformed"},
     js_scan |-> {"javascript:library", "javascript:no sri", "javascript:secret", "javascript:source maps"},
     mta_sts |-> {"email:mta-sts"}, mx_dane |-> {"email:dane:missing"}, ocsp |-> {"tls:grade", "tls:ocsp"},
     osint |-> {"osint:flagged", "osint:threat feeds"}, ports |-> {"network:port"},
     spf |-> {"email:no spf, no mail", "email:spf missing", "email:spf not strict", "email:spf senders, no mail"},
     spf_lookups |-> {"email:spf lookups"}, takeover |-> {"takeover:dangling", "takeover:possible"},
     tls |-> {"certificate:soon", "ncsc:key insufficient", "ncsc:key phased out", "ncsc:no modern version",
              "ncsc:phased out suites", "ncsc:signature hash insufficient", "ncsc:signature hash phased out",
              "tls:cipher:insufficient", "tls:compression", "tls:forward secrecy", "tls:grade", "tls:hsts below a year",
              "tls:hsts off", "tls:hsts short", "tls:hsts subdomains", "tls:ocsp", "tls:protocol", "tls:protocol:1.3",
              "web:hsts:missing"},
     tlsrpt |-> {"email:tls-rpt"}, weak_auth |-> {"authentication:weak credentials"},
     whois |-> {"whois:expired", "whois:expires soon"}]
\* Fields and dimensions of results without the state compare looks at, or whose
\* state is measured although a question got no answer.
Grade == << {<<"tls_deep", "grade">>}, {"tls_grade"} >>
Listing == << {<<"blacklist", "listed">>}, {"blacklist"} >>
Taught == << {<<"dkim", "found">>}, {"email_auth"} >>
Blurred ==
    [alive |-> Listing, blacklist |-> Listing, cipher |-> Grade, hsts |-> Grade, ocsp |-> Grade,
     tls |-> << {<<"tls_deep", "grade">>, <<"tls_deep", "protocols">>}, {"tls_grade"} >>,
     cert |-> << {<<"tls_deep", "grade">>}, {} >>, ssl |-> << {<<"ssl", "until">>}, {} >>,
     edge |-> << {<<"tls_deep", "grade">>, <<"http_headers", "status">>, <<"http_headers", "missing">>,
                  <<"http_headers", "score">>, <<"https_redirect", "pass">>},
                 {"tls_grade", "missing_headers", "header_score"} >>,
     http_headers |-> << {<<"http_headers", "status">>, <<"http_headers", "missing">>, <<"http_headers", "score">>}, {} >>,
     https_redirect |-> << {<<"https_redirect", "pass">>}, {"https_redirect"} >>,
     ipv6 |-> << {<<"ipv6", "has">>, <<"ipv6", "mail">>}, {} >>, ports |-> << {}, {"open_ports"} >>,
     osint |-> << {}, {"reputation"} >>, js_scan |-> << {}, {"secrets", "vulnerable_js"} >>]
\* Dimensions that count over what was measured: the results do say what was not,
\* and the numbers are compared all the same.
Counted ==
    [email_auth |-> _EMAIL_KEYS,
     security_findings |-> {"gaps", "hygiene", "mx_dane", "spf_lookups", "takeover", "exposure", "edge"}]
\* What a report shows of a scan: its tiles, its controls, and whether TLS is as
\* the guidelines ask.
Shows(r) ==
    tile_states(r) @@ controls(r)
    @@ ("ncsc" :> (IF "ncsc_tls" \in DOMAIN r
                   THEN IF r.ncsc_tls.success THEN IF r.ncsc_tls.pass THEN "pass" ELSE "fail" ELSE "none" ELSE "none"))
Verdicts == {"pass", "fail", "context", "not_applicable"}
Turns(before, after) ==
    {v \in DOMAIN before : {before[v], after[v]} \subseteq Verdicts /\ before[v] # after[v]}
\* What is shown as passed or failed on the word of a check that got no answer.
Turned ==
    [alive |-> {"blacklist"}, blacklist |-> {"blacklist"}, cert |-> {"ncsc"}, cipher |-> {"ncsc"}, hash |-> {"ncsc"},
     tls |-> {"ncsc"}, dns |-> {"mta_sts", "tlsrpt"}, hsts |-> {"hsts"}, https_redirect |-> {"https"}, ipv6 |-> {"ipv6_mail"},
     mta_sts |-> {"mta_sts"}, spf |-> {"dkim"}, weak_auth |-> {"weak_auth"}]
\* A name that is not there, or points at nothing, was taken for one that is.
Misplaced(q) == site.base = "not there" /\ q[1] \in {"exists", "takeover"}

\* Nothing is advised on an unchanged domain because a question got no answer
\* (recommendations.generate over results that may be unmeasured), but for what
\* says so and what is named above.
SilenceAddsNothing ==
    \A i, j \in DOMAIN reports :
        reports[i].silent = {} /\ reports[i].knew = reports[j].knew =>
            LET known == {_condition_key(item) : item \in ToSet(reports[i].advice)}
            IN  \A item \in ToSet(reports[j].advice) :
                    \/ _condition_key(item) \in known \/ item.key \in Unverified
                    \/ \E q \in reports[j].silent :
                          Misplaced(q) \/ (q[1] \in DOMAIN Guessed /\ item.key \in Guessed[q[1]])

\* Two scans of an unchanged domain read the same (scan_diff: "only where both scans
\* measured the field"; management: "a control that could not be checked is counted
\* as such, never as passed or failed"): what a monitor calls a change, a field, a
\* dimension or a finding, and a tile or a control, only differs where the very check
\* it is of got no answer.  That it differs there, and a monitor tells of an incident,
\* is against those words in three ways: the result has no state that says unmeasured
\* (Blurred, Turned), a dimension counts what was measured (Counted), or a finding is
\* guessed or is missing (Guessed, Hidden).  A message may also have shown a selector
\* in between.
SameReadsSame ==
    \A i, j \in DOMAIN reports :
        LET changes == monitor_changes(reports[i], reports[j])
            silent == reports[i].silent \cup reports[j].silent
            taught == reports[i].knew # reports[j].knew
            Of(table, S, change) ==
                \E q \in S : Misplaced(q) \/ (q[1] \in DOMAIN table /\ change \in table[q[1]])
            Blurs(part, change) ==
                \/ taught /\ change \in Taught[part]
                \/ \E q \in silent : Misplaced(q) \/ (q[1] \in DOMAIN Blurred /\ change \in Blurred[q[1]][part])
            Counts(d) == d \in DOMAIN Counted /\ \E q \in silent : q[1] \in Counted[d]
            Added(S, finding) == (S # {} /\ finding[1] \in Unverified) \/ Of(Guessed, S, finding[1])
            \* On one side it was guessed, or on the other it was not seen.
            Appears(finding, without, with) ==
                Added(reports[with].silent, finding) \/ Of(Hidden, reports[without].silent, finding[1])
        IN  /\ \A f \in changes.fields : Blurs(1, f)
            /\ \A d \in changes.dimensions : Blurs(2, d) \/ Counts(d)
            /\ IsSite => /\ \A k \in changes.findings.new : Appears(k, i, j)
                         /\ \A k \in changes.findings.resolved : Appears(k, j, i)
            /\ \A v \in Turns(Shows(reports[i].results), Shows(reports[j].results)) :
                  \/ taught /\ v = "dkim"
                  \/ Of(Turned, silent, v)

\* A domain that no network stands in front of, and whose address is on a
\* blocklist, is shown to be (tests/test_overview_tiles.py: the domain's own
\* listed server still fails).
Networks == {"bunnycdn", "cf-ray", "ip-cloudflare", "ovh"}
OwnListingFails ==
    \A i \in DOMAIN reports :
        LET r == reports[i].results
        IN  "blacklist" \in DOMAIN r /\ World.signs \cap Networks = {} =>
                (r.blacklist.listed # {} => controls(r)["reputation"] = "fail")
=============================================================================
