------------------------------ MODULE HostVerdicts -------------------------------
(***************************************************************************)
(* What the scan makes of the addresses of a domain and of what others     *)
(* know of it: IPv6, blocklists, open ports, the registration, names that  *)
(* point at nothing, threat feeds, the page's scripts, and what an owner   *)
(* lets it try: relaying, recursion, default credentials, test requests.   *)
(***************************************************************************)
EXTENDS SiteVerdicts

Spamhaus == {"zen", "dbl"}
Lists == {"spamcop", "cbl"} \cup Spamhaus
Ports == {23, 443, 3306}
Feeds == {"threatfox", "urlhaus", "otx"}
CertifiedNames == {"d", "www.d"}
Clean == [l \in Lists |-> "clean"]
Quiet == [f \in Feeds |-> 0]

\* `lists` is what a blocklist answers, or that it is gone; `pointer` is where
\* a name of the domain points that may be gone; what is `guarded` "late" takes
\* a pair of credentials beyond the ceiling of attempts.
GoodHost ==
    [aaaa |-> {"web", "mail.d", "ns1"}, address |-> TRUE, lists |-> Clean, dqs |-> TRUE, threat |-> "none", open |-> {443},
     daysLeft |-> Some(400), ours |-> FALSE, relays |-> FALSE, recurses |-> FALSE, keys |-> TRUE, feeds |-> Quiet,
     manyNames |-> FALSE, proxy |-> FALSE, flagged |-> <<0, 0>>, pointer |-> "none",
     verified |-> TRUE, guarded |-> "no", libraries |-> 0, secrets |-> {}, maps |-> FALSE, unsigned |-> 0, reflects |-> {},
     imported |-> <<>>]

HostFlaws ==
    [aaaa |-> { {}, {"web"} }, address |-> {FALSE},
     lists |-> { [Clean EXCEPT !["spamcop"] = "listed"], [Clean EXCEPT !["cbl"] = "xbl", !["zen"] = "xbl"],
                 [Clean EXCEPT !["zen"] = "policy"], [Clean EXCEPT !["dbl"] = "error"], [l \in Lists |-> "gone"] },
     dqs |-> {FALSE}, threat |-> {"drop", "other"}, open |-> { {}, {23, 443}, {443, 3306} },
     daysLeft |-> { Absent, Some(-1), Some(1), Some(14), Some(30) }, ours |-> {TRUE}, relays |-> {TRUE}, recurses |-> {TRUE},
     keys |-> {FALSE}, feeds |-> { [Quiet EXCEPT !["otx"] = 1], [Quiet EXCEPT !["otx"] = 1, !["urlhaus"] = 1] },
     manyNames |-> {TRUE}, proxy |-> {TRUE}, flagged |-> { <<2, 0>>, <<1, 0>>, <<0, 1>> },
     pointer |-> {"assigned", "service", "app", "app verified", "unknown", "unclaimed"},
     verified |-> {FALSE}, guarded |-> {"strong", "weak", "late"}, libraries |-> {1}, secrets |-> { {"critical"}, {"info"} },
     maps |-> {TRUE}, unsigned |-> {2}, reflects |-> { {"q"} }, imported |-> { <<"high", "low">>, <<"medium", "high", "critical">> }]

HostQuestions ==
    { <<"ipv6", "AAAA">>, <<"ipv6", "MX">>, <<"ipv6", "NS">>, <<"ipv6", "mail.d">>, <<"ipv6", "ns1">>,
      <<"blacklist", "A">>, <<"ports", "A">>, <<"whois", "registry">>, <<"relay", "MX">>, <<"relay", "mail.d">>,
      <<"resolver", "NS">>, <<"resolver", "ns1">>, <<"osint", "crtsh">>, <<"osint", "A">>, <<"osint", "flags">>,
      <<"osint", "virustotal">>, <<"takeover", "crtsh">>, <<"takeover", "CNAME">>, <<"takeover", "target">>,
      <<"takeover", "page">>, <<"takeover", "asuid">>, <<"js_scan", "page">>, <<"js_scan", "script">>,
      <<"js_scan", "map">>, <<"weak_auth", "probe">>, <<"weak_auth", "try">>, <<"active_scan", "page">>,
      <<"active_scan", "q">> }
    \cup { <<"blacklist", l>> : l \in Lists } \cup { <<"alive", l>> : l \in Lists \ {"dbl"} }
    \cup { <<"osint", f>> : f \in Feeds }
    \cup { <<"ports", ToString(p)>> : p \in Ports }

--------------------------------------------------------------------------------
\* The checks.

\* A lookup that failed and one that found nothing give the same empty list.
check_ipv6(w, S) ==
    LET has(name, q) == name \in w.aaaa /\ <<"ipv6", q>> \notin S
        hosts == IF <<"ipv6", "MX">> \in S THEN {} ELSE ToSet(w.mx) \ {"."}
    IN  [has |-> has("web", "AAAA"), hosts |-> hosts, mail |-> \E h \in hosts : has(h, h),
         ns |-> <<"ipv6", "NS">> \notin S /\ \E n \in w.ns : has(n, n)]

_build_dnsbl_list(w) == IF w.dqs THEN Lists ELSE Lists \ Spamhaus
\* A list by name is not asked for its test address.
_dnsbl_alive(w, S, l) == l = "dbl" \/ (w.lists[l] # "gone" /\ <<"alive", l>> \notin S)
\* An answer in the range of the errors is no listing.
_dnsbl_is_real_hit(answer) == answer \in {"listed", "xbl", "policy"}
check_blacklist(w, S) ==
    LET answers(l) == _dnsbl_alive(w, S, l) /\ <<"blacklist", l>> \notin S
        asked == {l \in _build_dnsbl_list(w) : answers(l)}
        hits == {l \in asked : _dnsbl_is_real_hit(w.lists[l])}
        policy == {l \in hits : w.lists[l] = "policy"}
        \* A list by name that is gone has no such name, as one that is clean.
        clean == {l \in asked : w.lists[l] \in {"clean", "gone"}}
    IN  IF ~w.address \/ <<"blacklist", "A">> \in S
        THEN [error |-> TRUE, listed |-> {}, policy |-> {}, measured |-> 0, codes |-> w.lists, threat |-> "not checked"]
        ELSE [error |-> FALSE, listed |-> hits \ policy, policy |-> policy, measured |-> Cardinality(hits \cup clean),
              codes |-> w.lists, threat |-> w.threat]

_check_port(w, S, port) == port \in w.open /\ <<"ports", ToString(port)>> \notin S
check_ports(w, S) ==
    [error |-> ~w.address \/ <<"ports", "A">> \in S,
     open |-> IF ~w.address \/ <<"ports", "A">> \in S THEN {} ELSE {p \in Ports : _check_port(w, S, p)}]

lookup_whois(w, S) == [days |-> IF <<"whois", "registry">> \in S THEN Absent ELSE w.daysLeft]

\* Whether a name that points at nothing can be claimed, from DNS alone.
provider_assigned(pointer) == pointer = "assigned"
_match_signature(pointer) == pointer \in {"service", "app", "app verified", "unclaimed"}
_app_service_verification(w, S) ==
    IF <<"takeover", "asuid">> \in S THEN "unknown" ELSE IF w.pointer = "app verified" THEN "yes" ELSE "no"
Stale == [kind |-> "dangling", registrable |-> "no", confidence |-> "low"]
classify_dangling(w, S, matches) ==
    CASE provider_assigned(w.pointer) -> Stale
      [] w.pointer = "unknown" -> [kind |-> "dangling", registrable |-> "unknown", confidence |-> "medium"]
      [] w.pointer \in {"app", "app verified"} /\ _app_service_verification(w, S) = "yes" -> Stale
      [] _match_signature(w.pointer) /\ (w.pointer \notin {"app", "app verified"} \/ _app_service_verification(w, S) # "yes") ->
             [kind |-> "takeover", registrable |-> "yes", confidence |-> IF matches THEN "high" ELSE "medium"]
\* A target that exists is claimable only if its page says so.
_check_one_takeover(w, S) ==
    IF w.pointer = "none" \/ <<"takeover", "CNAME">> \in S THEN Absent
    ELSE IF w.pointer # "unclaimed"
         THEN IF <<"takeover", "target">> \in S THEN Absent ELSE Some(classify_dangling(w, S, FALSE))
         ELSE IF <<"takeover", "page">> \in S THEN Absent ELSE Some(classify_dangling(w, S, TRUE))
\* The names of the certificates; without them only the domain's own.
enumerate_subdomains(S) == IF <<"takeover", "crtsh">> \in S THEN {Domain} ELSE CertifiedNames
check_subdomain_takeover(w, S) ==
    IF "www.d" \in enumerate_subdomains(S) THEN _check_one_takeover(w, S) ELSE Absent

\* Tests an owner allows for what is listed as the owner's.
is_allowed(w) == w.ours
check_open_relay(w, S) ==
    IF ~is_allowed(w) \/ <<"relay", "MX">> \in S THEN FALSE
    ELSE \E i \in DOMAIN w.mx : i <= 3 /\ w.mx[i] = "mail.d" /\ w.relays /\ <<"relay", w.mx[i]>> \notin S
check_open_resolver(w, S) ==
    is_allowed(w) /\ <<"resolver", "NS">> \notin S /\ \E n \in w.ns : w.recurses /\ <<"resolver", n>> \notin S
check_own_infra(w, S) ==
    [allowed |-> is_allowed(w), relay |-> check_open_relay(w, S), resolver |-> check_open_resolver(w, S)]

\* A feed without a key is skipped, one that fails gives no count.
Feed(w, S, f) == IF ~w.keys \/ <<"osint", f>> \in S THEN Absent ELSE Some(w.feeds[f])
certificate_transparency(w, S) == IF <<"osint", "crtsh">> \in S THEN Absent ELSE Some(IF w.manyNames THEN 25 ELSE 2)
virustotal_lookup(w, S) == IF ~w.keys \/ <<"osint", "virustotal">> \in S THEN Absent ELSE Some(w.flagged)
ip_context(w, S) == [proxy |-> w.proxy /\ w.address /\ {<<"osint", "A">>, <<"osint", "flags">>} \cap S = {}]
collect_osint(w, S) ==
    LET measured == {f \in Feeds : Feed(w, S, f) # Absent}
    IN  [subdomains |-> certificate_transparency(w, S), virustotal |-> virustotal_lookup(w, S),
         proxy |-> ip_context(w, S).proxy,
         hits |-> IF measured = {} THEN Absent
                  ELSE Some(FoldFunctionOnSet(+, 0, w.feeds, measured))]

JsPage(w, S) == w.address /\ (Served(w) \/ w.redirect = "none") /\ <<"js_scan", "page">> \notin S
js_scan_scan(w, S) ==
    LET script == ~EdgePage(S) /\ <<"js_scan", "script">> \notin S
    IN  IF ~JsPage(w, S) THEN NoPage
        ELSE [success |-> TRUE, libraries |-> IF script THEN w.libraries ELSE 0, secrets |-> IF script THEN w.secrets ELSE {},
              maps |-> script /\ w.maps /\ <<"js_scan", "map">> \notin S, unsigned |-> IF EdgePage(S) THEN 0 ELSE w.unsigned]

\* Only for a domain that was proved to be the operator's.
NotVerified == [success |-> TRUE, skipped |-> TRUE]
weak_auth_scan(w, S) ==
    LET endpoint == Served(w) /\ w.guarded # "no" /\ ~EdgePage(S) /\ <<"weak_auth", "probe">> \notin S
    IN  [success |-> TRUE, skipped |-> FALSE, endpoint |-> endpoint,
         weak |-> endpoint /\ w.guarded = "weak" /\ <<"weak_auth", "try">> \notin S]
check_weak_auth(w, S) == IF w.verified THEN weak_auth_scan(w, S) ELSE NotVerified
active_scan_scan(w, S) ==
    IF ~Served(w) \/ <<"active_scan", "page">> \in S THEN [success |-> FALSE, skipped |-> FALSE]
    ELSE [success |-> TRUE, skipped |-> FALSE,
          findings |-> {p \in w.reflects : ~EdgePage(S) /\ <<"active_scan", p>> \notin S}]
check_active_scan(w, S) == IF w.verified THEN active_scan_scan(w, S) ELSE NotVerified

\* What was imported of the domain needs no answer of it.
_attach_rapid7_findings(w) == [success |-> TRUE, findings |-> w.imported]

--------------------------------------------------------------------------------
\* What is advised.

_ipv6(r) == If("ipv6" \in DOMAIN r /\ ~r.ipv6.has, << Item("network:no ipv6", "info") >>)

\* CBL is a part of ZEN: one listing, not two.
distinct_listings(bl) == bl.listed \ (IF "zen" \in bl.listed /\ bl.codes["zen"] = "xbl" THEN {"cbl"} ELSE {})
\* The tile of the overview; a listing of an address that a network shares is
\* none of the domain's.
_only_pbl(bl, listed) == \A l \in listed : bl.codes[l] = "policy"
overview_blacklist(r) ==
    LET bl == r.blacklist
        shared == IF {"cdn", "dns"} \subseteq DOMAIN r THEN r.dns.A ELSE FALSE
    IN  IF "blacklist" \notin DOMAIN r THEN "none"
        ELSE IF bl.error THEN "none"
        ELSE IF bl.listed # {} THEN IF _only_pbl(bl, distinct_listings(bl)) \/ shared THEN "context" ELSE "fail"
        ELSE IF bl.measured = 0 THEN "not_tested" ELSE "pass"
_ip_lists(bl) ==
    If(bl.threat = "drop", << Item("network:spamhaus drop", "high") >>)
    \o If(bl.threat = "other", << Item("network:ip threat list", "medium") >>)
_blacklist(r) ==
    If("blacklist" \in DOMAIN r,
       _ip_lists(r.blacklist)
       \o If(overview_blacklist(r) \notin {"none", "pass"}, << Item("network:ip reputation", "info") >>))

_ports(r) ==
    If("ports" \in DOMAIN r,
       If(23 \in r.ports.open, << ItemOf("network:port", "", 23, "high") >>)
       \o If(3306 \in r.ports.open, << ItemOf("network:port", "", 3306, "medium") >>))

_whois(r) ==
    LET days == r.whois.days[1]
    IN  If("whois" \in DOMAIN r /\ r.whois.days # Absent,
           IF days < 0 THEN << Item("whois:expired", "critical") >>
           ELSE If(days <= 30, << Item("whois:expires soon", IF days <= 1 THEN "high" ELSE IF days <= 14 THEN "medium" ELSE "info") >>))

_own_infra(r) ==
    If("own_infra" \in DOMAIN r /\ r.own_infra.allowed,
       If(r.own_infra.relay, << Item("email:relay", "critical") >>)
       \o If(r.own_infra.resolver, << Item("dns:open resolver", "high") >>))

_osint(r) ==
    LET o == r.osint
        malicious == o.virustotal[1][1]
        suspicious == o.virustotal[1][2]
    IN  If("osint" \in DOMAIN r,
           If(o.hits # Absent /\ o.hits[1] > 0, << Item("osint:threat feeds", "high") >>)
           \o If(o.subdomains # Absent /\ o.subdomains[1] >= 25, << Item("osint:many names", "info") >>)
           \o If(o.proxy, << Item("osint:proxy", "info") >>)
           \o If(o.virustotal # Absent,
                 IF malicious >= 2 THEN << ItemOf("osint:flagged", "", malicious, "high") >>
                 ELSE If(malicious = 1 \/ suspicious > 0, << Item("osint:isolated detection", "info") >>)))

TakeoverFindings(found) ==
    IF found = Absent THEN <<>>
    ELSE CASE found[1].kind = "takeover" ->
                  << Item("takeover:possible", IF found[1].confidence = "high" THEN "high" ELSE "medium") >>
           [] found[1].kind = "dangling" ->
                  << Item("takeover:dangling", IF found[1].registrable = "no" THEN "info" ELSE "low") >>

_weak_auth(r) ==
    If("weak_auth" \in DOMAIN r /\ ~r.weak_auth.skipped,
       IF r.weak_auth.weak THEN << Item("authentication:weak credentials", "critical") >>
       ELSE If(r.weak_auth.endpoint, << Item("authentication:basic", "info") >>))

js_scan_findings(js) ==
    If(js.libraries > 0, << Item("javascript:library", "medium") >>)
    \o SetToSeq({Item("javascript:secret", severity) : severity \in js.secrets})
    \o If(js.maps, << ItemOf("javascript:source maps", "", 1, "low") >>)
    \o If(js.unsigned > 0, << ItemOf("javascript:no sri", "", js.unsigned, "low") >>)
_js_scan(r) == If("js_scan" \in DOMAIN r /\ r.js_scan.success, js_scan_findings(r.js_scan))

_active_scan(r) ==
    IF "active_scan" \notin DOMAIN r \/ r.active_scan.skipped \/ ~r.active_scan.success THEN <<>>
    ELSE SetToSeq({ItemOf("active:finding", p, 0, "medium") : p \in r.active_scan.findings})

\* The first of what was imported that is grave enough.
MaxRapid7 == 2
_rapid7(r) ==
    LET grave == SelectSeq(r.rapid7.findings, LAMBDA s : s \in {"critical", "high", "medium"})
    IN  If("rapid7" \in DOMAIN r /\ r.rapid7.success,
           [i \in 1..Min({Len(grave), MaxRapid7}) |-> ItemOf("rapid7", grave[i], 0, grave[i])])
=============================================================================
